# batchai: a TLA+ model

batchai is a command line program (Go, `cmd/`, `pkg/`, `comm/`) that lets a
language model check the files of a project or write tests for them, and a demo
of it: a server (`demo/server`, NestJS, TypeORM, SQLite) that runs batchai on
GitHub repositories for its users, and a web client (`demo/web`, Next.js).
This directory holds TLA+ modules of the parts whose behaviour is hard to test,
the TLC configurations that check them and proofs of their main properties.
`demo/server/src/` is written `server/` below.

## 1. Inventory

| Component | State | Operations | Talks to | Hard behaviour |
|---|---|---|---|---|
| Command service (`server/service/command.service.ts`, `entity/command.entity.ts`) | the command table; the in-memory PQueue, concurrency 1, of closures; the job being run | create, update, restart, resume, stop, remove, lock, unlock; `execute`/`doRun`, stage by stage; `initCheck` at boot | database, artifact files, GitHub client, the batchai process, websocket | every `await` lets another handler run; each handler saves a whole copy of a row it read earlier; the queue dies with the process; errors swallowed by the closure or not awaited |
| Command facade, transactions (`server/service/command.facade.ts`, `framework/transaction.ts`) | the nesting of open transactions | one `@Transactional` method per request | command service, SQLite through TypeORM | one connection for everybody: the transactions of overlapping requests nest |
| Artifact files (`server/service/artifact.files.ts`) | working copies, zip archives | archive, remove, the paths | file system | archives written while folders are removed; un-awaited removals |
| Repositories (`server/service/repo.service.ts`, `repo.facade.ts`, `helper/github.ts`) | the repo table, forks and their clones | create, remove, search, lock, unlock; fork, clone, pull, push, checkout | GitHub, git | several external steps, any of which fails; polling with a limit |
| Users and sessions (`server/framework/user.ts`, `auth*.ts`) | the user table, tokens | sign in, refresh, quotas | GitHub OAuth | the user is created on first use by several requests |
| Status and log streams (`subscribeStatusEvent`, `subscribeLogEvent`; `demo/web/src/app/commands/[id]/page.tsx`) | rooms, log files, what the page shows | subscribe, emit, append | command service, websocket | what happens between the reading of the log and the joining of the room |
| Web client (`demo/web`) | session, the pages' state, open dialogs | the API calls | server | what a page offers, on the copy it shows, against what the server decides on its own; otherwise presentation |
| Check and test agents (`pkg/check_agent.go`, `check_command.go`, `test_agent.go`, `test_command.go`) | results, metrics, reports, files | check a file, fix it, report; write tests | model client, symbol and code file managers | goroutines; a failure of one step of several |
| Symbols (`pkg/symbol_manager.go`, `symbol_agent.go`) | the symbol cache, in memory and on disk | load, extract, look up, save | model client | stale and duplicate entries |
| Reports and code files (`pkg/check_report_manager.go`, `code_file_manager.go`) | files beside the project | load, save | file system | is a report still of this file? |
| Model client (`pkg/model_client.go`) | a semaphore, token counts | chat | the model service | the budget; releasing the semaphore |
| File lists, text helpers (`pkg/list_command.go`, `comm/file_match.go`, `comm/text.go`) | none | match, list, extract markdown blocks | | edge cases of the inputs |

What makes each correct: a command's row tells the truth about the run behind it
(no success that was not one, no Running or Queued row that nothing will ever
move, no work on somebody else's leftovers); a request that was answered stays
done; archives and working copies are those of the command they are named
after; a repository's row, fork and clone agree or the row is not there; a
subscriber misses no line; every file that was asked for is checked once, and
what was reported is what is on disk; calls to the model stay within their
bounds. `PROJECT.json` lists the hazards at their lines with the properties that
cover them.

## 2. Modules and plan

| Module | What it is |
|---|---|
| `CommandService` | the command service: table, handlers, queue, worker, recovery |
| `CommandLifecycle` | abstract: the life of a command's status, and nothing else of it |
| `CommandRefinement` | the mapping under which `CommandService` implements `CommandLifecycle` |
| `CommandFacade` | the command service behind its transactions; EXTENDS `CommandService` |
| `RepoService` | repositories: creation with fork and clone, removal, lock, archive, and the transactions around them |
| `GitStages` | the stages of `doRun` as git sees them: upstream, forks, clones, working copies, branches |
| `CommandPage` | the streams of status and log, and the page that follows a command |
| `PageControls` | the buttons and dialogs of that page, their requests, and what the server makes of them |
| `Users` | users, sessions, the star and the quota, in the browser and on the server |
| `CheckCommand` | `batchai check`: a run, its agents, their reports, the files and git |
| `TestCommand` | `batchai test`: the symbols, the agents, the tests they write, the reports |
| `MC...` | values of the constants |
| `CommandProofs` | theorems about `CommandService`, its refinement and its facade |
| `CheckCommandProofs`, `CommandPageProofs`, `GitStagesProofs`, `PageControlsProofs`, `RepoServiceProofs`, `TestCommandProofs`, `UsersProofs` | theorems about the module of that name |

The order was that of the consequences: a command that is lost or lies about its
run first, then what the transactions do to it, the check command, the
repositories and what a run does to them, the test command and its symbols, the
users and the page. The modules of the server are composed where their state is
shared and the hazard is in the sharing: `CommandFacade` and `RepoService` have
the one connection, `GitStages` has the forks and clones that commands share.
`CommandService` keeps a working copy as one value (`tree`), `GitStages` the same
stages with what is in it; their stage names are the same.

Every safety property that a passing run checks is also a theorem (section 13). Left
for later: the token budget of the model client, several pages of one command.

## 3. CommandService

**State.** `present` and `rows` are the command table, `born` the ids given out.
A row has `status`, `runStatus`, `hasChanges`, `locked`, whether it has a commit
id (`commit`), what a user may set (`params`, one value for all of it) and
whether it has its repository. The record of a handler, of a job and of the
worker holds a *copy* of a row, as the entities in memory do. In a copy `repo` is
`"lazy"` until the relation has been read, which is what decides what a save that
has to insert the row again writes to `repo_id`. `KeyOf` maps an id to its
(repository, command) pair, which names the unique index and the working copy
(`tree`) on disk. `queue` is the PQueue, `worker` the job in execution,
`handlers` the requests in flight, `boot` the progress of `initCheck`.

**Steps.** One action is the code between two awaits that matter: the load, the
save, the deletion of files, the appending to the queue, a stage of `doRun`, the
save that records it. A save is one step (TypeORM reads, then writes; what another
request writes between the two is overwritten as it is when it comes just
before). Reads of lazy relations and the appending of log lines are not steps.
`StageToDo` is the chain of `nextRunStatus()` tests of `doRun` with its `if
(c.hasChanges)`. A stage that works in the working copy can only fail when there
is none; which others may fail is `Faults`. `"render"` is the failure of
`CommandDetail.from` after the save of `updateStatus` or `updateRunStatus`,
`"prepare"` and `"remove"` the failure of file operations.

**Crash.** A crash keeps the table and the files, and loses handlers, queue,
worker and `initCheck`. The supervisor starts the server again. A promise of
`initCheck`'s `map()` that rejects is an unhandled rejection and ends the
process, which is the action `Unhandled`.

**Properties.**
- `SucceededMeansComplete`: a row that says Succeeded has `runStatus` End and,
  with changes, a commit id. Handlers overwrite each other's columns, so this is
  a property of all the copies that may still be saved.
- `WorkIsFromThisRun`: a stage inside the working copy is done in a copy this run
  has checked out (`execute` removes the folder, so that a resume after the
  checkout fails and does not commit leftovers).
- `CancelNeverFires`: no status test in `execute` or `doRun` can succeed.
- `RunningHasWorker`, `QueuedHasJob`: no orphaned Running or Queued row.
- `CommandSettles`: a command that waits or runs gets out of it.

**The abstract specification.** `CommandLifecycle` has one action for each way a
status may change: a request resets it, or writes back one it has read (`drafts`),
or removes the command, or submits a job; the run at the head of the queue makes it
Running and then Succeeded or Failed; a boot marks what it finds Running as Failed
and lets what it finds Queued wait again, the oldest first. `CommandRefinement` maps the
handlers' copies to `drafts`, the closures to ids, the worker's program counter to a
phase. `LifecycleHolds` is checked in the run `run`, and proved (section 13) for all
constants. `Lossy` is the assumption under which a run may also end without telling
(`Falter`): a file operation or a rendering that fails, or a removal meanwhile; in that
run it is FALSE.

## 4. CommandFacade

SQLite has one connection, and TypeORM one query runner for it with a
`transactionDepth`: the first `startTransaction` is BEGIN, later ones are
SAVEPOINTs, commit and rollback act on the last of them. `undo` is the stack of
the table's contents at the BEGIN and at each savepoint. `Begin`, `Commit` and
`Rollback` wrap the handler steps of `CommandService`; `Within` is any other step,
the worker's and `initCheck`'s included, which write into whatever is innermost.
`Reboot` is a crash or an unhandled rejection: the open transaction is undone,
so the table becomes `Durable`. `starting` is the transaction of `onModuleInit`,
which is committed without waiting for the service's `initCheck`.

- `ImagesAreComplete`: `SucceededMeansComplete` also of everything a rollback or
  a crash could bring back.
- `QuietIsDurable`: when no request is in flight no transaction is open, so a
  crash loses nothing.

## 5. RepoService

**State.** `table` are the rows of the repositories with the id sequence (each row with
the command of the repository, if it has one, of which only the lock matters);
`undo` the open transactions, as in `CommandFacade`; `disk` the working folder of each
repository (its clone: none, part, bare, that is without the remote `forked_from`,
or ready; of whose fork; whether a command has worked in it); `zips` the archive and
who has not finished writing it, `sweeping` the removals nobody waits for; `forks`,
by *name*, as the organisation has them. `cut`, `swept` and `mixed` are history.

**Steps.** `Typed` are the ways users write a repository; `Parsed` is
`ParsedRepoPath.parse`, which drops the scheme and the host and ignores what follows
the name. A creation is `CheckExists`, `SaveRow`, `CheckUpstream`, `LookForClone`, then
either `CheckFound` or `CreateFork`, `Poll`, `StartClone`, `FinishClone`, and `AddRemote`,
in one transaction. `Poll` gives up after `MaxPolls` (10 in the code) and goes on. The
removal deletes folders before it knows of a lock (`RefuseLocked`) and the
transaction that is rolled back then does not bring them back. `ForkAppears` is
GitHub, some time after `createFork`; `ForkIsDeleted` its owner. A crash undoes what is open,
while a git that runs may still finish.

**Properties.** `RowHasClone`: a repository in the table can be worked on, unless its
creation was cut short after the row was saved by another way than its own
rollback. `ArchiveIsWhole`: what a download is given is a whole archive; the
exceptions are each a line of the code that does not wait. `RequestsEnd`: every
request is answered, also when the fork never appears.

## 6. GitStages

**State.** `upstream` is how far each repository is; a commit is which versions of which
repositories it contains (`Heads`), by which run it was made and, as history, whether
that run had pushed what it is based on. `forks` are the fork's default branch and
`batchai/<command>` branches, `clones` the `forked` folders (shallow until unshallowed),
`copies` the `repo` folders of the commands, `rows` the columns a resume reads, `worker`
where `doRun` is and which branch `cmdRepoObj` believes to be on.

**Steps.** One action per git command. `FirstStep` is where `doRun` goes on for what the
row has recorded. `Begin` is a restart or a resume, which removes the working copy in
either case. Every step may `Fail`, before or after git has done its work, or the
server dies, which comes to the same: Failed, with the stages recorded so far.
`Advance` is anybody who pushes to the upstream. The default branch of a fork contains
what was pulled from its upstream; a push that does not contain what is there is refused.

**Properties.** `DefaultBranchSurvives`: `removeRemoteBranch` deletes the branch that the
copy was *made* with, which a resumed run never changes; only that such a run has
no folder to start git in keeps the default branch of the fork alive.
`CommitIsPushed`: what a row says of its push is so. `BranchIsOnMain`: a branch has
what batchai did and nothing else.

## 7. CommandPage

**State.** `row` is the number of the last save, `savers` what the worker or a request has
saved and not emitted yet, `lines` and `file` the log, `rooms` the page's socket,
`wire` what is on its way in order, `answers` what is on its way in any order, `page`
what is shown. **Steps.** `Save` and `Emit` are two, as there is an await between; so are
`AppendLine` and `EmitLine`, `ReadLog` and `JoinLog`. `Open` starts the load and both
subscriptions, `Refresh` is the answer to the load or to a request of this user, which clears
the logs, `Receive` a message. `Reconnect` is socket.io's, after which nobody subscribes
again. **Properties.** `PageShowsRow` and `LogIsOnPage` say what a page shows when nothing
more is on its way, with what the code does lose by name: `missed` are the rows the
page was not told of since its load, `racing` and `cleared` the lines that fell between
the reading of the file and the joining of the room, or were on the page when it was
refreshed.

## 8. PageControls

**State.** `rows` is what each save wrote, so that a row goes by its number: of a row, that
the command is Running or not, locked or not, or removed. `requests` are the page's, each
with the number of the row its user was *shown* when deciding on it (`seen`) and the one
the server has refused it on, loaded or saved. `page` has the session, the row it shows
and the dialog that is open, with the row that was shown when it was opened; `told` are
the status events on their way.

**Steps.** `Save` is anybody else, who saves a copy of any earlier row. `Refuse`, `Accept` and
`Serve` are the server: the roles of the route and the tests of the service on the row
it loads, then the save of *that* copy, later. `RejectSettings` is the update that is refused
for what it asks, not for the row. On the page, `OnRestart` and `OnLockOrUnlock` send at
once, `OnDelete` and `OnClickEditIcon` open a dialog, `OnConfirm` and `OnSubmit` send from
it; nothing is disabled while a request is on its way, so that each may be sent twice.
`Refresh` shows the row an answer brought, however old; `Hear` that of an event.
`RestoreSession` loads a second time; `TimeOut`, `Redirect` and `LeaveRemoved` are the other
ends of a request.

**Property.** `RefusalIsStale`: what the page offers the server does, unless the command has
been saved since the user was shown the row. It relates two lists of conditions, the
`disabled` of the toolbar's buttons and the tests in `command.service.ts`, and it is what
a second click that is refused does *not* contradict: the first has saved.

## 9. Users

**State.** `table` are the users, `undo` the transactions, `starred` GitHub's answer,
`session` and `stored` what each browser holds in memory and in its local storage,
`dialog` the dialog of a command. **Steps.** `Call` opens a request: a sign-in with
GitHub (find or create, ask for the star, save), with a password, a renewal, the
creation of a repository (which creates the user its owner's name stands for), a removal
by an administrator, `initAdminUser`. `MakeDialog`, `OnChangeNum` and `OnSubmit` are
the browser's side of a command, `CheckNum` the server's: the dialog keeps the number and
the quota it was made with when its page was first shown, whatever the session and the
row become, and what was typed last; opening it is `Opens`, a condition of the two others. **Properties.**
`TokenIsOfItsUser`: ids are not reused under a token; `RefusalIsExplained`: the two
checks of the quota agree unless what they look at has changed. `mixed` is the case the
first excepts: a rollback of another request has undone a user whose sign-in was
answered.

## 10. CheckCommand

**State.** `disk`, `index` and `head` are the contents of the files as the working
tree, git's index and the last commit have them; a content is a member of `Codes`,
as `NormalizeCode` leaves it, so two files that differ in white space at their ends
are one. `saved` are the report files, of which `issue`, `fixed` and `original`
matter. A run is `cmd`, with one of `agents` for each element of its target list;
`cache` is the report manager's map, `chatting` the holder of the model client's
semaphore, `results` the channel. A file may be a target twice
(`batchai check <repository> <directory> <file in it>`). `clean` and `touched` are
history: what a model has been asked about and left as it is, and what the user has
edited since the run began.

**Steps.** An agent's step is what lies between two accesses to something shared:
the file, the report manager (whose mutex is held during `"saving"`), the
semaphore, the channel. `WriteFile` is two steps, since it truncates first; so is
the writing of a report. `Failing` is the deferred `recover()` of `run()`: any panic
becomes a failed result. `Faults` names what may panic; the errors that
`SaveReport` ignores (`"report"`) leave the old report or none and still succeed.
Without `--concurrent`, and with a single target, `Launch` waits for the agent
before. `Interrupt` ends the process at any step; files and reports stay. `Edit`
happens at any time, `Stage` and `Commit` between runs.

**Properties.**
- `ResultsAddUp`, `SendsFit`: every file is counted once, whatever panicked, and no
  agent finds the channel full or closed.
- `SkipIsJustified`: with `--fix` a file is skipped only when a model was asked
  about this very code and left it as it is.
- `FixIsOfFile`: what a fix is about to overwrite is what the model was asked
  about, and what it writes is code. Not so, and not prevented by the code, when the
  user edits the file while the model answers, and when two goroutines have the
  same file; the property says so.
- `ReportIsOfFile`: after a run with `--fix` the file is what its report says.
- `RunEnds`: every run ends.

## 11. TestCommand

**State.** `disk` are the files, `originals` the code file manager's copies, `symbolFiles`
and `reports` what earlier runs have left, `byFile`, `byName` and `cache` the maps in
memory, `scouts` the symbol agents and `agents` the test agents of the run `cmd`.
`started`, `touched`, `written` and `torn` are history. A symbol is a name, the file and
the content it was found in. `byName` has a set of them for a name: the code appends to an
array, and gives the model every entry, so that one that is there twice only
lengthens the message.

**Steps.** `LoadAll` reads the symbol files of the repository, outside any `recover()`.
A symbol agent compares the file with its copy (`LoadCode`), asks the model, saves the
symbols (`Extract` truncates the file, `WriteSymbols` writes it) and writes the code it
has read back to the file and to its copy (`TruncateCode`, `WriteCode`, `SaveOriginal`).
They are always goroutines. The test agents begin when all of them are done, are given
the symbols they ask for (`ProvideSymbols`), write the tests to the file the *model*
names (`Generate`, `WriteTest`) and report it.

**Properties.** `SkipHasTests`, `SymbolsAreOfCode`, `FilesAreKept`, `GivenIsComplete`,
`TestsAreWhereTheyAreSaid`: see their comments; each excepts by name what the code does
not prevent.

## 12. Runs

| Run | Configuration | Shows |
|---|---|---|
| `all` | 1 command, 2 overlapping requests of any operation, 1 crash, faults in early and late stages, files, rendering | TypeOK, SucceededMeansComplete, WorkIsFromThisRun, CancelNeverFires |
| `run` | 1 command; create, update-and-run, restart, resume, stop; a failing stage; 1 crash; fairness | RunningHasWorker, QueuedHasJob, CommandSettles, LifecycleHolds |
| `facade` | 1 command, create-and-run and a refused unlock overlapping; rendering faults; 1 crash | FacadeTypeOK, ImagesAreComplete, QuietIsDurable |
| `repos` | 2 repositories of one name, one of which exists; 2 overlapping requests of any operation; GitHub and git failing; 1 crash, 1 lost fork; fairness | TypeOK, RowHasClone, ArchiveIsWhole, RequestsEnd |
| `stages` | 2 commands of one repository and 1 of another with the same fork; 3 runs or resumes, each failing anywhere; 1 commit upstream | TypeOK, DefaultBranchSurvives, CommitIsPushed, BranchIsOnMain |
| `page` | the worker, a stop and a lock; 3 saves, 2 lines, a new run, a page opened at any time, 1 disconnection | TypeOK, PageShowsRow, LogIsOnPage |
| `controls` | a user or an administrator; 1 save by others, 3 requests or openings of the page | TypeOK, RefusalIsStale |
| `users` | 2 emails with the same name part, one the administrator's, whose owner alone neither stars nor has a dialog (`Editors`); 4 requests, 2 at a time; 1 star, 1 restart | TypeOK, TokenIsOfItsUser, RefusalIsExplained |
| `check` | two files, or one file twice; sequential and concurrent; all faults, 1 edit, 1 run, interrupted anywhere | TypeOK, ResultsAddUp, SendsFit, FixIsOfFile, ReportIsOfFile |
| `check_again` | one file, alone or twice; 3 runs, each interrupted anywhere; failing calls; fairness | SkipIsJustified, RunEnds |
| `test` | two files; a run with symbols and one with two concurrent agents, in any order; failing calls and writes, 1 edit, interrupted anywhere; a text is code or a test (`Tests`) and stays so | TypeOK, SkipHasTests, SymbolsAreOfCode, FilesAreKept, GivenIsComplete, TestsAreWhereTheyAreSaid |
| `claim_fork` | two repositories of one name, created one after the other | violated: CloneIsOfRepo |

Bounds: `NumCmds`, `MaxRequests`, `MaxCrashes` and the set of handlers are the
only ones. Commands interact only through the queue and the unique index, so one
command shows the races of its copies; what two ids with one key do to each other
through the index is in the proofs, for any number of them. Two requests and the
worker are enough for every pair of writers of a row. A second
crash begins from a state that one crash leaves. `CHECK_DEADLOCK FALSE`: with the
requests used up and the queue empty the server is idle.

For `CheckCommand`: agents meet only at the semaphore, the mutex, the channel and a
file they share, so two agents are every pair; three contents are the empty one, code
and its fix; `MaxRuns` 3 is a run that leaves a report, one that is interrupted
between the file and its report, and one that reads the stale report. `MaxEdits`
bounds the user. A deadlock is `runs = MaxRuns` with nothing to do; that no run
blocks is `RunEnds`.

For the other modules. `RepoService`: two requests are every pair of writers of a
row, a clone and an archive, two repositories of one name the clash of their forks;
`MaxPolls` 2 instead of 10, since the polls differ in nothing but their number.
`GitStages`: three runs are one that fails, one of another command in between, and a
resume; runs are one at a time (the queue), so the number of commands is that of
kinds times repositories. `CommandPage`: with three saves one is before, one
during and one after the opening. `PageControls`: three are an opening, a request, and
a second one that meets what the first or somebody else's save has made of the row. `Users`: two browsers and two requests at a time; a
third id is the one that a rolled-back creation gives to the next user. `TestCommand`:
agents meet in the two maps, the mutexes and a file two of them write to; a second
run is the one that finds what the first has left. `CHECK_DEADLOCK FALSE` is said
where the bounded requests, runs and edits are used up.

Fairness (`FairSpec` of `CommandService`): the event loop runs every callback that is due and the
child processes end, so each handler, the worker and the parts of `initCheck`
are weakly fair. `spawnAsync` has no timeout: that batchai ends is assumed.
Users and crashes owe nothing. `FairSpec` of `CheckCommand`: the Go scheduler runs
its goroutines and `Chat` has a timeout (`model_client.go:87`), so the run and its
agents, taken together, are weakly fair. `RunEnds` does not need one agent's turn
at the semaphore to come before another's. `FairSpec` of `RepoService`: each handler is weakly
fair, since database, git and GitHub answer or fail; that a fork ever appears is not
assumed.

### What the code does not promise
These are not invariants of the code; the runs of RunningHasWorker and
QueuedHasJob leave the operation or the fault out, each because of a line of code:
- `lock`, `unlock` and a plain `update` save a status they read earlier: a
  Running row may come back after the run has ended.
- an error in `archiveCommand`/`removeCommand` before the `try` of `execute`, or in
  the rendering after the save of Running, leaves the row Running until the next
  boot; a rendering error after the save of Queued leaves it without a job.
- a row that was removed and inserted again by a save has no repository: it cannot
  be removed (its folder's name cannot be made), and when it is run it stays Running.
- a rollback undoes what other requests and the worker have written
  (a removed command is there again when
  another request, one that only reads included, is refused: `transaction.ts:53`), so the orphan-free properties are not stated of the facade.
- a stop is not heeded: `doRun` tests a copy (`command.service.ts:492`) and the run
  goes on, although the log says "successfully stopped command" (line 453); `remove` of a
  Running command translates its message and throws nothing (line 463).
- an update whose load came before a lock changes the locked command (line 120).
- `restart` keeps `commitId`; an `update` of a Queued command is overwritten by the
  job's saves.
- Repositories: a clone that was cut short counts as found and never heals; a row whose
  creation another request's commit has saved stays without its fork; two repositories
  of one name share a fork, whose default branch then refuses every push of the one
  that came second (`claim_fork`); names that differ in case are two rows and one fork;
  `:repoName` in a route of `repo.rest.ts` (24-32) does not match `@Param('name')`.
- Users: two emails with the same local part are one name, and the second can never
  sign in; nor can somebody whose name a repository's owner has taken. If a plain user
  has the administrator's name, `initAdminUser` creates nobody. A sign-in that saves the
  copy it has loaded brings a user back who was removed meanwhile.
- A page that connects again is told nothing more; it does not subscribe again.
- `batchai check --fix` does not see that a file was staged and edited again ('MM',
  `git_util.go:32`), and rewrites it, although `check_args.go:56` asks for staged changes.
- `batchai test` writes to whatever file the model names; a symbol file cut short by an
  interruption ends every later run (`LoadAll` has no `recover()`); source files are
  written back though nothing has changed, losing an edit made meanwhile; symbols of
  an earlier answer stay beside the new ones.

## 13. Proofs

`CommandProofs` is about `CommandService`, for every number of commands, requests
and crashes and every set of faults and operations. `TypeOK`,
`SucceededMeansComplete`, `WorkIsFromThisRun` and `CancelNeverFires` follow from
`IInv`, which is about *copies*: since a save writes a whole copy, a row is complete
only if every copy that may still be saved is, in handlers, jobs, the worker and
`initCheck`; and a copy is only complete under what its holder's program counter
says (a handler that is about to enqueue has reset or tested the status, a job says
Queued, a worker in a stage says Running). There is one lemma per action and one
for `Next`.

`RunningHasWorker` and `QueuedHasJob` are proved under the conditions without which
the code does not keep them, and no others: no lock or unlock and no failure before
the `try` or in a rendering for the first; no lock, unlock or plain update and no failing
rendering for the second. Removals and ids that take each other's place in the unique
index are included. A job whose save the index refuses is dropped, so `TableInv` says
which saves it refuses (`UniqueKeys`: of the rows with a repository no two are of one
command; `Storable`: a copy that will insert its row with its repository is refused
only if another has the key) and `StatusInv` which status a copy may carry into the
table. `RunningInv` then follows who watches a Running row, `QueuedInv` (`Waits`) who
will still see to a Queued one with a copy that can be saved.

`Refines` is `LifecycleHolds`, for the same
constants. Each action maps to one of `CommandLifecycle` or to none; most of it is
what a save does to the statuses (`SavedStatus`) and what a closure does to the queue
of ids. Beyond `IInv` it needs `MapInv`: `initCheck` marks a command once (`OneEach`),
the row a create is about to save says Pending (`NewRows`), and, when `"remove"` is not
among the operations, every copy is of a row that is there and has its repository, and
no two rows are of one pair (`NothingLost`). From the last follows that the unique
index refuses no save of the worker, so that a run goes unrecorded only if `Lossy`
says that it may. Not proved is that the run ever ends: `CommandLifecycle` has no
fairness, `CommandSettles` is the run's.

Of the facade the three properties follow from `IInv`, from its
counterpart for every undo image (`UndoInv`: a rollback must restore a table for
which `IInv` holds) and from `DepthInv`, which says that the number of open
transactions is the number of requests in flight plus one while `initCheck`'s is
open; `Cardinality` needs `Handlers` finite, which is the module's assumption.

`RepoServiceProofs` proves `TypeOK`, `RowHasClone` and `ArchiveIsWhole` for any
repositories, requests, failures and crashes. A row has its clone (`Kept`), or the request
that saved it is still on its way to one (`Owes`); neither is enough, since a rollback
brings back older tables. `UndoOK` adds that a table with a row whose clone is still owed
was saved by a transaction begun *inside* that of the creation. When the creation fails,
its rollback either is of its own transaction, and then those inside it are closed and it goes
back to before the row, or is `mixed`, a case the property excepts. A clone that is not ready is being made (`Cloning`) or in `cut`. The ids
left for the creations that have not saved yet, and the removals nobody waits for, are
counted with `Cardinality` (`TableInv`, `ZipsInv`), which is what bounds them.

`CommandPageProofs` proves the properties of `CommandPage` for any savers, lines, runs,
openings and reconnections. `PageShowsRow` says what holds at rest; the invariant
(`RowInv`) says where the last save is otherwise: with a saver that has not emitted it,
in an event, in an answer, shown, or `missed` (`Accounted`). `LogIsOnPage` counts
occurrences; the invariant says that a line is in *one* place (`Told`): once in the page's
lines and in no message, or in one message, once, and not on the page; a line that has
not been emitted yet is in none (`Untold`). What makes the reading and the events meet
without a gap is `ReadInv`, about the time between them, and that the file has no line
twice (`FileInv`).

`PageControlsProofs` proves `TypeOK` and `RefusalIsStale` for any number of saves and
requests. Saves are only ever appended to `rows`, so what was `Offered` stays so of that
row, and a refusal must be of a later one; the invariant is that nothing else is ever sent,
through both dialogs, double clicks, and answers that show an older row.

`TestCommandProofs` proves the six properties of `TestCommand` for any files, names, targets,
runs and edits. Symbol agents and test agents never work at the same time (`ControlInv`).
`FileOK` says that the symbols that were saved last are of the code that was saved with
them, `ScoutOK` what of this is so in the middle of a save (four steps, each of which
may be the last); `KeptOK` who has the code of a file that is not as the run found it.
`AgentOK` follows the tests to the file the model named: an agent that has that file to
itself (`IsAlone`) finds its tests there. `ReportsInv` says that a report, on disk or in the
cache, stands for tests that were written, and `IndexInv` that what is found by file
is found by name.

`CheckCommandProofs` proves the six invariants of `CheckCommand` for every
set of files and contents, any list of targets, any number of runs and edits. Its
invariant says of every report, on disk, in the cache or in the hands of an agent,
that it is `Sound`: one that says there is nothing left to fix is the work of a model
that was asked about that code of that file. Such a report may be written by any
agent of any earlier run, which is why `SkipIsJustified` alone is not inductive. The
other parts: what an agent between reading and writing holds is what is on disk,
unless somebody the property excepts has touched it; and, for that, at most one
agent is active without `--concurrent` (`OneAtATime`, which rests on `InOrder`: those
after `cmd.next` have not begun). There is one lemma per step; `AgentMoves` covers
the steps that move an agent on without changing what it has read. `ResultsAddUp` and
`SendsFit` are a count: as many results are in the channel or counted as agents are
done (`CountInv`), which with `Progress` bounds the channel; `ReportIsOfFile` is
`ReportsOK`, between the writing of the file and that of its report.

`GitStagesProofs` proves the four properties of `GitStages` for every set of commands,
whatever repositories, forks and branches they share, any number of runs and any
failures. `CommitIsPushed` is not inductive: `RowOK` also says that a row with its
commit id recorded names the commit on the branch even before it has succeeded (a
resume starts from there), and `RunInv` what the run in progress has done and its row
does not say yet: between the push and its save the branch is the copy's head, and
whoever is about to push has committed in this run or has no folder. The rows of
other commands stand because a command with another fork or another kind has another
branch (`OwnBranch`), and one with the same is in `shared`. `BranchInv` has, for every
place in `doRun`, whether `cmdRepoObj` may still be on the default branch; `SyncInv`
follows what was pushed from the clone to the copy to the branch, for which default
branches have to grow (`Grows`).

`UsersProofs` proves the three properties of `Users` for any accounts, names, handlers,
quota and bounds. `UsersInv` says of the table, and of every table a rollback or a
restart would bring back, that its rows are unique and its sequence is past them
(`TableOK`); of a request, what its program counter has established (`HandlerOK`: who
is about to be granted is of the email that signs in, an administrator has the
administrator's email); and, as in the facade, that there is a transaction for each
request in flight but the one `initAdminUser` has left and those a guard still stops
(`DepthInv`), which is why the innermost transaction of a rollback is there at all.
`TokenIsOfItsUser` also needs `TokenInv`, about who *claims* an id: a browser by its
token, a sign-in from the moment it has found or made the user. No two accounts claim one
id; the table agrees with every claim; and so does the table of each open transaction
during which nobody else was answered, for the claims that browsers hold. A sign-in
that inserts takes an id past every claim, a save that brings a removed user back
writes the email of the only claim there is, and a rollback either meets no other claim
of a request or is `mixed`.

Assumptions, all of them on constants and checked by TLC for the values it is given:
`ConstantsAssumption`, `HandlersFinite`, `RepoAssumption`, `TypedAssumption`,
`GitAssumption`, `PageAssumption`, `ControlsAssumption`, `UsersAssumption`,
`CheckAssumption`, `TestAssumption` and `ReportAssumption`: the types of the constants,
that `NoReport` is no report, that what users type is parsed to one of the
repositories or to none, that commands of one repository have one fork, that no kind of
command is the name of the default branch, that the requests in flight are finitely many.

Only checked by TLC: `CommandSettles`, `RunEnds` and `RequestsEnd`, which are liveness and
beyond the prover, and the refutation of the claim. The bounds of the runs are in the
specifications as guards; the theorems hold for every value of them.

## 14. Not modelled

Everything whose component is "not_modelled" in `PROJECT.json`. Of `CheckCommand`: the
metrics beyond the counts, untracked files. Of the command service: roles and quotas are
a nondeterministic refusal of create and update (the quota is in `Users`); the zip of a
command's folder, whose steps are those of a repository's in `RepoService`; two
`startTransaction` that both find the depth 0. Of the CLI: the
budget of tokens, the matching of file names, the extraction of code from an answer
(functions of strings, which the models take as one of a few results). Of
the REST layer: parsing. Of the web client: presentation, the lists, signing out while
a page is open, several pages at once. Induction over
data, RECURSIVE operators and liveness are out of the prover's reach.
