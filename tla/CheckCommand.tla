---------------------------- MODULE CheckCommand ----------------------------
(***************************************************************************)
(* batchai check (pkg/check_command.go, check_agent.go,                    *)
(* check_report_manager.go and the semaphore of model_client.go): a run    *)
(* launches one agent for each target file, one after the other or, with   *)
(* --concurrent, as goroutines.  An agent reads its file, skips it when    *)
(* the last report says there is nothing to do, asks the model, and with   *)
(* --fix writes the model's code over the file before it saves the report. *)
(* It sends one result on a channel; the results are counted when all      *)
(* agents are done.                                                        *)
(*                                                                         *)
(* A run may be interrupted at any step, files and reports survive it, and *)
(* the user edits and stages files at any time.                            *)
(***************************************************************************)
EXTENDS Naturals, Sequences

CONSTANTS
  Files,
  Codes,          \* contents of a file, normalized as ReadFileCode does
  Empty,          \* the empty one, also what a truncated file holds
  NoReport,       \* there is none, or it is no JSON
  TargetLists,    \* the lists of target files a run may get; one may be listed twice
  Faults,         \* what may fail: "read", "chat", "write", "report"
  MaxRuns,        \* bounds the runs of a behaviour
  MaxEdits        \* bounds the edits of the user

Report == [issue: BOOLEAN, fixed: Codes, original: Codes]

ASSUME CheckAssumption ==
  /\ Empty \in Codes
  /\ NoReport \notin Report
  /\ TargetLists \subseteq Seq(Files)
  /\ MaxRuns \in Nat
  /\ MaxEdits \in Nat

VARIABLES
  disk,       \* the files of the repository
  index,      \* what git has staged of them
  head,       \* what git has committed
  saved,      \* the report files in the cache directory
  cmd,        \* the run: where it is, its arguments and targets
  agents,     \* one for each target
  cache,      \* the report manager's reportsMapByFile
  chatting,   \* the agent that holds the model client's semaphore, or 0
  results,    \* the channel
  metrics,
  clean,      \* history: what a model has found no issue in
  touched,    \* history: what the user has edited since the run began
  runs, edits

vars == <<disk, index, head, saved, cmd, agents, cache, chatting, results, metrics,
          clean, touched, runs, edits>>

gitVars == <<index, head>>
history == <<clean, touched, runs, edits>>

NoMetrics == [processed |-> 0, failed |-> 0, skipped |-> 0, succeeded |-> 0]
NoRun == [pc |-> "idle", fix |-> FALSE, force |-> FALSE, concurrent |-> FALSE,
          targets |-> <<>>, next |-> 1]
NewAgent == [pc |-> "new", code |-> Empty, report |-> NoReport, result |-> "none"]

Init ==
  /\ disk \in [Files -> Codes \ {Empty}]
  /\ index = disk
  /\ head = disk
  /\ saved = [f \in Files |-> NoReport]
  /\ cmd = NoRun
  /\ agents = <<>>
  /\ cache = [f \in Files |-> NoReport]
  /\ chatting = 0
  /\ results = <<>>
  /\ metrics = NoMetrics
  /\ clean = {}
  /\ touched = {}
  /\ runs = 0
  /\ edits = 0

-----------------------------------------------------------------------------
(* The command.                                                            *)

\* GetUnstagedFiles: the lines of git status that begin with " M ". A file
\* that was staged and modified again is "MM".
UnstagedFiles == {f \in Files : disk[f] # index[f] /\ index[f] = head[f]}

\* CheckFunc, NewCheckCommand and CollectWorkingFiles
Invoke(targets, fix, force, concurrent) ==
  /\ cmd.pc = "idle"
  /\ runs < MaxRuns
  /\ fix => UnstagedFiles = {}
  /\ runs' = runs + 1
  /\ cmd' = [pc |-> "launch", fix |-> fix, force |-> force,
             concurrent |-> concurrent /\ Len(targets) # 1, targets |-> targets, next |-> 1]
  /\ agents' = [a \in DOMAIN targets |-> NewAgent]
  /\ metrics' = NoMetrics
  /\ touched' = {}
  /\ UNCHANGED <<disk, gitVars, saved, cache, chatting, results, clean, edits>>

AllDone == \A a \in DOMAIN agents : agents[a].pc \in {"new", "done"}

\* Mutant: Run() does not wait for the agent without --concurrent either.
LaunchAtOnce ==
  /\ cmd.pc = "launch"
  /\ cmd.next <= Len(cmd.targets)
  /\ metrics' = [metrics EXCEPT !.processed = @ + 1]
  /\ agents' = [agents EXCEPT ![cmd.next].pc = "read"]
  /\ cmd' = [cmd EXCEPT !.next = @ + 1]
  /\ UNCHANGED <<disk, gitVars, saved, cache, chatting, results, history>>

\* The loop of launchCheckAgents: Run() returns at once, or with the agent done.
Launch ==
  /\ cmd.pc = "launch"
  /\ cmd.next <= Len(cmd.targets)
  /\ cmd.concurrent \/ AllDone
  /\ metrics' = [metrics EXCEPT !.processed = @ + 1]
  /\ agents' = [agents EXCEPT ![cmd.next].pc = "read"]
  /\ cmd' = [cmd EXCEPT !.next = @ + 1]
  /\ UNCHANGED <<disk, gitVars, saved, cache, chatting, results, history>>

\* Mutant: the channel is read without waiting for the agents.
CloseEarly ==
  /\ cmd.pc = "launch"
  /\ cmd.next > Len(cmd.targets)
  /\ cmd' = [cmd EXCEPT !.pc = "collect"]
  /\ UNCHANGED <<disk, gitVars, saved, agents, cache, chatting, results, metrics, history>>

\* wg.Wait() and close(resultChan)
Close ==
  /\ cmd.pc = "launch"
  /\ cmd.next > Len(cmd.targets)
  /\ AllDone
  /\ cmd' = [cmd EXCEPT !.pc = "collect"]
  /\ UNCHANGED <<disk, gitVars, saved, agents, cache, chatting, results, metrics, history>>

\* for r := range resultChan
Collect ==
  /\ cmd.pc = "collect"
  /\ results # <<>>
  /\ results' = Tail(results)
  /\ metrics' = [metrics EXCEPT ![Head(results)] = @ + 1]
  /\ UNCHANGED <<disk, gitVars, saved, cmd, agents, cache, chatting, history>>

\* The process ends: nothing that was in memory is left.
Leave ==
  /\ cmd' = NoRun
  /\ agents' = <<>>
  /\ cache' = [f \in Files |-> NoReport]
  /\ chatting' = 0
  /\ results' = <<>>
  /\ UNCHANGED <<disk, gitVars, saved, history>>

Finish ==
  /\ cmd.pc = "collect"
  /\ results = <<>>
  /\ UNCHANGED metrics
  /\ Leave

Interrupt ==
  /\ cmd.pc # "idle"
  /\ metrics' = NoMetrics
  /\ Leave

-----------------------------------------------------------------------------
(* An agent.                                                               *)

File(a) == cmd.targets[a]
At(a, pc) == agents[a].pc = pc
Goto(a, pc) == agents' = [agents EXCEPT ![a].pc = pc]
KeepRun == UNCHANGED <<gitVars, cmd, metrics, touched, runs, edits>>

\* The deferred recover() of run(): any panic becomes a result.
Failing(a) == agents' = [agents EXCEPT ![a].pc = "send", ![a].result = "failed"]

ReadCode(a) ==
  /\ At(a, "read")
  /\ \/ agents' = [agents EXCEPT ![a].pc = "load", ![a].code = disk[File(a)]]
     \/ "read" \in Faults /\ Failing(a)
  /\ UNCHANGED <<disk, saved, cache, chatting, results, clean>> /\ KeepRun

\* The report manager's mutex is held while a report is written.
Locked == \E a \in DOMAIN agents : At(a, "saving")

LastReport(f) == IF cache[f] # NoReport THEN cache[f] ELSE saved[f]

\* Mutant: a report is enough, whether the code was fixed or not.
UpToDateUnfixed(code, last) ==
  last # NoReport /\ code = last.original /\ ~cmd.force

\* No code changes since the last execution, and nothing left to fix.
UpToDate(code, last) ==
  /\ last # NoReport
  /\ code = last.original
  /\ ~cmd.force
  /\ ~cmd.fix \/ code = last.fixed

LoadReport(a) ==
  LET last == LastReport(File(a)) IN
  /\ At(a, "load")
  /\ ~Locked
  /\ cache' = [cache EXCEPT ![File(a)] = last]
  /\ agents' =
       IF UpToDate(agents[a].code, last)
       THEN [agents EXCEPT ![a].pc = "send", ![a].result = "skipped", ![a].report = last]
       ELSE [agents EXCEPT ![a].pc = "acquire"]
  /\ UNCHANGED <<disk, saved, chatting, results, clean>> /\ KeepRun

Acquire(a) ==
  /\ At(a, "acquire")
  /\ chatting = 0
  /\ chatting' = a
  /\ Goto(a, "chat")
  /\ UNCHANGED <<disk, saved, cache, results, clean>> /\ KeepRun

\* Mutant: an answer without code is a fix.
CheckedEvenEmpty(code, issue, fixed) ==
  IF issue /\ fixed # code
    THEN [issue |-> TRUE, fixed |-> fixed, original |-> code]
    ELSE [issue |-> FALSE, fixed |-> code, original |-> code]

\* checkCode: an issue without a fix of its own counts as none.
Checked(code, issue, fixed) ==
  IF issue /\ fixed # code /\ fixed # Empty
    THEN [issue |-> TRUE, fixed |-> fixed, original |-> code]
    ELSE [issue |-> FALSE, fixed |-> code, original |-> code]

\* The model answers; Chat() releases the semaphore.
Answer(a) ==
  LET code == agents[a].code IN
  /\ At(a, "chat")
  /\ chatting' = 0
  /\ \E issue \in BOOLEAN, fixed \in Codes :
       LET report == Checked(code, issue, fixed) IN
       /\ agents' = [agents EXCEPT ![a].report = report,
                       ![a].pc = IF report.issue /\ cmd.fix THEN "truncate" ELSE "report"]
       /\ clean' = IF report.issue THEN clean ELSE clean \cup {<<File(a), code>>}
  /\ UNCHANGED <<disk, saved, cache, results>> /\ KeepRun

\* Mutant: the release is not deferred.
AnswerFailsHolding(a) ==
  /\ At(a, "chat")
  /\ "chat" \in Faults
  /\ Failing(a)
  /\ UNCHANGED <<disk, saved, cache, chatting, results, clean>> /\ KeepRun

\* Mutant: recover() sends no result.
AnswerFailsSilently(a) ==
  /\ At(a, "chat")
  /\ "chat" \in Faults
  /\ chatting' = 0
  /\ Goto(a, "done")
  /\ UNCHANGED <<disk, saved, cache, results, clean>> /\ KeepRun

\* The call fails, or its answer cannot be parsed: the release is deferred.
AnswerFails(a) ==
  /\ At(a, "chat")
  /\ "chat" \in Faults
  /\ chatting' = 0
  /\ Failing(a)
  /\ UNCHANGED <<disk, saved, cache, results, clean>> /\ KeepRun

\* WriteFileTextP truncates the file, then writes it.
Truncate(a) ==
  /\ At(a, "truncate")
  /\ \/ disk' = [disk EXCEPT ![File(a)] = Empty] /\ Goto(a, "write")
     \/ "write" \in Faults /\ UNCHANGED disk /\ Failing(a)
  /\ UNCHANGED <<saved, cache, chatting, results, clean>> /\ KeepRun

Write(a) ==
  /\ At(a, "write")
  /\ \/ disk' = [disk EXCEPT ![File(a)] = agents[a].report.fixed] /\ Goto(a, "report")
     \/ "write" \in Faults /\ UNCHANGED disk /\ Failing(a)
  /\ UNCHANGED <<saved, cache, chatting, results, clean>> /\ KeepRun

\* SaveReport, under the mutex. The errors of Mkdir and WriteFileText are not
\* looked at.
SaveReport(a) ==
  /\ At(a, "report")
  /\ ~Locked
  /\ cache' = [cache EXCEPT ![File(a)] = agents[a].report]
  /\ \/ saved' = [saved EXCEPT ![File(a)] = NoReport] /\ Goto(a, "saving")
     \/ /\ "report" \in Faults
        /\ UNCHANGED saved
        /\ agents' = [agents EXCEPT ![a].pc = "send", ![a].result = "succeeded"]
  /\ UNCHANGED <<disk, chatting, results, clean>> /\ KeepRun

\* Mutant: checkFile() returns no result.
WriteReportOnly(a) ==
  /\ At(a, "saving")
  /\ saved' = [saved EXCEPT ![File(a)] = agents[a].report]
  /\ Goto(a, "send")
  /\ UNCHANGED <<disk, cache, chatting, results, clean>> /\ KeepRun

WriteReport(a) ==
  /\ At(a, "saving")
  /\ \/ saved' = [saved EXCEPT ![File(a)] = agents[a].report]
     \/ "report" \in Faults /\ UNCHANGED saved
  /\ agents' = [agents EXCEPT ![a].pc = "send", ![a].result = "succeeded"]
  /\ UNCHANGED <<disk, cache, chatting, results, clean>> /\ KeepRun

\* resultChan <- result, and wg.Done()
Send(a) ==
  /\ At(a, "send")
  /\ results' = Append(results, agents[a].result)
  /\ Goto(a, "done")
  /\ UNCHANGED <<disk, saved, cache, chatting, clean>> /\ KeepRun

AgentStep(a) ==
  \/ ReadCode(a) \/ LoadReport(a) \/ Acquire(a) \/ Answer(a) \/ AnswerFails(a)
  \/ Truncate(a) \/ Write(a) \/ SaveReport(a) \/ WriteReport(a) \/ Send(a)

-----------------------------------------------------------------------------
(* The user, between the runs or during one.                               *)

KeepProcess == UNCHANGED <<saved, cmd, agents, cache, chatting, results, metrics, clean, runs>>

Edit(f, code) ==
  /\ edits < MaxEdits
  /\ edits' = edits + 1
  /\ disk' = [disk EXCEPT ![f] = code]
  /\ touched' = touched \cup {f}
  /\ UNCHANGED gitVars /\ KeepProcess

\* git add
Stage ==
  /\ index' = disk
  /\ UNCHANGED <<disk, head, touched, edits>> /\ KeepProcess

\* git commit
Commit ==
  /\ head' = index
  /\ UNCHANGED <<disk, index, touched, edits>> /\ KeepProcess

-----------------------------------------------------------------------------

RunStep == Launch \/ Close \/ Collect \/ Finish

Next ==
  \/ \E targets \in TargetLists, fix, force, concurrent \in BOOLEAN :
       Invoke(targets, fix, force, concurrent)
  \/ RunStep
  \/ \E a \in DOMAIN agents : AgentStep(a)
  \/ Interrupt
  \/ \E f \in Files, code \in Codes : Edit(f, code)
  \/ cmd.pc = "idle" /\ (Stage \/ Commit)

Spec == Init /\ [][Next]_vars

\* The process runs its goroutines, and a model answers or times out.
Fairness ==
  /\ WF_vars(RunStep)
  /\ WF_vars(\E a \in DOMAIN agents : AgentStep(a))

FairSpec == Spec /\ Fairness

-----------------------------------------------------------------------------
(* Properties.                                                             *)

CmdType == [pc: {"idle", "launch", "collect"}, fix: BOOLEAN, force: BOOLEAN,
            concurrent: BOOLEAN, targets: Seq(Files), next: Nat \ {0}]
AgentPC == {"new", "read", "load", "acquire", "chat", "truncate", "write", "report",
            "saving", "send", "done"}
Result == {"failed", "skipped", "succeeded"}
AgentType == [pc: AgentPC, code: Codes, report: Report \cup {NoReport},
              result: Result \cup {"none"}]

TypeOK ==
  /\ disk \in [Files -> Codes] /\ index \in [Files -> Codes] /\ head \in [Files -> Codes]
  /\ saved \in [Files -> Report \cup {NoReport}]
  /\ cmd \in CmdType
  /\ agents \in [DOMAIN cmd.targets -> AgentType]
  /\ cache \in [Files -> Report \cup {NoReport}]
  /\ chatting \in Nat
  /\ results \in Seq(Result)
  /\ metrics \in [{"processed", "failed", "skipped", "succeeded"} -> Nat]
  /\ clean \subseteq Files \X Codes
  /\ touched \subseteq Files
  /\ runs \in Nat /\ edits \in Nat

\* Every file that was processed is counted once, as failed, skipped or
\* succeeded, whatever panicked on the way.
Counted == metrics.failed + metrics.skipped + metrics.succeeded
ResultsAddUp == cmd.pc = "idle" => metrics.processed = Counted

\* The channel takes every result without blocking and is not closed before.
SendsFit ==
  \A a \in DOMAIN agents : At(a, "send") =>
    cmd.pc = "launch" /\ Len(results) < Len(cmd.targets)

\* With --fix a file is skipped only if a model has checked the very code it
\* holds and left it as it is: no report of an earlier or interrupted run, and
\* none of other code, stands for one.
SkipIsJustified ==
  \A a \in DOMAIN agents :
    cmd.fix /\ agents[a].result = "skipped" => <<File(a), agents[a].code>> \in clean

\* No two goroutines work on the file of a.
Alone(a) == cmd.concurrent => \A b \in DOMAIN agents : File(b) = File(a) => b = a

\* What a fix is about to write is code, and other code than it replaces. That
\* is the code the model was asked about, unless the user has edited the file
\* since the run began, or it is listed twice in a concurrent run.
FixIsOfFile ==
  \A a \in DOMAIN agents : At(a, "truncate") =>
    /\ cmd.fix /\ agents[a].report.fixed \notin {Empty, agents[a].code}
    /\ Alone(a) /\ File(a) \notin touched => disk[File(a)] = agents[a].code

\* When the agents of a run with --fix are done, the file holds what its report
\* says it was fixed to, with the same two exceptions.
IsLast(a) == \A b \in DOMAIN agents : File(b) = File(a) => b <= a

ReportIsOfFile ==
  \A a \in DOMAIN agents :
    /\ cmd.pc = "collect" /\ cmd.fix /\ agents[a].result = "succeeded"
    /\ IsLast(a) /\ Alone(a) /\ File(a) \notin touched
    => disk[File(a)] = cache[File(a)].fixed

\* Every run ends, whatever fails: no agent waits for ever for the model client,
\* which the others give back when their call panics, or for the channel.
RunEnds == cmd.pc # "idle" ~> cmd.pc = "idle"

=============================================================================
