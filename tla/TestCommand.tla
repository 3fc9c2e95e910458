---------------------------- MODULE TestCommand ----------------------------
(***************************************************************************)
(* batchai test (pkg/test_command.go, test_agent.go, test_report_manager.go)*)
(* and, with symbol references, the symbol agents that run before it       *)
(* (base_model_command.go, symbol_agent.go, symbol_manager.go,             *)
(* code_file_manager.go).  A symbol agent for each file of the repository, *)
(* all at once, extracts its symbols unless the file is as it was when     *)
(* they were, saves them and writes the code it has read back.  A test     *)
(* agent for each target looks up symbols of other files, asks the model   *)
(* for tests and writes them wherever the model says they belong.          *)
(*                                                                         *)
(* Chat() takes and gives back the semaphore of its client around the call *)
(* (CheckCommand): a call is one step here.  One name stands for those     *)
(* that contain it.                                                        *)
(***************************************************************************)
EXTENDS Naturals, Sequences, FiniteSets

CONSTANTS
  Paths,          \* the files of the repository, tests among them
  Texts,          \* what a file may hold
  Tests,          \* those of them that are tests, as the model writes them
  Empty,          \* what a truncated file holds
  Absent,         \* there is no such file
  Names,          \* of symbols
  NoSymbols, Broken, NoReport,    \* no file; one that is no JSON
  Invocations,    \* the command lines: arguments and the targets they come to
  Repositories,   \* what the files may hold at first
  Edited,         \* the files the user edits
  Faults, MaxRuns, MaxEdits

ASSUME TestAssumption ==
  /\ {Empty, Absent} \cap Texts = {} /\ Empty # Absent /\ Tests \subseteq Texts
  /\ Repositories \subseteq [Paths -> Texts \cup {Absent}] /\ Edited \subseteq Paths
  /\ Invocations \subseteq [targets : Seq(Paths), force : BOOLEAN, symbols : BOOLEAN, concurrent : BOOLEAN]
  /\ {MaxRuns, MaxEdits} \subseteq Nat

VARIABLES
  disk,         \* the files of the repository
  originals,    \* the copies of the code file manager in the cache directory
  symbolFiles,  \* the files of the symbol manager
  reports,      \* the report files
  cmd,          \* the run
  scouts,       \* the symbol agents
  agents,       \* the test agents, one for each target
  byFile, byName,   \* the symbol manager's two maps
  cache,        \* the report manager's map
  started,      \* history: the files as the run found them
  touched,      \* history: what the user has edited since
  written,      \* history: for which code of which file tests have been written
  torn,         \* history: whose symbols were saved and whose code was not
  runs, edits

vars == <<disk, originals, symbolFiles, reports, cmd, scouts, agents, byFile, byName, cache,
          started, touched, written, torn, runs, edits>>
symbolVars == <<originals, symbolFiles, scouts, byFile, byName, torn>>
testVars == <<reports, agents, cache, written>>
runVars == <<started, runs, edits>>

Contents == Texts \cup {Empty, Absent}
Symbol == [name : Names, path : Paths, lines : Contents]
Report == [code : Contents, path : Paths, test : Tests]

ASSUME ReportAssumption == NoReport \notin Report

NoRun == [pc |-> "idle", force |-> FALSE, symbols |-> FALSE, concurrent |-> FALSE,
          targets |-> <<>>, next |-> 1]
NewScout == [pc |-> "load", latest |-> Absent, symbols |-> NoSymbols]
NewAgent == [pc |-> "new", code |-> Empty, names |-> {}, given |-> {},
             report |-> NoReport, result |-> "none"]

Init ==
  /\ disk \in Repositories
  /\ originals = [p \in Paths |-> Absent]
  /\ symbolFiles = [p \in Paths |-> NoSymbols]
  /\ reports = [p \in Paths |-> NoReport]
  /\ cmd = NoRun
  /\ scouts = <<>> /\ agents = <<>>
  /\ byFile = [p \in Paths |-> NoSymbols]
  /\ byName = [n \in Names |-> {}]
  /\ cache = [p \in Paths |-> NoReport]
  /\ started = disk
  /\ touched = {} /\ written = {} /\ torn = {}
  /\ runs = 0 /\ edits = 0

-----------------------------------------------------------------------------
(* The symbol manager.                                                     *)

\* Mutant: a name that is known keeps the definitions it has.
IndexOfUnknown(index, symbols) ==
  [n \in Names |-> IF index[n] = {} THEN {s \in symbols : s.name = n} ELSE index[n]]

\* Every definition of a name. Save appends one again when another is there too,
\* which whoever looks it up does not notice.
IndexOf(index, symbols) == [n \in Names |-> index[n] \cup {s \in symbols : s.name = n}]

Lookup(names, excluded) ==
  {s \in UNION {byName[n] : n \in names} : s.path # excluded}

-----------------------------------------------------------------------------
(* The command.                                                            *)

RepoFiles == {p \in Paths : disk[p] # Absent}

\* Test(), up to the first agents. One target is never worked on concurrently.
Invoke(i) ==
  /\ cmd.pc = "idle" /\ runs < MaxRuns
  /\ \A a \in DOMAIN i.targets : disk[i.targets[a]] # Absent
  /\ runs' = runs + 1
  /\ cmd' = [pc |-> IF i.symbols THEN "load" ELSE "test", force |-> i.force, symbols |-> i.symbols,
             concurrent |-> i.concurrent /\ Len(i.targets) # 1, targets |-> i.targets, next |-> 1]
  /\ scouts' = [p \in IF i.symbols THEN RepoFiles ELSE {} |-> NewScout]
  /\ agents' = [a \in DOMAIN i.targets |-> NewAgent]
  /\ UNCHANGED <<disk, originals, symbolFiles, reports, byFile, byName, cache, started, touched,
                 written, torn, edits>>

\* The process ends, and with it what was in memory. Files being written stay
\* as they are.
Leave ==
  /\ cmd' = NoRun
  /\ scouts' = <<>> /\ agents' = <<>>
  /\ byFile' = [p \in Paths |-> NoSymbols]
  /\ byName' = [n \in Names |-> {}]
  /\ cache' = [p \in Paths |-> NoReport]
  /\ torn' = torn \cup {p \in DOMAIN scouts :
                          scouts[p].pc \in {"truncate", "write", "original"}}
  /\ started' = disk /\ touched' = {}
  /\ UNCHANGED <<disk, originals, symbolFiles, reports, written, runs, edits>>

\* LoadAll: a file that is no JSON ends the command, as nothing recovers.
LoadAll ==
  LET files == {p \in DOMAIN scouts : symbolFiles[p] # NoSymbols} IN
  /\ cmd.pc = "load"
  /\ IF \E p \in files : symbolFiles[p] = Broken
       THEN Leave
       ELSE /\ byFile' = [p \in Paths |-> IF p \in files THEN symbolFiles[p] ELSE NoSymbols]
            /\ byName' = IndexOf(byName, UNION {symbolFiles[p] : p \in files})
            /\ cmd' = [cmd EXCEPT !.pc = "symbols"]
            /\ UNCHANGED <<disk, originals, symbolFiles, scouts, torn, testVars, touched, runVars>>

\* wg.Wait() in launchSymbolAgents
ScoutsDone ==
  /\ cmd.pc = "symbols"
  /\ \A p \in DOMAIN scouts : scouts[p].pc = "done"
  /\ cmd' = [cmd EXCEPT !.pc = "test"]
  /\ scouts' = <<>>
  /\ UNCHANGED <<disk, originals, symbolFiles, byFile, byName, torn, testVars, touched, runVars>>

AllDone == \A a \in DOMAIN agents : agents[a].pc \in {"new", "done"}

\* The loop of launchTestAgents: Run() returns at once, or with the agent done.
Launch ==
  /\ cmd.pc = "test" /\ cmd.next <= Len(cmd.targets)
  /\ cmd.concurrent \/ AllDone
  /\ agents' = [agents EXCEPT ![cmd.next].pc = "read"]
  /\ cmd' = [cmd EXCEPT !.next = @ + 1]
  /\ UNCHANGED <<disk, symbolVars, reports, cache, written, touched, runVars>>

\* wg.Wait(), and the results are counted.
Finish == cmd.pc = "test" /\ cmd.next > Len(cmd.targets) /\ AllDone /\ Leave

Interrupt == cmd.pc # "idle" /\ Leave

-----------------------------------------------------------------------------
(* A symbol agent.                                                         *)

ScoutAt(p, pc) == cmd.pc = "symbols" /\ scouts[p].pc = pc
ScoutTo(p, pc) == scouts' = [scouts EXCEPT ![p].pc = pc]
KeepScoutRun == UNCHANGED <<cmd, testVars, touched, runVars>>

\* The code file manager's mutex is held while code is written back.
CodeLocked == \E p \in DOMAIN scouts : scouts[p].pc \in {"write", "original"}

\* Mutant: what is cached is taken for whatever code.
FoundForAnyCode(p, changed) ==
  IF byFile[p] # NoSymbols /\ ~cmd.force
    THEN [pc |-> "done", latest |-> disk[p], symbols |-> byFile[p]]
    ELSE [pc |-> "extract", latest |-> disk[p], symbols |-> NoSymbols]

\* What is cached, if the code has not changed
Found(p, changed) ==
  IF ~changed /\ byFile[p] # NoSymbols /\ ~cmd.force
    THEN [pc |-> "done", latest |-> disk[p], symbols |-> byFile[p]]
    ELSE [pc |-> "extract", latest |-> disk[p], symbols |-> NoSymbols]

\* CodeFileManager.Load and SymbolManager.Load: what the file held when its
\* symbols were extracted is compared to what it holds. A file that is gone
\* panics.
LoadCode(p) ==
  /\ ScoutAt(p, "load") /\ ~CodeLocked
  /\ IF disk[p] = Absent
       THEN ScoutTo(p, "done") /\ UNCHANGED originals
       ELSE /\ originals' = [originals EXCEPT ![p] = IF @ = Absent THEN disk[p] ELSE @]
            /\ scouts' = [scouts EXCEPT ![p] = Found(p, originals[p] \notin {Absent, disk[p]})]
  /\ UNCHANGED <<disk, symbolFiles, byFile, byName, torn>> /\ KeepScoutRun

\* The model answers, or fails, or its answer is no list of symbols;
\* SymbolManager.Save, under its lock: the maps, and the file is truncated...
Extract(p) ==
  /\ ScoutAt(p, "extract")
  /\ \/ \E names \in SUBSET Names :
          LET symbols == {[name |-> n, path |-> p, lines |-> scouts[p].latest] : n \in names} IN
          /\ \A q \in DOMAIN scouts : scouts[q].pc # "write symbols"
          /\ byFile' = [byFile EXCEPT ![p] = symbols]
          /\ byName' = IndexOf(byName, symbols)
          /\ symbolFiles' = [symbolFiles EXCEPT ![p] = Broken]
          /\ scouts' = [scouts EXCEPT ![p].pc = "write symbols", ![p].symbols = symbols]
     \/ /\ "chat" \in Faults
        /\ ScoutTo(p, "done")
        /\ UNCHANGED <<symbolFiles, byFile, byName>>
  /\ UNCHANGED <<disk, originals, torn>> /\ KeepScoutRun

\* Mutant: all symbols are written to the file of each.
WriteAllSymbols(p) ==
  /\ ScoutAt(p, "write symbols")
  /\ symbolFiles' = [symbolFiles EXCEPT ![p] = UNION {byFile[q] : q \in {r \in Paths : byFile[r] # NoSymbols}}]
  /\ ScoutTo(p, "truncate")
  /\ UNCHANGED <<disk, originals, byFile, byName, torn>> /\ KeepScoutRun

\* ... and written.
WriteSymbols(p) ==
  /\ ScoutAt(p, "write symbols")
  /\ \/ symbolFiles' = [symbolFiles EXCEPT ![p] = scouts[p].symbols] /\ ScoutTo(p, "truncate")
     \/ "write" \in Faults /\ ScoutTo(p, "done") /\ UNCHANGED symbolFiles
  /\ UNCHANGED <<disk, originals, byFile, byName, torn>> /\ KeepScoutRun

\* A step of CodeFileManager.Save may fail: the symbols are newer than the copy
\* of the code, which may be truncated.
SaveCodeFails(p) ==
  /\ cmd.pc = "symbols" /\ scouts[p].pc \in {"write", "original"}
  /\ "write" \in Faults
  /\ ScoutTo(p, "done")
  /\ torn' = torn \cup {p}
  /\ \E copy \in {originals[p]} \cup IF ScoutAt(p, "original") THEN {Empty} ELSE {} :
       originals' = [originals EXCEPT ![p] = copy]
  /\ UNCHANGED <<disk, symbolFiles, byFile, byName>> /\ KeepScoutRun

\* CodeFileManager.Save writes the code that was read back to the file...
TruncateCode(p) ==
  /\ ScoutAt(p, "truncate") /\ ~CodeLocked
  /\ disk' = [disk EXCEPT ![p] = Empty]
  /\ ScoutTo(p, "write")
  /\ UNCHANGED <<originals, symbolFiles, byFile, byName, torn>> /\ KeepScoutRun

\* Mutant: the copy is written over the file.
WriteCodeOriginal(p) ==
  /\ ScoutAt(p, "write")
  /\ disk' = [disk EXCEPT ![p] = originals[p]]
  /\ ScoutTo(p, "original")
  /\ UNCHANGED <<originals, symbolFiles, byFile, byName, torn>> /\ KeepScoutRun

WriteCode(p) ==
  /\ ScoutAt(p, "write")
  /\ disk' = [disk EXCEPT ![p] = scouts[p].latest]
  /\ ScoutTo(p, "original")
  /\ UNCHANGED <<originals, symbolFiles, byFile, byName, torn>> /\ KeepScoutRun

\* ... and to its copy.
SaveOriginal(p) ==
  /\ ScoutAt(p, "original")
  /\ originals' = [originals EXCEPT ![p] = scouts[p].latest]
  /\ ScoutTo(p, "done")
  /\ torn' = torn \ {p}
  /\ UNCHANGED <<disk, symbolFiles, byFile, byName>> /\ KeepScoutRun

ScoutStep(p) ==
  \/ LoadCode(p) \/ Extract(p) \/ WriteSymbols(p)
  \/ SaveCodeFails(p) \/ TruncateCode(p) \/ WriteCode(p) \/ SaveOriginal(p)

-----------------------------------------------------------------------------
(* A test agent.                                                           *)

File(a) == cmd.targets[a]
At(a, pc) == agents[a].pc = pc
Goto(a, pc) == agents' = [agents EXCEPT ![a].pc = pc]
KeepRun == UNCHANGED <<cmd, symbolVars, touched, runVars>>

\* The deferred recover() of run(): any panic becomes a result.
Failing(a) == agents' = [agents EXCEPT ![a].pc = "done", ![a].result = "failed"]

ReadCode(a) ==
  /\ At(a, "read")
  /\ \/ /\ disk[File(a)] # Absent
        /\ agents' = [agents EXCEPT ![a].pc = "load", ![a].code = disk[File(a)]]
     \/ (disk[File(a)] = Absent \/ "read" \in Faults) /\ Failing(a)
  /\ UNCHANGED <<disk, reports, cache, written>> /\ KeepRun

\* The report manager's mutex is held while a report is written.
Locked == \E a \in DOMAIN agents : At(a, "saving")

LastReport(f) == IF cache[f] # NoReport THEN cache[f] ELSE reports[f]

\* Mutant: a report is enough, whatever the code is now.
UpToDateAnyCode(code, last) == last # NoReport /\ ~cmd.force

UpToDate(code, last) == last # NoReport /\ code = last.code /\ ~cmd.force

\* The last report: nothing to do, or the tests it names are shown to the model,
\* if they are there and not too long.
LoadReport(a) ==
  LET last == LastReport(File(a)) IN
  /\ At(a, "load") /\ ~Locked
  /\ cache' = [cache EXCEPT ![File(a)] = last]
  /\ agents' =
       IF UpToDate(agents[a].code, last)
       THEN [agents EXCEPT ![a].pc = "done", ![a].result = "skipped", ![a].report = last]
       ELSE [agents EXCEPT ![a].pc = IF cmd.symbols THEN "ask" ELSE "generate"]
  /\ UNCHANGED <<disk, reports, written>> /\ KeepRun

\* provideSymbols: the model lists names, and is told what they are in other
\* files.
ProvideSymbols(a) ==
  /\ At(a, "ask")
  /\ \/ \E names \in SUBSET Names :
          agents' = [agents EXCEPT ![a].pc = "generate", ![a].names = names,
                                   ![a].given = Lookup(names, File(a))]
     \/ "chat" \in Faults /\ Failing(a)
  /\ UNCHANGED <<disk, reports, cache, written>> /\ KeepRun

Generated(a, path, test, pc) ==
  agents' = [agents EXCEPT ![a] = [@ EXCEPT !.pc = pc, !.names = {}, !.given = {},
               !.report = [code |-> agents[a].code, path |-> path, test |-> test]]]

\* generateTestCode: the model writes tests and names their file, which
\* WriteFileTextP truncates, or makes...
Generate(a) ==
  /\ At(a, "generate")
  /\ \/ \E path \in Paths, test \in Tests :
          /\ Generated(a, path, test, "write")
          /\ disk' = [disk EXCEPT ![path] = Empty]
     \/ "chat" \in Faults /\ Failing(a) /\ UNCHANGED disk
  /\ UNCHANGED <<reports, cache, written>> /\ KeepRun

\* Mutant: the tests are written over the file they are for.
WriteTestOverFile(a) ==
  LET report == agents[a].report IN
  /\ At(a, "write")
  /\ disk' = [disk EXCEPT ![File(a)] = report.test]
  /\ written' = written \cup {<<File(a), report.code>>}
  /\ Goto(a, "report")
  /\ UNCHANGED <<reports, cache>> /\ KeepRun

\* ... and writes.
WriteTest(a) ==
  LET report == agents[a].report IN
  /\ At(a, "write")
  /\ \/ /\ disk' = [disk EXCEPT ![report.path] = report.test]
        /\ written' = written \cup {<<File(a), report.code>>}
        /\ Goto(a, "report")
     \/ "write" \in Faults /\ UNCHANGED <<disk, written>> /\ Failing(a)
  /\ UNCHANGED <<reports, cache>> /\ KeepRun

\* SaveReport, under the mutex. The errors of Mkdir and WriteFileText are not
\* looked at.
SaveReport(a) ==
  /\ At(a, "report") /\ ~Locked
  /\ cache' = [cache EXCEPT ![File(a)] = agents[a].report]
  /\ \/ reports' = [reports EXCEPT ![File(a)] = NoReport] /\ Goto(a, "saving")
     \/ /\ "report" \in Faults
        /\ UNCHANGED reports
        /\ agents' = [agents EXCEPT ![a].pc = "done", ![a].result = "succeeded"]
  /\ UNCHANGED <<disk, written>> /\ KeepRun

WriteReport(a) ==
  /\ At(a, "saving")
  /\ \/ reports' = [reports EXCEPT ![File(a)] = agents[a].report]
     \/ "report" \in Faults /\ UNCHANGED reports
  /\ agents' = [agents EXCEPT ![a].pc = "done", ![a].result = "succeeded"]
  /\ UNCHANGED <<disk, cache, written>> /\ KeepRun

AgentStep(a) ==
  \/ ReadCode(a) \/ LoadReport(a) \/ ProvideSymbols(a) \/ Generate(a)
  \/ WriteTest(a) \/ SaveReport(a) \/ WriteReport(a)

-----------------------------------------------------------------------------

\* The user changes or removes a file; in the last run of a behaviour no more.
Edit(p, text) ==
  /\ edits < MaxEdits /\ runs < MaxRuns /\ text # disk[p]
  /\ edits' = edits + 1
  /\ disk' = [disk EXCEPT ![p] = text]
  /\ IF cmd.pc = "idle"
       THEN started' = disk' /\ UNCHANGED touched
       ELSE touched' = touched \cup {p} /\ UNCHANGED started
  /\ UNCHANGED <<cmd, symbolVars, testVars, runs>>

Next ==
  \/ \E i \in Invocations : Invoke(i)
  \/ LoadAll \/ ScoutsDone \/ Launch \/ Finish \/ Interrupt
  \/ \E p \in DOMAIN scouts : ScoutStep(p)
  \/ \E a \in DOMAIN agents : AgentStep(a)
  \/ \E p \in Edited, text \in (Texts \ Tests) \cup {Absent} : Edit(p, text)

Spec == Init /\ [][Next]_vars

-----------------------------------------------------------------------------
(* Properties.                                                             *)

SymbolsOf(p) == SUBSET {s \in Symbol : s.path = p}

TypeOK ==
  /\ disk \in [Paths -> Contents] /\ started \in [Paths -> Contents]
  /\ originals \in [Paths -> Contents]
  /\ \A p \in Paths : symbolFiles[p] \in SymbolsOf(p) \cup {NoSymbols, Broken}
  /\ \A p \in Paths : byFile[p] \in SymbolsOf(p) \cup {NoSymbols}
  /\ \A n \in Names : byName[n] \subseteq {s \in Symbol : s.name = n}
  /\ reports \in [Paths -> Report \cup {NoReport}]
  /\ cache \in [Paths -> Report \cup {NoReport}]
  /\ cmd.pc \in {"idle", "load", "symbols", "test"}
  /\ \A p \in DOMAIN scouts : scouts[p].latest \in Contents
  /\ DOMAIN agents = DOMAIN cmd.targets
  /\ \A a \in DOMAIN agents : agents[a].result \in {"none", "failed", "skipped", "succeeded"}
  /\ touched \subseteq Paths /\ torn \subseteq Paths
  /\ written \subseteq Paths \X Contents

\* A file is skipped only if tests for the very code it holds have been written
\* to the file its report names: no report of other code, and none of a run that
\* was interrupted or failed before they were, stands for them.
SkipHasTests ==
  \A a \in DOMAIN agents : agents[a].result = "skipped" =>
    <<File(a), agents[a].code>> \in written

\* The symbols a symbol agent ends with are those of the code it has read, also
\* when it takes what an earlier run has saved; unless that run had saved the
\* symbols and not the code.
SymbolsAreOfCode ==
  \A p \in DOMAIN scouts : scouts[p].pc = "done" /\ scouts[p].symbols # NoSymbols /\ p \notin torn =>
    \A s \in scouts[p].symbols : s.lines = scouts[p].latest

\* The files the agents have their tests written to
Aims == {agents[a].report.path :
           a \in {b \in DOMAIN agents : agents[b].report # NoReport /\ agents[b].result # "skipped"}}

\* Looking for symbols leaves the files as they were, though each is written
\* back: but for those the user has edited since the run began, or its tests
\* were written to, and one that is being written or was when that failed.
FilesAreKept ==
  cmd.pc # "idle" =>
    \A p \in Paths \ (touched \cup torn \cup Aims) :
      (p \in DOMAIN scouts => scouts[p].pc # "write") => disk[p] = started[p]

\* A model that asks for a name is given every definition of it that was found
\* in another file, for whatever order the symbol agents ran in.
GivenIsComplete ==
  \A a \in DOMAIN agents, p \in Paths :
    agents[a].pc = "generate" /\ p # File(a) /\ byFile[p] # NoSymbols =>
      {s \in byFile[p] : s.name \in agents[a].names} \subseteq agents[a].given

\* When an agent has succeeded, its tests are where its report says, unless
\* another agent was told to write to the same file, or the user has.
TestsAreWhereTheyAreSaid ==
  \A a \in DOMAIN agents :
    LET report == agents[a].report IN
    agents[a].result = "succeeded" /\ report.path \notin touched
      /\ (\A b \in DOMAIN agents \ {a} : agents[b].report = NoReport \/ agents[b].report.path # report.path)
      => disk[report.path] = report.test
=============================================================================
