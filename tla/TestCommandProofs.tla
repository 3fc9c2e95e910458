-------------------------- MODULE TestCommandProofs --------------------------
(***************************************************************************)
(* Theorems about TestCommand, for any files, symbols, targets, runs and   *)
(* edits.  Symbol agents and test agents never work at the same time       *)
(* (ControlInv).  Of the first, the invariant follows a file's symbols and *)
(* the copy of its code through a save that may be cut short (FileOK,      *)
(* ScoutOK) and the code that is written back (KeptOK); of the second, the *)
(* tests from the answer to the file and the report (AgentOK, ReportsInv). *)
(***************************************************************************)
EXTENDS TestCommand, TLAPS

Run == [pc : {"idle", "load", "symbols", "test"}, force : BOOLEAN, symbols : BOOLEAN,
        concurrent : BOOLEAN, targets : Seq(Paths), next : Nat]
Scout(p) == [pc : {"load", "extract", "write symbols", "truncate", "write", "original", "done"},
             latest : Contents, symbols : SymbolsOf(p) \cup {NoSymbols}]
Agent == [pc : {"new", "read", "load", "ask", "generate", "write", "report", "saving", "done"},
          code : Contents, names : SUBSET Names, given : SUBSET Symbol, report : Report \cup {NoReport},
          result : {"none", "failed", "skipped", "succeeded"}]
Named(n) == {s \in Symbol : s.name = n}

TypeInv ==
  /\ disk \in [Paths -> Contents] /\ started \in [Paths -> Contents]
  /\ originals \in [Paths -> Contents]
  /\ symbolFiles \in [Paths -> (SUBSET Symbol) \cup {NoSymbols, Broken}]
  /\ \A p \in Paths : symbolFiles[p] \in SymbolsOf(p) \cup {NoSymbols, Broken}
  /\ byFile \in [Paths -> (SUBSET Symbol) \cup {NoSymbols}]
  /\ \A p \in Paths : byFile[p] \in SymbolsOf(p) \cup {NoSymbols}
  /\ byName \in [Names -> SUBSET Symbol] /\ \A n \in Names : byName[n] \subseteq Named(n)
  /\ reports \in [Paths -> Report \cup {NoReport}]
  /\ cache \in [Paths -> Report \cup {NoReport}]
  /\ cmd \in Run
  /\ DOMAIN scouts \subseteq Paths /\ \A p \in DOMAIN scouts : scouts[p] \in Scout(p)
  /\ agents \in [DOMAIN cmd.targets -> Agent]
  /\ touched \subseteq Paths /\ torn \subseteq Paths
  /\ written \subseteq Paths \X Contents

\* Symbols first, then tests; between the runs nothing is in memory.
ControlInv ==
  /\ cmd.pc = "idle" => started = disk
  /\ cmd.pc # "test" => \A a \in DOMAIN agents : agents[a] = NewAgent
  /\ \A a \in DOMAIN agents : a >= cmd.next => agents[a] = NewAgent
  /\ cmd.pc \notin {"load", "symbols"} => DOMAIN scouts = {}
  /\ cmd.pc = "load" => \A p \in DOMAIN scouts : scouts[p] = NewScout

-----------------------------------------------------------------------------
(* Symbols.                                                                *)

\* The symbols are saved, and the code they were found in is about to be.
Saving == {"truncate", "write", "original"}
IsSaving(p) == p \in DOMAIN scouts /\ scouts[p].pc \in Saving

AreOf(symbols, code) == \A s \in symbols : s.lines = code

\* The symbols that were saved last are of the code that was.
FileOK(p) ==
  /\ symbolFiles[p] # NoSymbols => originals[p] # Absent
  /\ symbolFiles[p] \notin {NoSymbols, Broken} /\ p \notin torn /\ ~IsSaving(p)
       => AreOf(symbolFiles[p], originals[p])

ScoutOK(p) ==
  LET scout == scouts[p] IN
  /\ scout.pc \in {"load", "extract"} => scout.symbols = NoSymbols
  /\ scout.pc = "load" /\ cmd.pc = "symbols" /\ byFile[p] # NoSymbols
       => byFile[p] = symbolFiles[p] /\ byFile[p] # Broken
  /\ scout.pc \notin {"load", "done"} => scout.latest # Absent /\ originals[p] # Absent
  /\ scout.pc \in Saving => symbolFiles[p] = scout.symbols
  /\ scout.pc \in {"write symbols"} \cup Saving => AreOf(scout.symbols, scout.latest)
  /\ scout.pc = "done" /\ scout.symbols # NoSymbols /\ p \notin torn => AreOf(scout.symbols, scout.latest)

\* What is found by file is found by name.
IndexInv == \A p \in Paths : byFile[p] # NoSymbols => \A s \in byFile[p] : s \in byName[s.name]

-----------------------------------------------------------------------------
(* Files.                                                                  *)

\* Who has the code of a file, and a file that is not as it was found.
KeptOK(p) ==
  /\ p \notin touched \cup Aims =>
       \/ disk[p] = started[p]
       \/ p \in DOMAIN scouts /\ scouts[p].pc = "write"
       \/ p \in torn /\ (p \in DOMAIN scouts => scouts[p].pc = "done")
  /\ p \in DOMAIN scouts /\ scouts[p].pc \notin {"load", "done"} /\ p \notin touched =>
       scouts[p].latest = started[p]

KeptInv == cmd.pc # "idle" => \A p \in Paths : KeptOK(p)

-----------------------------------------------------------------------------
(* Tests.                                                                  *)

HaveTests(p, report) == report # NoReport => <<p, report.code>> \in written
ReportsInv == \A p \in Paths : HaveTests(p, reports[p]) /\ HaveTests(p, cache[p])

\* Nobody else writes to the file, as far as is known.
IsAlone(a) ==
  /\ agents[a].report.path \notin touched
  /\ \A b \in DOMAIN agents \ {a} :
       agents[b].report = NoReport \/ agents[b].report.path # agents[a].report.path

AgentOK(a) ==
  LET agent == agents[a] IN
  /\ agent.result # "none" => agent.pc = "done"
  /\ agent.pc \in {"new", "read", "load", "ask", "generate"} => agent.report = NoReport
  /\ agent.pc \in {"new", "read", "load", "ask"} => agent.names = {}
  /\ agent.pc \in {"write", "report", "saving"} \/ agent.result = "succeeded" => agent.report # NoReport
  /\ agent.pc \in {"report", "saving"} => <<File(a), agent.report.code>> \in written
  /\ agent.result = "skipped" => <<File(a), agent.code>> \in written
  /\ (agent.pc \in {"report", "saving"} \/ agent.result = "succeeded") /\ IsAlone(a)
       => disk[agent.report.path] = agent.report.test
  /\ agent.pc = "generate" =>
       \A p \in Paths : p # File(a) /\ byFile[p] # NoSymbols =>
         {s \in byFile[p] : s.name \in agent.names} \subseteq agent.given

AgentsInv == \A a \in DOMAIN agents : AgentOK(a)

TestInv ==
  /\ TypeInv /\ ControlInv
  /\ (\A p \in Paths : FileOK(p)) /\ (\A p \in DOMAIN scouts : ScoutOK(p)) /\ IndexInv
  /\ KeptInv /\ ReportsInv /\ AgentsInv

-----------------------------------------------------------------------------
(* One symbol agent moves, and nobody else does.                           *)

ScoutOnly(p) ==
  /\ UNCHANGED <<cmd, testVars, touched, runVars>>
  /\ DOMAIN scouts' = DOMAIN scouts /\ scouts'[p] \in Scout(p)
  /\ \A q \in DOMAIN scouts \ {p} : scouts'[q] = scouts[q]
  /\ disk' \in [Paths -> Contents] /\ originals' \in [Paths -> Contents]
  /\ symbolFiles' \in [Paths -> (SUBSET Symbol) \cup {NoSymbols, Broken}]
  /\ symbolFiles'[p] \in SymbolsOf(p) \cup {NoSymbols, Broken}
  /\ torn' \subseteq Paths
  /\ \A q \in Paths \ {p} :
       /\ disk'[q] = disk[q] /\ originals'[q] = originals[q] /\ symbolFiles'[q] = symbolFiles[q]
       /\ q \in torn' <=> q \in torn

IndexMoves(p) ==
  /\ byFile' \in [Paths -> (SUBSET Symbol) \cup {NoSymbols}]
  /\ byFile'[p] \in SymbolsOf(p) \cup {NoSymbols}
  /\ \A q \in Paths \ {p} : byFile'[q] = byFile[q]
  /\ byName' \in [Names -> SUBSET Symbol] /\ \A n \in Names : byName'[n] \subseteq Named(n)
  /\ IndexInv'

LEMMA IndexStays ==
  ASSUME TestInv, NEW p \in Paths, UNCHANGED <<byFile, byName>>
  PROVE  IndexMoves(p)
  BY DEF TestInv, TypeInv, IndexInv, IndexMoves

LEMMA NobodyTests ==
  ASSUME TestInv, cmd.pc # "test"
  PROVE  Aims = {} /\ \A a \in DOMAIN agents : agents[a] = NewAgent
  BY DEF TestInv, ControlInv, Aims, NewAgent

LEMMA ScoutFrame ==
  ASSUME TestInv, NEW p \in DOMAIN scouts, cmd.pc = "symbols", ScoutOnly(p), IndexMoves(p),
         FileOK(p)', ScoutOK(p)', KeptOK(p)'
  PROVE  TestInv'
<1>1. p \in Paths /\ TypeInv /\ ControlInv
  BY DEF TestInv, TypeInv
<1>2. /\ UNCHANGED <<cmd, agents, reports, cache, written, touched, started>>
      /\ Aims' = Aims
  BY DEF ScoutOnly, testVars, runVars, Aims
<1>3. TypeInv'
  <2>1. \A q \in DOMAIN scouts' : scouts'[q] \in Scout(q)
    BY <1>1 DEF ScoutOnly, TypeInv
  <2>2. \A q \in Paths : /\ symbolFiles'[q] \in SymbolsOf(q) \cup {NoSymbols, Broken}
                         /\ byFile'[q] \in SymbolsOf(q) \cup {NoSymbols}
    BY <1>1 DEF ScoutOnly, IndexMoves, TypeInv
  <2> QED BY <1>1, <1>2, <2>1, <2>2 DEF ScoutOnly, IndexMoves, TypeInv
<1>4. ControlInv'
  BY <1>1, <1>2 DEF ControlInv
<1>5. ASSUME NEW q \in Paths PROVE FileOK(q)'
  <2>1. FileOK(q)
    BY DEF TestInv
  <2>2. q # p => (IsSaving(q)' <=> IsSaving(q))
    BY DEF ScoutOnly, IsSaving
  <2> QED BY <2>1, <2>2 DEF ScoutOnly, FileOK
<1>6. ASSUME NEW q \in DOMAIN scouts' PROVE ScoutOK(q)'
  <2>1. q \in DOMAIN scouts /\ ScoutOK(q) /\ q \in Paths
    BY <1>1 DEF ScoutOnly, TestInv, TypeInv
  <2>2. CASE q = p
    BY <2>2
  <2>3. CASE q # p
    <3>1. /\ scouts'[q] = scouts[q] /\ byFile'[q] = byFile[q] /\ originals'[q] = originals[q]
          /\ symbolFiles'[q] = symbolFiles[q] /\ (q \in torn' <=> q \in torn)
      BY <2>1, <2>3 DEF ScoutOnly, IndexMoves
    <3> QED BY <1>2, <2>1, <3>1 DEF ScoutOK
  <2> QED BY <2>2, <2>3
<1>7. KeptInv'
  <2>1. ASSUME NEW q \in Paths PROVE KeptOK(q)'
    <3>1. KeptOK(q)
      BY DEF TestInv, KeptInv
    <3> QED BY <1>2, <3>1 DEF ScoutOnly, KeptOK
  <2> QED BY <2>1 DEF KeptInv
<1>8. ReportsInv' /\ AgentsInv'
  <2>1. ReportsInv'
    BY <1>2 DEF TestInv, ReportsInv, HaveTests
  <2>2. \A a \in DOMAIN agents' : agents'[a] = NewAgent
    BY <1>2, NobodyTests
  <2> QED BY <2>1, <2>2 DEF AgentsInv, AgentOK, NewAgent
<1> QED BY <1>3, <1>4, <1>5, <1>6, <1>7, <1>8 DEF TestInv, IndexMoves

\* What the invariant says of a symbol agent about to move.
Here(p) ==
  /\ p \in Paths /\ scouts[p] \in Scout(p) /\ FileOK(p) /\ ScoutOK(p) /\ KeptOK(p)
  /\ Aims = {} /\ disk \in [Paths -> Contents] /\ originals \in [Paths -> Contents]
  /\ symbolFiles \in [Paths -> (SUBSET Symbol) \cup {NoSymbols, Broken}]
  /\ symbolFiles[p] \in SymbolsOf(p) \cup {NoSymbols, Broken}
  /\ byFile[p] \in SymbolsOf(p) \cup {NoSymbols} /\ torn \subseteq Paths

LEMMA ScoutHere ==
  ASSUME TestInv, NEW p \in DOMAIN scouts, cmd.pc = "symbols"
  PROVE  Here(p)
  BY NobodyTests DEF TestInv, TypeInv, KeptInv, Here

LEMMA LoadCodeInv == ASSUME TestInv, NEW p \in DOMAIN scouts, LoadCode(p) PROVE TestInv'
<1>1. /\ cmd.pc = "symbols" /\ scouts[p].pc = "load" /\ UNCHANGED <<byFile, byName>>
      /\ UNCHANGED <<disk, symbolFiles, torn>> /\ UNCHANGED <<cmd, testVars, touched, runVars>>
  BY DEF LoadCode, ScoutAt, KeepScoutRun
<1>2. Here(p)
  BY <1>1, ScoutHere
<1> USE DEF Here
<1>3. UNCHANGED <<agents, started>> /\ Aims' = {}
  BY <1>1, <1>2 DEF testVars, runVars, Aims
<1>4. CASE disk[p] = Absent
  <2>1. scouts' = [scouts EXCEPT ![p].pc = "done"] /\ UNCHANGED originals
    BY <1>4 DEF LoadCode, ScoutTo
  <2>2. /\ scouts'[p].pc = "done" /\ scouts'[p].symbols = NoSymbols /\ scouts'[p] \in Scout(p)
        /\ DOMAIN scouts' = DOMAIN scouts
    BY <1>1, <1>2, <2>1 DEF ScoutOK, Scout
  <2>3. ScoutOnly(p)
    BY <1>1, <1>2, <2>1, <2>2 DEF ScoutOnly
  <2>4. FileOK(p)' /\ ScoutOK(p)' /\ KeptOK(p)'
    BY <1>1, <1>2, <1>3, <2>1, <2>2 DEF FileOK, ScoutOK, KeptOK, IsSaving, Saving
  <2> QED BY <1>1, <1>2, <2>3, <2>4, IndexStays, ScoutFrame
<1>5. CASE disk[p] # Absent
  <2> DEFINE found == Found(p, originals[p] \notin {Absent, disk[p]})
  <2>1. /\ originals' = [originals EXCEPT ![p] = IF originals[p] = Absent THEN disk[p] ELSE originals[p]]
        /\ scouts' = [scouts EXCEPT ![p] = found]
    BY <1>5 DEF LoadCode
  <2>2. found.latest = disk[p] /\ found.pc \in {"done", "extract"} /\ found \in Scout(p)
    BY <1>2 DEF Found, Scout
  <2>3. found.pc = "extract" => found.symbols = NoSymbols
    BY DEF Found
  <2>4. found.pc = "done" =>
          originals[p] \in {Absent, disk[p]} /\ found.symbols = byFile[p] /\ byFile[p] # NoSymbols
    BY DEF Found
  <2> HIDE DEF found
  <2>5. /\ scouts'[p] = found /\ DOMAIN scouts' = DOMAIN scouts
        /\ \A q \in DOMAIN scouts \ {p} : scouts'[q] = scouts[q]
    BY <2>1
  <2>6. /\ originals' \in [Paths -> Contents] /\ originals'[p] # Absent
        /\ originals[p] # Absent => originals'[p] = originals[p]
        /\ \A q \in Paths \ {p} : originals'[q] = originals[q]
    BY <1>2, <1>5, <2>1
  <2>7. ScoutOnly(p)
    BY <1>1, <1>2, <2>2, <2>5, <2>6 DEF ScoutOnly
  <2>8. FileOK(p)'
    BY <1>1, <1>2, <2>2, <2>5, <2>6 DEF FileOK, IsSaving, Saving
  <2>9. ScoutOK(p)'
    <3>1. CASE found.pc = "extract"
      BY <1>5, <2>2, <2>3, <2>5, <2>6, <3>1 DEF ScoutOK, Saving
    <3>2. CASE found.pc = "done"
      <4>1. byFile[p] = symbolFiles[p] /\ byFile[p] # Broken /\ byFile[p] # NoSymbols
        BY <1>1, <1>2, <2>4, <3>2 DEF ScoutOK
      <4>2. originals[p] = disk[p]
        BY <1>2, <2>4, <3>2, <4>1 DEF FileOK
      <4>3. p \notin torn => AreOf(byFile[p], disk[p])
        BY <1>1, <1>2, <4>1, <4>2 DEF FileOK, IsSaving, Saving
      <4> QED BY <1>1, <2>2, <2>4, <2>5, <3>2, <4>3 DEF ScoutOK, Saving
    <3> QED BY <2>2, <3>1, <3>2
  <2>10. KeptOK(p)'
    BY <1>1, <1>2, <1>3, <2>2, <2>5 DEF KeptOK
  <2> QED BY <1>1, <1>2, <2>7, <2>8, <2>9, <2>10, IndexStays, ScoutFrame
<1> QED BY <1>4, <1>5

\* The other steps leave the two maps as they are, but for Extract.
LEMMA ExtractInv == ASSUME TestInv, NEW p \in DOMAIN scouts, Extract(p) PROVE TestInv'
<1>1. /\ cmd.pc = "symbols" /\ scouts[p].pc = "extract"
      /\ UNCHANGED <<disk, originals, torn>> /\ UNCHANGED <<cmd, testVars, touched, runVars>>
  BY DEF Extract, ScoutAt, KeepScoutRun
<1>2. Here(p)
  BY <1>1, ScoutHere
<1> USE DEF Here
<1>3. UNCHANGED <<agents, started>> /\ Aims' = {}
  BY <1>1, <1>2 DEF testVars, runVars, Aims
<1>4. CASE ScoutTo(p, "done") /\ UNCHANGED <<symbolFiles, byFile, byName>>
  <2>1. /\ scouts'[p].pc = "done" /\ scouts'[p].symbols = NoSymbols /\ scouts'[p] \in Scout(p)
        /\ DOMAIN scouts' = DOMAIN scouts /\ \A q \in DOMAIN scouts \ {p} : scouts'[q] = scouts[q]
    BY <1>1, <1>2, <1>4 DEF ScoutOK, Scout, ScoutTo
  <2>2. ScoutOnly(p)
    BY <1>1, <1>2, <1>4, <2>1 DEF ScoutOnly
  <2>3. FileOK(p)' /\ ScoutOK(p)' /\ KeptOK(p)'
    BY <1>1, <1>2, <1>3, <1>4, <2>1 DEF FileOK, ScoutOK, KeptOK, IsSaving, Saving
  <2> QED BY <1>1, <1>2, <1>4, <2>2, <2>3, IndexStays, ScoutFrame
<1>5. ASSUME NEW names \in SUBSET Names,
             byFile' = [byFile EXCEPT ![p] =
                          {[name |-> n, path |-> p, lines |-> scouts[p].latest] : n \in names}],
             byName' = IndexOf(byName, {[name |-> n, path |-> p, lines |-> scouts[p].latest] : n \in names}),
             symbolFiles' = [symbolFiles EXCEPT ![p] = Broken],
             scouts' = [scouts EXCEPT ![p].pc = "write symbols",
                          ![p].symbols = {[name |-> n, path |-> p, lines |-> scouts[p].latest] : n \in names}]
      PROVE  TestInv'
  <2> DEFINE symbols == {[name |-> n, path |-> p, lines |-> scouts[p].latest] : n \in names}
  <2>1. scouts[p].latest \in Contents
    BY <1>2 DEF Scout
  <2>2. symbols \in SymbolsOf(p) /\ symbols \subseteq Symbol /\ AreOf(symbols, scouts[p].latest)
    BY <1>2, <2>1 DEF SymbolsOf, Symbol, AreOf
  <2>3. /\ byFile' = [byFile EXCEPT ![p] = symbols] /\ byName' = IndexOf(byName, symbols)
        /\ scouts' = [scouts EXCEPT ![p].pc = "write symbols", ![p].symbols = symbols]
    BY <1>5
  <2> HIDE DEF symbols
  <2>4. /\ scouts'[p].pc = "write symbols" /\ scouts'[p].symbols = symbols
        /\ scouts'[p].latest = scouts[p].latest
        /\ DOMAIN scouts' = DOMAIN scouts /\ \A q \in DOMAIN scouts \ {p} : scouts'[q] = scouts[q]
        /\ scouts'[p] \in Scout(p)
    BY <1>2, <2>2, <2>3 DEF Scout
  <2>5. /\ symbolFiles' \in [Paths -> (SUBSET Symbol) \cup {NoSymbols, Broken}] /\ symbolFiles'[p] = Broken
        /\ \A q \in Paths \ {p} : symbolFiles'[q] = symbolFiles[q]
    BY <1>2, <1>5
  <2>6. ScoutOnly(p)
    BY <1>1, <1>2, <2>4, <2>5 DEF ScoutOnly
  <2>7. IndexMoves(p)
    <3>1. /\ byFile \in [Paths -> (SUBSET Symbol) \cup {NoSymbols}] /\ IndexInv
          /\ byName \in [Names -> SUBSET Symbol] /\ \A n \in Names : byName[n] \subseteq Named(n)
      BY DEF TestInv, TypeInv
    <3>2. /\ byFile' \in [Paths -> (SUBSET Symbol) \cup {NoSymbols}] /\ byFile'[p] = symbols
          /\ \A q \in Paths \ {p} : byFile'[q] = byFile[q]
      BY <1>2, <2>2, <2>3, <3>1
    <3>3. byName' = [n \in Names |-> byName[n] \cup {s \in symbols : s.name = n}]
      BY <2>3 DEF IndexOf
    <3>4. \A n \in Names : /\ byName'[n] = byName[n] \cup {s \in symbols : s.name = n}
                           /\ byName'[n] \subseteq Named(n) /\ byName'[n] \in SUBSET Symbol
      BY <2>2, <3>1, <3>3 DEF Named
    <3>5. byName' \in [Names -> SUBSET Symbol]
      BY <3>3, <3>4
    <3>6. IndexInv'
      <4>1. ASSUME NEW q \in Paths, byFile'[q] # NoSymbols, NEW s \in byFile'[q] PROVE s \in byName'[s.name]
        <5>1. CASE q = p
          <6>1. s \in symbols /\ s \in Symbol /\ s.name \in Names
            BY <2>2, <3>2, <4>1, <5>1 DEF Symbol
          <6> QED BY <3>4, <6>1
        <5>2. CASE q # p
          <6>1. byFile[q] # NoSymbols /\ s \in byFile[q] /\ s \in Symbol /\ s.name \in Names
            BY <3>1, <3>2, <4>1, <5>2 DEF Symbol
          <6>2. s \in byName[s.name]
            BY <3>1, <6>1 DEF IndexInv
          <6> QED BY <3>4, <6>1, <6>2
        <5> QED BY <5>1, <5>2
      <4> QED BY <4>1 DEF IndexInv
    <3> QED BY <2>2, <3>2, <3>4, <3>5, <3>6 DEF IndexMoves
  <2>8. FileOK(p)' /\ ScoutOK(p)' /\ KeptOK(p)'
    BY <1>1, <1>2, <1>3, <2>2, <2>4, <2>5 DEF FileOK, ScoutOK, KeptOK, IsSaving, Saving
  <2> QED BY <1>1, <2>6, <2>7, <2>8, ScoutFrame
<1> QED BY <1>4, <1>5 DEF Extract

LEMMA WriteSymbolsInv == ASSUME TestInv, NEW p \in DOMAIN scouts, WriteSymbols(p) PROVE TestInv'
<1>1. /\ cmd.pc = "symbols" /\ scouts[p].pc = "write symbols" /\ UNCHANGED <<byFile, byName>>
      /\ UNCHANGED <<disk, originals, torn>> /\ UNCHANGED <<cmd, testVars, touched, runVars>>
  BY DEF WriteSymbols, ScoutAt, KeepScoutRun
<1>2. Here(p)
  BY <1>1, ScoutHere
<1> USE DEF Here
<1>3. UNCHANGED <<agents, started>> /\ Aims' = {}
  BY <1>1, <1>2 DEF testVars, runVars, Aims
<1>4. PICK pc \in {"truncate", "done"} :
        /\ ScoutTo(p, pc)
        /\ pc = "truncate" => symbolFiles' = [symbolFiles EXCEPT ![p] = scouts[p].symbols]
        /\ pc = "done" => UNCHANGED symbolFiles
  BY DEF WriteSymbols
<1>5. /\ scouts'[p] = [scouts[p] EXCEPT !.pc = pc] /\ scouts'[p] \in Scout(p)
      /\ DOMAIN scouts' = DOMAIN scouts /\ \A q \in DOMAIN scouts \ {p} : scouts'[q] = scouts[q]
  BY <1>1, <1>2, <1>4 DEF Scout, ScoutTo
<1>6. /\ scouts'[p].pc = pc /\ scouts'[p].symbols = scouts[p].symbols /\ scouts'[p].latest = scouts[p].latest
      /\ scouts[p].symbols \in SymbolsOf(p) \cup {NoSymbols}
  BY <1>2, <1>5 DEF Scout
<1>7. /\ symbolFiles' \in [Paths -> (SUBSET Symbol) \cup {NoSymbols, Broken}]
      /\ symbolFiles'[p] \in SymbolsOf(p) \cup {NoSymbols, Broken}
      /\ \A q \in Paths \ {p} : symbolFiles'[q] = symbolFiles[q]
      /\ pc = "truncate" => symbolFiles'[p] = scouts[p].symbols
  BY <1>2, <1>4, <1>6 DEF SymbolsOf
<1>8. ScoutOnly(p)
  BY <1>1, <1>2, <1>5, <1>7 DEF ScoutOnly
<1>9. FileOK(p)'
  <2>1. originals[p] # Absent
    BY <1>1, <1>2 DEF ScoutOK
  <2>2. CASE pc = "truncate"
    BY <1>1, <1>5, <1>6, <2>1, <2>2 DEF FileOK, IsSaving, Saving
  <2>3. CASE pc = "done"
    BY <1>1, <1>2, <1>4, <1>6, <2>1, <2>3 DEF FileOK, IsSaving, Saving
  <2> QED BY <1>4, <2>2, <2>3
<1>10. ScoutOK(p)' /\ KeptOK(p)'
  BY <1>1, <1>2, <1>3, <1>4, <1>5, <1>6, <1>7 DEF ScoutOK, KeptOK, Saving
<1> QED BY <1>1, <1>2, <1>8, <1>9, <1>10, IndexStays, ScoutFrame

LEMMA SaveCodeFailsInv == ASSUME TestInv, NEW p \in DOMAIN scouts, SaveCodeFails(p) PROVE TestInv'
<1>1. /\ cmd.pc = "symbols" /\ scouts[p].pc \in {"write", "original"} /\ UNCHANGED <<byFile, byName>>
      /\ UNCHANGED <<disk, symbolFiles>> /\ UNCHANGED <<cmd, testVars, touched, runVars>>
      /\ torn' = torn \cup {p} /\ ScoutTo(p, "done")
  BY DEF SaveCodeFails, KeepScoutRun
<1>2. Here(p)
  BY <1>1, ScoutHere
<1> USE DEF Here
<1>3. UNCHANGED <<agents, started>> /\ Aims' = {}
  BY <1>1, <1>2 DEF testVars, runVars, Aims
<1>4. /\ originals' \in [Paths -> Contents] /\ originals'[p] # Absent
      /\ \A q \in Paths \ {p} : originals'[q] = originals[q]
  <2>1. PICK copy \in {originals[p], Empty} : originals' = [originals EXCEPT ![p] = copy]
    BY DEF SaveCodeFails
  <2>2. originals[p] # Absent /\ Empty # Absent /\ Empty \in Contents
    BY <1>1, <1>2, TestAssumption DEF ScoutOK, Contents
  <2> QED BY <1>2, <2>1, <2>2
<1>5. /\ scouts'[p].pc = "done" /\ scouts'[p].symbols = scouts[p].symbols
      /\ scouts'[p].latest = scouts[p].latest
      /\ DOMAIN scouts' = DOMAIN scouts /\ \A q \in DOMAIN scouts \ {p} : scouts'[q] = scouts[q]
      /\ scouts'[p] \in Scout(p)
  BY <1>1, <1>2 DEF Scout, ScoutTo
<1>6. ScoutOnly(p)
  BY <1>1, <1>2, <1>4, <1>5 DEF ScoutOnly
<1>7. FileOK(p)' /\ ScoutOK(p)' /\ KeptOK(p)'
  BY <1>1, <1>2, <1>3, <1>4, <1>5 DEF FileOK, ScoutOK, KeptOK, Saving
<1> QED BY <1>1, <1>2, <1>6, <1>7, IndexStays, ScoutFrame

LEMMA CodeInv ==
  ASSUME TestInv, NEW p \in DOMAIN scouts, TruncateCode(p) \/ WriteCode(p)
  PROVE  TestInv'
<1>1. /\ cmd.pc = "symbols" /\ UNCHANGED <<byFile, byName>>
      /\ UNCHANGED <<originals, symbolFiles, torn>> /\ UNCHANGED <<cmd, testVars, touched, runVars>>
  BY DEF TruncateCode, WriteCode, ScoutAt, KeepScoutRun
<1>2. Here(p)
  BY <1>1, ScoutHere
<1> USE DEF Here
<1>3. UNCHANGED <<agents, started>> /\ Aims' = {} /\ Empty \in Contents
  BY <1>1, <1>2 DEF testVars, runVars, Aims, Contents
<1>4. PICK pc \in {"write", "original"} :
        /\ scouts[p].pc \in {"truncate", "write"} /\ ScoutTo(p, pc)
        /\ disk' = [disk EXCEPT ![p] = IF pc = "write" THEN Empty ELSE scouts[p].latest]
  BY DEF TruncateCode, WriteCode, ScoutAt
<1>5. /\ scouts'[p].pc = pc /\ scouts'[p].symbols = scouts[p].symbols /\ scouts'[p].latest = scouts[p].latest
      /\ DOMAIN scouts' = DOMAIN scouts /\ \A q \in DOMAIN scouts \ {p} : scouts'[q] = scouts[q]
      /\ scouts'[p] \in Scout(p) /\ scouts[p].latest \in Contents
  BY <1>1, <1>2, <1>4 DEF Scout, ScoutTo
<1>6. /\ disk' \in [Paths -> Contents] /\ \A q \in Paths \ {p} : disk'[q] = disk[q]
      /\ pc = "original" => disk'[p] = scouts[p].latest
  BY <1>2, <1>3, <1>4, <1>5
<1>7. ScoutOnly(p)
  BY <1>1, <1>2, <1>5, <1>6 DEF ScoutOnly
<1>8. FileOK(p)' /\ ScoutOK(p)'
  BY <1>1, <1>2, <1>4, <1>5 DEF FileOK, ScoutOK, IsSaving, Saving
<1>9. KeptOK(p)'
  BY <1>1, <1>2, <1>3, <1>4, <1>5, <1>6 DEF KeptOK
<1> QED BY <1>1, <1>2, <1>7, <1>8, <1>9, IndexStays, ScoutFrame

LEMMA SaveOriginalInv == ASSUME TestInv, NEW p \in DOMAIN scouts, SaveOriginal(p) PROVE TestInv'
<1>1. /\ cmd.pc = "symbols" /\ scouts[p].pc = "original" /\ UNCHANGED <<byFile, byName>>
      /\ UNCHANGED <<disk, symbolFiles>> /\ UNCHANGED <<cmd, testVars, touched, runVars>>
      /\ torn' = torn \ {p} /\ ScoutTo(p, "done")
      /\ originals' = [originals EXCEPT ![p] = scouts[p].latest]
  BY DEF SaveOriginal, ScoutAt, KeepScoutRun
<1>2. Here(p)
  BY <1>1, ScoutHere
<1> USE DEF Here
<1>3. UNCHANGED <<agents, started>> /\ Aims' = {}
  BY <1>1, <1>2 DEF testVars, runVars, Aims
<1>4. /\ scouts'[p].pc = "done" /\ scouts'[p].symbols = scouts[p].symbols
      /\ scouts'[p].latest = scouts[p].latest
      /\ DOMAIN scouts' = DOMAIN scouts /\ \A q \in DOMAIN scouts \ {p} : scouts'[q] = scouts[q]
      /\ scouts'[p] \in Scout(p) /\ scouts[p].latest \in Contents
  BY <1>1, <1>2 DEF Scout, ScoutTo
<1>5. /\ originals' \in [Paths -> Contents] /\ originals'[p] = scouts[p].latest
      /\ \A q \in Paths \ {p} : originals'[q] = originals[q]
  BY <1>1, <1>2, <1>4
<1>6. ScoutOnly(p)
  BY <1>1, <1>2, <1>4, <1>5 DEF ScoutOnly
<1>7. FileOK(p)' /\ ScoutOK(p)'
  BY <1>1, <1>2, <1>4, <1>5 DEF FileOK, ScoutOK, Saving
<1>8. KeptOK(p)'
  BY <1>1, <1>2, <1>3, <1>4 DEF KeptOK
<1> QED BY <1>1, <1>2, <1>6, <1>7, <1>8, IndexStays, ScoutFrame

-----------------------------------------------------------------------------
(* The run.                                                                *)

LEMMA InvokeInv == ASSUME TestInv, NEW i \in Invocations, Invoke(i) PROVE TestInv'
<1>1. /\ cmd.pc = "idle" /\ started = disk /\ TypeInv
      /\ UNCHANGED <<disk, originals, symbolFiles, reports, byFile, byName, cache, started, touched,
                     written, torn>>
  BY DEF Invoke, TestInv, ControlInv
<1>2. /\ i.targets \in Seq(Paths) /\ i.force \in BOOLEAN /\ i.symbols \in BOOLEAN /\ i.concurrent \in BOOLEAN
  BY TestAssumption
<1>3. /\ cmd' \in Run /\ cmd'.pc \in {"load", "test"} /\ cmd'.targets = i.targets
      /\ cmd'.pc = "load" <=> i.symbols
  BY <1>2 DEF Invoke, Run
<1>4. agents' \in [DOMAIN cmd'.targets -> Agent] /\ \A a \in DOMAIN agents' : agents'[a] = NewAgent
  <2>1. NewAgent \in Agent
    BY DEF NewAgent, Agent, Contents
  <2> QED BY <1>3, <2>1 DEF Invoke
<1>5. /\ DOMAIN scouts' \subseteq Paths /\ (~i.symbols => DOMAIN scouts' = {})
      /\ \A p \in DOMAIN scouts' : scouts'[p] = NewScout
  BY DEF Invoke, RepoFiles
<1>6. \A p \in Paths : NewScout \in Scout(p)
  BY DEF NewScout, Scout, Contents
<1>7. TypeInv'
  BY <1>1, <1>3, <1>4, <1>5, <1>6 DEF TypeInv
<1>8. ControlInv'
  BY <1>3, <1>4, <1>5 DEF ControlInv
<1>9. \A p \in Paths : ~IsSaving(p)' /\ ~IsSaving(p)
  <2>1. DOMAIN scouts = {}
    BY <1>1 DEF TestInv, ControlInv
  <2> QED BY <1>5, <2>1 DEF IsSaving, NewScout, Saving
<1>10. (\A p \in Paths : FileOK(p)') /\ IndexInv' /\ ReportsInv'
  BY <1>1, <1>9 DEF TestInv, FileOK, IndexInv, ReportsInv, HaveTests
<1>11. ASSUME NEW p \in DOMAIN scouts' PROVE ScoutOK(p)'
  <2>1. scouts'[p].pc = "load" /\ scouts'[p].symbols = NoSymbols /\ cmd'.pc # "symbols"
    BY <1>3, <1>5 DEF NewScout
  <2> QED BY <2>1 DEF ScoutOK, Saving
<1>12. KeptInv'
  BY <1>1, <1>5 DEF KeptInv, KeptOK, NewScout
<1>13. AgentsInv'
  BY <1>4 DEF AgentsInv, AgentOK, NewAgent
<1> QED BY <1>7, <1>8, <1>10, <1>11, <1>12, <1>13 DEF TestInv

LEMMA LeaveInv == ASSUME TestInv, Leave PROVE TestInv'
<1>1. /\ DOMAIN scouts' = {} /\ DOMAIN agents' = {} /\ cmd' = NoRun /\ started' = disk' /\ TypeInv
      /\ UNCHANGED <<disk, originals, symbolFiles, reports, written>>
  BY DEF Leave, TestInv
<1>2. /\ byFile' = [p \in Paths |-> NoSymbols] /\ byName' = [n \in Names |-> {}]
      /\ cache' = [p \in Paths |-> NoReport] /\ touched' = {}
      /\ torn' = torn \cup {p \in DOMAIN scouts : scouts[p].pc \in Saving}
  BY DEF Leave, Saving
<1>3. NoRun \in Run /\ NoRun.pc = "idle" /\ DOMAIN NoRun.targets = {}
  <2>1. <<>> \in Seq(Paths) /\ DOMAIN <<>> = {}
    OBVIOUS
  <2> QED BY <2>1 DEF NoRun, Run
<1>4. TypeInv'
  <2>1. agents' \in [DOMAIN cmd'.targets -> Agent]
    <3>1. agents' = <<>>
      BY DEF Leave
    <3> QED BY <1>1, <1>3, <3>1
  <2>2. torn' \subseteq Paths
    BY <1>1, <1>2 DEF TypeInv
  <2> QED BY <1>1, <1>2, <1>3, <2>1, <2>2 DEF TypeInv
<1>5. ControlInv' /\ KeptInv'
  BY <1>1, <1>3 DEF ControlInv, KeptInv
<1>6. ASSUME NEW p \in Paths PROVE FileOK(p)'
  <2>1. FileOK(p)
    BY DEF TestInv
  <2>2. p \notin torn' => p \notin torn /\ ~IsSaving(p)
    BY <1>2 DEF IsSaving
  <2> QED BY <1>1, <2>1, <2>2 DEF FileOK
<1>7. IndexInv'
  BY <1>2 DEF IndexInv
<1>8. ReportsInv'
  BY <1>1, <1>2 DEF TestInv, ReportsInv, HaveTests
<1> QED BY <1>1, <1>4, <1>5, <1>6, <1>7, <1>8 DEF TestInv, AgentsInv

LEMMA LoadAllInv == ASSUME TestInv, LoadAll PROVE TestInv'
<1> DEFINE files == {p \in DOMAIN scouts : symbolFiles[p] # NoSymbols}
<1>1. cmd.pc = "load" /\ TypeInv /\ \A p \in DOMAIN scouts : scouts[p] = NewScout
  BY DEF LoadAll, TestInv, ControlInv
<1>2. CASE Leave
  BY <1>2, LeaveInv
<1>3. CASE ~Leave
  <2>1. /\ \A p \in files : symbolFiles[p] # Broken /\ symbolFiles[p] # NoSymbols
        /\ byFile' = [p \in Paths |-> IF p \in files THEN symbolFiles[p] ELSE NoSymbols]
        /\ byName' = IndexOf(byName, UNION {symbolFiles[p] : p \in files})
        /\ cmd' = [cmd EXCEPT !.pc = "symbols"]
        /\ UNCHANGED <<disk, originals, symbolFiles, scouts, torn, testVars, touched, runVars>>
    BY <1>3 DEF LoadAll
  <2>2. UNCHANGED <<agents, reports, cache, written, started>> /\ Aims' = Aims
    BY <2>1 DEF testVars, runVars, Aims
  <2>3. /\ cmd' \in Run /\ cmd'.pc = "symbols" /\ cmd'.targets = cmd.targets
    BY <1>1, <2>1 DEF TypeInv, Run
  <2>4. \A p \in files : p \in Paths /\ symbolFiles[p] \in SymbolsOf(p) /\ symbolFiles[p] \subseteq Symbol
    BY <1>1, <2>1 DEF TypeInv, SymbolsOf
  <2>5. \A s \in UNION {symbolFiles[p] : p \in files} : s \in Symbol /\ s.name \in Names
    BY <2>4 DEF Symbol
  <2> HIDE DEF files
  <2>6. /\ byName' = [n \in Names |-> byName[n] \cup {s \in UNION {symbolFiles[p] : p \in files} : s.name = n}]
        /\ byName \in [Names -> SUBSET Symbol] /\ \A n \in Names : byName[n] \subseteq Named(n)
    BY <1>1, <2>1 DEF IndexOf, TypeInv
  <2>7. byName' \in [Names -> SUBSET Symbol] /\ \A n \in Names : byName'[n] \subseteq Named(n)
    BY <2>5, <2>6 DEF Named
  <2>8. /\ byFile' \in [Paths -> (SUBSET Symbol) \cup {NoSymbols}]
        /\ \A p \in Paths : byFile'[p] \in SymbolsOf(p) \cup {NoSymbols}
        /\ \A p \in Paths : byFile'[p] # NoSymbols => p \in files /\ byFile'[p] = symbolFiles[p]
    BY <2>1, <2>4
  <2>9. TypeInv'
    BY <1>1, <2>1, <2>2, <2>3, <2>7, <2>8 DEF TypeInv
  <2>10. ControlInv'
    BY <1>1, <2>2, <2>3 DEF TestInv, ControlInv
  <2>11. \A p \in Paths : FileOK(p)'
    BY <2>1 DEF TestInv, FileOK, IsSaving
  <2>12. ASSUME NEW p \in DOMAIN scouts' PROVE ScoutOK(p)'
    <3>1. p \in Paths /\ scouts'[p] = NewScout
      BY <1>1, <2>1 DEF TypeInv
    <3> QED BY <2>1, <2>8, <3>1 DEF ScoutOK, NewScout, Saving
  <2>13. IndexInv'
    <3>1. ASSUME NEW p \in Paths, byFile'[p] # NoSymbols, NEW s \in byFile'[p] PROVE s \in byName'[s.name]
      <4>1. s \in UNION {symbolFiles[q] : q \in files}
        BY <2>8, <3>1
      <4> QED BY <2>5, <2>6, <4>1
    <3> QED BY <3>1 DEF IndexInv
  <2>14. KeptInv'
    BY <1>1, <2>1, <2>2 DEF TestInv, KeptInv, KeptOK
  <2>15. ReportsInv' /\ AgentsInv'
    <3>1. \A a \in DOMAIN agents' : agents'[a] = NewAgent
      BY <1>1, <2>2, NobodyTests
    <3> QED BY <2>2, <3>1 DEF TestInv, ReportsInv, HaveTests, AgentsInv, AgentOK, NewAgent
  <2> QED BY <2>9, <2>10, <2>11, <2>12, <2>13, <2>14, <2>15 DEF TestInv
<1> QED BY <1>2, <1>3

LEMMA ScoutsDoneInv == ASSUME TestInv, ScoutsDone PROVE TestInv'
<1>1. /\ cmd.pc = "symbols" /\ cmd' = [cmd EXCEPT !.pc = "test"] /\ DOMAIN scouts' = {} /\ TypeInv
      /\ \A p \in DOMAIN scouts : scouts[p].pc = "done"
      /\ UNCHANGED <<disk, originals, symbolFiles, byFile, byName, torn, testVars, touched, runVars>>
  BY DEF ScoutsDone, TestInv
<1>2. UNCHANGED <<agents, reports, cache, written, started>> /\ Aims' = Aims
  BY <1>1 DEF testVars, runVars, Aims
<1>3. cmd' \in Run /\ cmd'.pc = "test" /\ cmd'.targets = cmd.targets
  BY <1>1 DEF TypeInv, Run
<1>4. TypeInv' /\ ControlInv'
  <2>1. \A a \in DOMAIN agents : agents[a] = NewAgent
    BY <1>1, NobodyTests
  <2> QED BY <1>1, <1>2, <1>3, <2>1 DEF TypeInv, ControlInv
<1>5. \A p \in Paths : FileOK(p)'
  BY <1>1 DEF TestInv, FileOK, IsSaving, Saving
<1>6. KeptInv'
  BY <1>1, <1>2 DEF TestInv, KeptInv, KeptOK
<1>7. IndexInv' /\ ReportsInv'
  BY <1>1, <1>2 DEF TestInv, IndexInv, ReportsInv, HaveTests
<1>8. AgentsInv'
  BY <1>1, <1>2, NobodyTests DEF AgentsInv, AgentOK, NewAgent
<1> QED BY <1>1, <1>4, <1>5, <1>6, <1>7, <1>8 DEF TestInv

-----------------------------------------------------------------------------
(* One test agent moves, and nobody else does.                             *)

\* It writes only to the file its report names, which it then keeps to.
AgentOnly(a) ==
  /\ UNCHANGED <<cmd, symbolVars, touched, runVars>>
  /\ agents' \in [DOMAIN agents -> Agent]
  /\ \A b \in DOMAIN agents \ {a} : agents'[b] = agents[b]
  /\ agents[a].report # NoReport =>
       agents'[a].report = agents[a].report /\ (agents'[a].result = "skipped" => agents[a].result = "skipped")
  /\ disk' \in [Paths -> Contents]
  /\ \A p \in Paths : disk'[p] # disk[p] =>
       agents'[a].report # NoReport /\ agents'[a].result # "skipped" /\ agents'[a].report.path = p
  /\ reports' \in [Paths -> Report \cup {NoReport}]
  /\ cache' \in [Paths -> Report \cup {NoReport}]
  /\ written \subseteq written' /\ written' \subseteq Paths \X Contents

LEMMA OthersTests ==
  ASSUME NEW a \in DOMAIN agents, NEW b \in DOMAIN agents \ {a}, agents \in [DOMAIN agents -> Agent],
         agents[b].report # NoReport, AgentOnly(a), AgentOK(b), IsAlone(b)',
         agents[b].pc \in {"report", "saving"} \/ agents[b].result = "succeeded"
  PROVE  disk'[agents[b].report.path] = agents[b].report.test
<1>1. agents'[b] = agents[b] /\ UNCHANGED touched /\ DOMAIN agents' = DOMAIN agents
  BY DEF AgentOnly
<1>2. agents[b].report \in Report /\ agents[b].report.path \in Paths
  BY DEF Agent, Report
<1>3. \A c \in DOMAIN agents \ {b} :
        agents'[c].report = NoReport \/ agents'[c].report.path # agents[b].report.path
  BY <1>1 DEF IsAlone
<1>4. \A c \in DOMAIN agents \ {b} :
        agents[c].report = NoReport \/ agents[c].report.path # agents[b].report.path
  BY <1>3 DEF AgentOnly
<1>5. IsAlone(b)
  BY <1>1, <1>4 DEF IsAlone
<1>6. disk[agents[b].report.path] = agents[b].report.test
  BY <1>5 DEF AgentOK
<1>7. disk'[agents[b].report.path] = disk[agents[b].report.path]
  BY <1>2, <1>3 DEF AgentOnly
<1> QED BY <1>6, <1>7

LEMMA AgentFrame ==
  ASSUME TestInv, NEW a \in DOMAIN agents, agents[a].pc # "new", AgentOnly(a), ReportsInv', AgentOK(a)'
  PROVE  TestInv'
<1>1. /\ cmd.pc = "test" /\ DOMAIN scouts = {} /\ TypeInv /\ ~(a >= cmd.next)
      /\ DOMAIN agents = DOMAIN cmd.targets /\ agents \in [DOMAIN agents -> Agent]
  <2>1. agents[a] # NewAgent
    BY DEF NewAgent
  <2>2. cmd.pc = "test" /\ ~(a >= cmd.next)
    BY <2>1 DEF TestInv, ControlInv
  <2>3. DOMAIN scouts = {}
    BY <2>2 DEF TestInv, ControlInv
  <2> QED BY <2>2, <2>3 DEF TestInv, TypeInv
<1>2. /\ UNCHANGED <<cmd, originals, symbolFiles, scouts, byFile, byName, torn, touched, started>>
      /\ DOMAIN agents' = DOMAIN agents
  BY DEF AgentOnly, symbolVars, runVars
<1>3. TypeInv'
  BY <1>1, <1>2 DEF AgentOnly, TypeInv
<1>4. ControlInv'
  BY <1>1, <1>2 DEF TestInv, ControlInv, AgentOnly
<1>5. (\A p \in Paths : FileOK(p)') /\ (\A p \in DOMAIN scouts' : ScoutOK(p)') /\ IndexInv'
  BY <1>1, <1>2 DEF TestInv, FileOK, IsSaving, IndexInv
<1>6. Aims \subseteq Aims' /\ \A p \in Paths : disk'[p] # disk[p] => p \in Aims'
  <2>1. \A b \in DOMAIN agents : agents[b].report # NoReport /\ agents[b].result # "skipped" =>
          /\ agents'[b].report = agents[b].report /\ agents'[b].result # "skipped"
    BY DEF AgentOnly
  <2>2. Aims \subseteq Aims'
    BY <1>2, <2>1 DEF Aims
  <2>3. \A p \in Paths : disk'[p] # disk[p] => p \in Aims'
    BY <1>2 DEF AgentOnly, Aims
  <2> QED BY <2>2, <2>3
<1>7. KeptInv'
  <2>1. ASSUME NEW p \in Paths PROVE KeptOK(p)'
    <3>1. KeptOK(p)
      BY <1>1 DEF TestInv, KeptInv
    <3> QED BY <1>1, <1>2, <1>6, <3>1 DEF KeptOK
  <2> QED BY <2>1 DEF KeptInv
<1>8. ASSUME NEW b \in DOMAIN agents \ {a} PROVE AgentOK(b)'
  <2>1. AgentOK(b) /\ agents'[b] = agents[b] /\ File(b)' = File(b) /\ written \subseteq written'
    BY <1>2 DEF TestInv, AgentsInv, AgentOnly, File
  <2>2. (agents[b].pc \in {"report", "saving"} \/ agents[b].result = "succeeded") /\ IsAlone(b)'
           => disk'[agents[b].report.path] = agents[b].report.test
    <3>1. agents[b].pc \in {"report", "saving"} \/ agents[b].result = "succeeded" => agents[b].report # NoReport
      BY <2>1 DEF AgentOK
    <3> QED BY <1>1, <2>1, <3>1, OthersTests
  <2> QED BY <1>2, <2>1, <2>2 DEF AgentOK
<1>9. AgentsInv'
  BY <1>2, <1>8 DEF AgentsInv
<1> QED BY <1>3, <1>4, <1>5, <1>7, <1>9 DEF TestInv

\* What the invariant says of a test agent about to move.
AgentHere(a) ==
  /\ agents \in [DOMAIN agents -> Agent] /\ agents[a] \in Agent /\ AgentOK(a) /\ File(a) \in Paths
  /\ disk \in [Paths -> Contents] /\ written \subseteq Paths \X Contents
  /\ reports \in [Paths -> Report \cup {NoReport}] /\ cache \in [Paths -> Report \cup {NoReport}]
  /\ ReportsInv

LEMMA AgentIsHere ==
  ASSUME TestInv, NEW a \in DOMAIN agents
  PROVE  AgentHere(a)
<1>1. DOMAIN agents = DOMAIN cmd.targets /\ cmd.targets \in Seq(Paths)
  BY DEF TestInv, TypeInv, Run
<1>2. File(a) \in Paths
  BY <1>1 DEF File
<1> QED BY <1>1, <1>2 DEF TestInv, TypeInv, AgentsInv, AgentHere

LEMMA ReportsStay ==
  ASSUME ReportsInv, written \subseteq written', UNCHANGED <<reports, cache>>
  PROVE  ReportsInv'
  BY DEF ReportsInv, HaveTests

\* A panic, whatever the step was about to do.
LEMMA Fails ==
  ASSUME TestInv, NEW a \in DOMAIN agents, agents[a].pc \notin {"new", "done"}, Failing(a),
         UNCHANGED <<disk, reports, cache, written>>, KeepRun
  PROVE  TestInv'
<1>1. AgentHere(a)
  BY AgentIsHere
<1>2. /\ agents'[a] = [agents[a] EXCEPT !.pc = "done", !.result = "failed"] /\ agents'[a] \in Agent
      /\ agents' \in [DOMAIN agents -> Agent] /\ \A b \in DOMAIN agents \ {a} : agents'[b] = agents[b]
  BY <1>1 DEF Failing, AgentHere, Agent
<1>3. agents'[a].pc = "done" /\ agents'[a].result = "failed" /\ agents'[a].report = agents[a].report
  BY <1>1, <1>2 DEF AgentHere, Agent
<1>4. AgentOnly(a)
  BY <1>1, <1>2, <1>3 DEF AgentOnly, KeepRun, AgentHere
<1>5. AgentOK(a)'
  BY <1>3 DEF AgentOK
<1>6. ReportsInv'
  BY <1>1, ReportsStay DEF AgentHere
<1> QED BY <1>4, <1>5, <1>6, AgentFrame

LEMMA LaunchInv == ASSUME TestInv, Launch PROVE TestInv'
<1> DEFINE a == cmd.next
<1>1. /\ cmd.pc = "test" /\ TypeInv /\ cmd.next \in Nat /\ DOMAIN agents = DOMAIN cmd.targets
      /\ cmd' = [cmd EXCEPT !.next = cmd.next + 1] /\ agents' = [agents EXCEPT ![a].pc = "read"]
      /\ UNCHANGED <<disk, symbolVars, reports, cache, written, touched, runVars>>
  BY DEF Launch, TestInv, TypeInv, Run
<1>2. /\ UNCHANGED <<originals, symbolFiles, scouts, byFile, byName, torn, started>> /\ DOMAIN scouts = {}
  BY <1>1 DEF symbolVars, runVars, TestInv, ControlInv
<1>3. cmd' \in Run /\ cmd'.pc = "test" /\ cmd'.targets = cmd.targets /\ cmd'.next = cmd.next + 1
  <2>1. cmd \in Run /\ cmd.pc = "test" /\ cmd.next + 1 \in Nat
    BY <1>1 DEF TypeInv
  <2>2. cmd' = [pc |-> cmd.pc, force |-> cmd.force, symbols |-> cmd.symbols, concurrent |-> cmd.concurrent,
                targets |-> cmd.targets, next |-> cmd.next + 1]
    BY <1>1, <2>1 DEF Run
  <2> QED BY <2>1, <2>2 DEF Run
<1>4. a \in DOMAIN agents => agents[a] = NewAgent
  BY <1>1 DEF TestInv, ControlInv
<1> HIDE DEF a
<1>5. /\ agents' \in [DOMAIN agents -> Agent] /\ \A b \in DOMAIN agents \ {a} : agents'[b] = agents[b]
      /\ a \in DOMAIN agents => agents'[a] = [NewAgent EXCEPT !.pc = "read"]
  <2>1. agents \in [DOMAIN agents -> Agent] /\ agents' = [agents EXCEPT ![a].pc = "read"]
    BY <1>1 DEF TypeInv
  <2>2. \A b \in DOMAIN agents : [agents[b] EXCEPT !.pc = "read"] \in Agent
    BY <2>1 DEF Agent
  <2> QED BY <1>4, <2>1, <2>2
<1>6. \A b \in DOMAIN agents : agents'[b].report = agents[b].report /\ agents'[b].result = agents[b].result
  BY <1>4, <1>5 DEF NewAgent
<1>7. TypeInv'
  BY <1>1, <1>2, <1>3, <1>5 DEF TypeInv
<1>8. ControlInv'
  <2>1. ASSUME NEW b \in DOMAIN agents', b >= cmd'.next PROVE agents'[b] = NewAgent
    <3>1. b \in DOMAIN cmd.targets /\ cmd.targets \in Seq(Paths)
      BY <1>1, <1>5 DEF TypeInv, Run
    <3>2. b # a /\ b >= cmd.next /\ b \in DOMAIN agents
      BY <1>1, <1>3, <2>1, <3>1 DEF a
    <3> QED BY <1>5, <3>2 DEF TestInv, ControlInv
  <2> QED BY <1>2, <1>3, <2>1 DEF ControlInv
<1>9. (\A p \in Paths : FileOK(p)') /\ (\A p \in DOMAIN scouts' : ScoutOK(p)') /\ IndexInv' /\ ReportsInv'
  BY <1>1, <1>2 DEF TestInv, FileOK, IsSaving, IndexInv, ReportsInv, HaveTests
<1>10. Aims' = Aims
  BY <1>5, <1>6 DEF Aims
<1>11. KeptInv'
  BY <1>1, <1>2, <1>10 DEF TestInv, KeptInv, KeptOK
<1>12. ASSUME NEW b \in DOMAIN agents' PROVE AgentOK(b)'
  <2>1. b \in DOMAIN agents /\ AgentOK(b) /\ File(b)' = File(b)
    BY <1>3, <1>5 DEF TestInv, AgentsInv, File
  <2>2. CASE b = a
    BY <1>4, <1>5, <2>1, <2>2 DEF AgentOK, NewAgent
  <2>3. CASE b # a
    <3>1. agents'[b] = agents[b] /\ (IsAlone(b)' => IsAlone(b))
      BY <1>1, <1>5, <1>6, <2>1, <2>3 DEF IsAlone
    <3>2. UNCHANGED <<disk, written, byFile>>
      BY <1>1, <1>2
    <3>3. (agents[b].pc \in {"report", "saving"} \/ agents[b].result = "succeeded") /\ IsAlone(b)'
             => disk'[agents[b].report.path] = agents[b].report.test
      BY <2>1, <3>1, <3>2 DEF AgentOK
    <3> QED BY <2>1, <3>1, <3>2, <3>3 DEF AgentOK
  <2> QED BY <2>2, <2>3
<1> QED BY <1>7, <1>8, <1>9, <1>11, <1>12 DEF TestInv, AgentsInv

LEMMA ReadCodeInv == ASSUME TestInv, NEW a \in DOMAIN agents, ReadCode(a) PROVE TestInv'
<1>1. /\ agents[a].pc = "read" /\ UNCHANGED <<disk, reports, cache, written>> /\ KeepRun /\ AgentHere(a)
  BY AgentIsHere DEF ReadCode, At
<1>2. CASE Failing(a)
  BY <1>1, <1>2, Fails
<1>3. CASE agents' = [agents EXCEPT ![a].pc = "load", ![a].code = disk[File(a)]]
  <2>1. /\ agents'[a].pc = "load" /\ agents'[a].report = agents[a].report
        /\ agents'[a].result = agents[a].result /\ agents'[a].names = agents[a].names
        /\ agents' \in [DOMAIN agents -> Agent] /\ \A b \in DOMAIN agents \ {a} : agents'[b] = agents[b]
    BY <1>1, <1>3 DEF AgentHere, Agent
  <2>2. agents[a].report = NoReport /\ agents[a].result = "none" /\ agents[a].names = {}
    BY <1>1 DEF AgentHere, AgentOK, Agent
  <2>3. AgentOnly(a) /\ AgentOK(a)'
    BY <1>1, <2>1, <2>2 DEF AgentOnly, KeepRun, AgentHere, AgentOK
  <2> QED BY <1>1, <2>3, AgentFrame, ReportsStay DEF AgentHere
<1> QED BY <1>2, <1>3 DEF ReadCode

LEMMA LoadReportInv == ASSUME TestInv, NEW a \in DOMAIN agents, LoadReport(a) PROVE TestInv'
<1> DEFINE last == LastReport(File(a))
<1>1. /\ agents[a].pc = "load" /\ UNCHANGED <<disk, reports, written>> /\ KeepRun /\ AgentHere(a)
      /\ cache' = [cache EXCEPT ![File(a)] = last]
  BY AgentIsHere DEF LoadReport, At
<1>2. last \in Report \cup {NoReport} /\ HaveTests(File(a), last)
  BY <1>1 DEF LastReport, AgentHere, ReportsInv
<1>3. agents[a].report = NoReport /\ agents[a].result = "none" /\ agents[a].names = {} /\ UNCHANGED cmd
  BY <1>1 DEF AgentHere, AgentOK, Agent, KeepRun
<1>4. ReportsInv' /\ cache' \in [Paths -> Report \cup {NoReport}]
  BY <1>1, <1>2 DEF AgentHere, ReportsInv, HaveTests
<1>5. CASE UpToDate(agents[a].code, last)
  <2>1. agents' = [agents EXCEPT ![a].pc = "done", ![a].result = "skipped", ![a].report = last]
    BY <1>5 DEF LoadReport
  <2>2. last # NoReport /\ agents[a].code = last.code
    BY <1>5 DEF UpToDate
  <2> HIDE DEF last
  <2>3. /\ agents'[a].pc = "done" /\ agents'[a].result = "skipped" /\ agents'[a].code = agents[a].code
        /\ agents' \in [DOMAIN agents -> Agent] /\ \A b \in DOMAIN agents \ {a} : agents'[b] = agents[b]
    BY <1>1, <1>2, <2>1 DEF AgentHere, Agent
  <2>4. AgentOnly(a)
    BY <1>1, <1>3, <1>4, <2>3 DEF AgentOnly, KeepRun, AgentHere
  <2>5. <<File(a), agents[a].code>> \in written
    BY <1>2, <2>2 DEF HaveTests
  <2>6. AgentOK(a)'
    BY <1>1, <1>3, <2>3, <2>5 DEF AgentOK, File
  <2> QED BY <1>1, <1>4, <2>4, <2>6, AgentFrame
<1>6. CASE ~UpToDate(agents[a].code, last)
  <2>1. PICK pc \in {"ask", "generate"} :
          /\ agents' = [agents EXCEPT ![a].pc = pc]
          /\ pc = "generate" => ~cmd.symbols
    BY <1>6 DEF LoadReport
  <2> HIDE DEF last
  <2>2. /\ agents'[a].pc = pc /\ agents'[a].report = NoReport /\ agents'[a].result = "none"
        /\ agents'[a].names = {}
        /\ agents' \in [DOMAIN agents -> Agent] /\ \A b \in DOMAIN agents \ {a} : agents'[b] = agents[b]
    BY <1>1, <1>3, <2>1 DEF AgentHere, Agent
  <2>3. AgentOnly(a)
    BY <1>1, <1>3, <1>4, <2>2 DEF AgentOnly, KeepRun, AgentHere
  <2>4. AgentOK(a)'
    BY <1>1, <1>3, <2>2 DEF AgentOK, AgentHere
  <2> QED BY <1>1, <1>4, <2>3, <2>4, AgentFrame
<1> QED BY <1>5, <1>6

LEMMA ProvideSymbolsInv == ASSUME TestInv, NEW a \in DOMAIN agents, ProvideSymbols(a) PROVE TestInv'
<1>1. /\ agents[a].pc = "ask" /\ UNCHANGED <<disk, reports, cache, written>> /\ KeepRun /\ AgentHere(a)
  BY AgentIsHere DEF ProvideSymbols, At
<1>2. CASE Failing(a)
  BY <1>1, <1>2, Fails
<1>3. ASSUME NEW names \in SUBSET Names,
             agents' = [agents EXCEPT ![a].pc = "generate", ![a].names = names,
                                      ![a].given = Lookup(names, File(a))]
      PROVE  TestInv'
  <2> DEFINE given == Lookup(names, File(a))
  <2>1. given \in SUBSET Symbol
    BY DEF Lookup, TestInv, TypeInv
  <2>2. ASSUME NEW p \in Paths, p # File(a), byFile[p] # NoSymbols
        PROVE  {s \in byFile[p] : s.name \in names} \subseteq given
    <3>1. byFile[p] \in SymbolsOf(p) /\ \A s \in byFile[p] : s \in byName[s.name]
      BY <2>2 DEF TestInv, TypeInv, IndexInv
    <3> QED BY <2>2, <3>1 DEF Lookup, SymbolsOf
  <2>3. agents' = [agents EXCEPT ![a].pc = "generate", ![a].names = names, ![a].given = given]
    BY <1>3
  <2> HIDE DEF given
  <2>4. agents[a].report = NoReport /\ agents[a].result = "none"
    BY <1>1 DEF AgentHere, AgentOK, Agent
  <2>5. /\ agents'[a].pc = "generate" /\ agents'[a].report = NoReport /\ agents'[a].result = "none"
        /\ agents'[a].names = names /\ agents'[a].given = given
        /\ agents' \in [DOMAIN agents -> Agent] /\ \A b \in DOMAIN agents \ {a} : agents'[b] = agents[b]
    BY <1>1, <2>1, <2>3, <2>4 DEF AgentHere, Agent
  <2>6. AgentOnly(a)
    BY <1>1, <2>4, <2>5 DEF AgentOnly, KeepRun, AgentHere
  <2>7. AgentOK(a)'
    <3>1. UNCHANGED <<cmd, byFile>>
      BY <1>1 DEF KeepRun, symbolVars
    <3> QED BY <2>2, <2>5, <3>1 DEF AgentOK, File
  <2> QED BY <1>1, <2>6, <2>7, AgentFrame, ReportsStay DEF AgentHere
<1> QED BY <1>2, <1>3 DEF ProvideSymbols

LEMMA GenerateInv == ASSUME TestInv, NEW a \in DOMAIN agents, Generate(a) PROVE TestInv'
<1>1. /\ agents[a].pc = "generate" /\ UNCHANGED <<reports, cache, written>> /\ KeepRun /\ AgentHere(a)
  BY AgentIsHere DEF Generate, At
<1>2. CASE Failing(a) /\ UNCHANGED disk
  BY <1>1, <1>2, Fails
<1>3. ASSUME NEW path \in Paths, NEW test \in Tests, Generated(a, path, test, "write"),
             disk' = [disk EXCEPT ![path] = Empty]
      PROVE  TestInv'
  <2> DEFINE report == [code |-> agents[a].code, path |-> path, test |-> test]
  <2>1. agents' = [agents EXCEPT ![a] = [agents[a] EXCEPT !.pc = "write", !.names = {}, !.given = {},
                                           !.report = report]]
    BY <1>3 DEF Generated
  <2>2. report \in Report /\ report.path = path
    BY <1>1 DEF AgentHere, Agent, Report
  <2>3. report # NoReport /\ Empty \in Contents
    BY <2>2, ReportAssumption DEF Contents
  <2> HIDE DEF report
  <2>4. agents[a].report = NoReport /\ agents[a].result = "none"
    BY <1>1 DEF AgentHere, AgentOK, Agent
  <2>5. /\ agents'[a].pc = "write" /\ agents'[a].report = report /\ agents'[a].result = "none"
        /\ agents' \in [DOMAIN agents -> Agent] /\ \A b \in DOMAIN agents \ {a} : agents'[b] = agents[b]
    BY <1>1, <2>1, <2>2, <2>4 DEF AgentHere, Agent
  <2>6. disk' \in [Paths -> Contents] /\ \A p \in Paths : disk'[p] # disk[p] => p = path
    BY <1>1, <1>3, <2>3 DEF AgentHere
  <2>7. AgentOnly(a)
    BY <1>1, <2>2, <2>3, <2>4, <2>5, <2>6 DEF AgentOnly, KeepRun, AgentHere
  <2>8. AgentOK(a)'
    BY <2>3, <2>5 DEF AgentOK
  <2> QED BY <1>1, <2>7, <2>8, AgentFrame, ReportsStay DEF AgentHere
<1> QED BY <1>2, <1>3 DEF Generate

LEMMA WriteTestInv == ASSUME TestInv, NEW a \in DOMAIN agents, WriteTest(a) PROVE TestInv'
<1> DEFINE report == agents[a].report
<1>1. /\ agents[a].pc = "write" /\ UNCHANGED <<reports, cache>> /\ KeepRun /\ AgentHere(a)
  BY AgentIsHere DEF WriteTest, At
<1>2. CASE Failing(a) /\ UNCHANGED <<disk, written>>
  BY <1>1, <1>2, Fails
<1>3. ASSUME disk' = [disk EXCEPT ![report.path] = report.test], Goto(a, "report"),
             written' = written \cup {<<File(a), report.code>>}
      PROVE  TestInv'
  <2>1. report \in Report /\ report # NoReport /\ agents[a].result = "none"
    BY <1>1 DEF AgentHere, AgentOK, Agent
  <2>2. report.path \in Paths /\ report.test \in Contents /\ report.code \in Contents
    BY <2>1, TestAssumption DEF Report, Contents
  <2>3. /\ agents'[a].pc = "report" /\ agents'[a].report = report /\ agents'[a].result = "none"
        /\ agents' \in [DOMAIN agents -> Agent] /\ \A b \in DOMAIN agents \ {a} : agents'[b] = agents[b]
    BY <1>1, <1>3, <2>1 DEF AgentHere, Agent, Goto
  <2> HIDE DEF report
  <2>4. /\ disk' \in [Paths -> Contents] /\ disk'[report.path] = report.test
        /\ \A p \in Paths : disk'[p] # disk[p] => p = report.path
    BY <1>1, <1>3, <2>2 DEF AgentHere
  <2>5. /\ written \subseteq written' /\ written' \subseteq Paths \X Contents
        /\ <<File(a), report.code>> \in written'
    BY <1>1, <1>3, <2>2 DEF AgentHere
  <2>6. AgentOnly(a)
    <3>1. UNCHANGED <<cmd, symbolVars, touched, runVars>> /\ agents[a].report = report
      BY <1>1 DEF KeepRun, report
    <3> QED BY <1>1, <2>1, <2>3, <2>4, <2>5, <3>1 DEF AgentOnly, AgentHere
  <2>7. AgentOK(a)'
    <3>1. File(a)' = File(a)
      BY <1>1 DEF KeepRun, File
    <3> QED BY <2>1, <2>3, <2>4, <2>5, <3>1 DEF AgentOK
  <2> QED BY <1>1, <2>5, <2>6, <2>7, AgentFrame, ReportsStay DEF AgentHere
<1> QED BY <1>2, <1>3 DEF WriteTest

\* SaveReport and WriteReport: what goes to the map and to the file is the
\* report of tests that are there.
LEMMA SaveInv ==
  ASSUME TestInv, NEW a \in DOMAIN agents, SaveReport(a) \/ WriteReport(a)
  PROVE  TestInv'
<1> DEFINE report == agents[a].report
<1>1. /\ agents[a].pc \in {"report", "saving"} /\ UNCHANGED <<disk, written>> /\ KeepRun /\ AgentHere(a)
  BY AgentIsHere DEF SaveReport, WriteReport, At
<1>2. /\ report \in Report /\ report # NoReport /\ agents[a].result = "none"
      /\ <<File(a), report.code>> \in written
  BY <1>1 DEF AgentHere, AgentOK, Agent
<1>3. PICK pc \in {"saving", "done"} :
        agents' = IF pc = "saving" THEN [agents EXCEPT ![a].pc = "saving"]
                  ELSE [agents EXCEPT ![a].pc = "done", ![a].result = "succeeded"]
  BY DEF SaveReport, WriteReport, Goto
<1>4. /\ agents'[a].pc = pc /\ agents'[a].report = report
      /\ agents'[a].result = IF pc = "done" THEN "succeeded" ELSE "none"
      /\ agents' \in [DOMAIN agents -> Agent] /\ \A b \in DOMAIN agents \ {a} : agents'[b] = agents[b]
  BY <1>1, <1>2, <1>3 DEF AgentHere, Agent
<1>5. \E saved \in {report, NoReport, reports[File(a)]} : reports' = [reports EXCEPT ![File(a)] = saved]
  BY <1>1 DEF SaveReport, WriteReport, AgentHere
<1>6. \E kept \in {report, cache[File(a)]} : cache' = [cache EXCEPT ![File(a)] = kept]
  BY <1>1 DEF SaveReport, WriteReport, AgentHere
<1> HIDE DEF report
<1>7. /\ ReportsInv' /\ reports' \in [Paths -> Report \cup {NoReport}]
      /\ cache' \in [Paths -> Report \cup {NoReport}]
  <2>1. PICK saved \in {report, NoReport, reports[File(a)]} : reports' = [reports EXCEPT ![File(a)] = saved]
    BY <1>5
  <2>2. PICK kept \in {report, cache[File(a)]} : cache' = [cache EXCEPT ![File(a)] = kept]
    BY <1>6
  <2>3. saved \in Report \cup {NoReport} /\ HaveTests(File(a), saved)
    BY <1>1, <1>2, <2>1 DEF AgentHere, ReportsInv, HaveTests
  <2>4. kept \in Report \cup {NoReport} /\ HaveTests(File(a), kept)
    BY <1>1, <1>2, <2>2 DEF AgentHere, ReportsInv, HaveTests
  <2>5. reports' \in [Paths -> Report \cup {NoReport}] /\ cache' \in [Paths -> Report \cup {NoReport}]
    BY <1>1, <2>1, <2>2, <2>3, <2>4 DEF AgentHere
  <2>6. \A p \in Paths : /\ reports'[p] = IF p = File(a) THEN saved ELSE reports[p]
                         /\ cache'[p] = IF p = File(a) THEN kept ELSE cache[p]
    BY <1>1, <2>1, <2>2 DEF AgentHere
  <2> QED BY <1>1, <2>3, <2>4, <2>5, <2>6 DEF AgentHere, ReportsInv, HaveTests
<1>8. AgentOnly(a)
  <2>1. UNCHANGED <<cmd, symbolVars, touched, runVars>> /\ agents[a].report = report
    BY <1>1 DEF KeepRun, report
  <2> QED BY <1>1, <1>4, <1>7, <2>1 DEF AgentOnly, AgentHere
<1>9. AgentOK(a)'
  <2>1. UNCHANGED <<cmd, touched>> /\ agents[a].report = report /\ DOMAIN agents' = DOMAIN agents
    BY <1>1, <1>4 DEF KeepRun, report
  <2>2. IsAlone(a)' => IsAlone(a)
    BY <1>4, <2>1 DEF IsAlone
  <2>3. IsAlone(a)' => disk'[report.path] = report.test
    BY <1>1, <2>1, <2>2 DEF AgentHere, AgentOK
  <2> QED BY <1>1, <1>2, <1>3, <1>4, <2>1, <2>3 DEF AgentOK, File
<1> QED BY <1>1, <1>7, <1>8, <1>9, AgentFrame

-----------------------------------------------------------------------------

LEMMA EditInv ==
  ASSUME TestInv, NEW p \in Paths, NEW text \in (Texts \ Tests) \cup {Absent}, Edit(p, text)
  PROVE  TestInv'
<1>1. /\ UNCHANGED <<cmd, originals, symbolFiles, scouts, byFile, byName, torn, agents, cache, reports,
                     written>>
      /\ disk' = [disk EXCEPT ![p] = text] /\ TypeInv /\ text \in Contents
  BY DEF Edit, symbolVars, testVars, TestInv, Contents
<1>2. /\ disk' \in [Paths -> Contents] /\ \A q \in Paths \ {p} : disk'[q] = disk[q]
  BY <1>1 DEF TypeInv
<1>3. (\A q \in Paths : FileOK(q)') /\ (\A q \in DOMAIN scouts' : ScoutOK(q)') /\ IndexInv' /\ ReportsInv'
  <2>1. \A q \in Paths : FileOK(q)'
    BY <1>1 DEF TestInv, FileOK, IsSaving
  <2>2. ASSUME NEW q \in DOMAIN scouts' PROVE ScoutOK(q)'
    BY <1>1 DEF TestInv, ScoutOK
  <2> QED BY <1>1, <2>1, <2>2 DEF TestInv, IndexInv, ReportsInv, HaveTests
<1>4. Aims' = Aims
  BY <1>1 DEF Aims
<1>5. CASE cmd.pc = "idle"
  <2>1. started' = disk' /\ touched' = touched
    BY <1>5 DEF Edit
  <2>2. TypeInv'
    BY <1>1, <1>2, <2>1 DEF TypeInv
  <2>3. ControlInv' /\ KeptInv'
    BY <1>1, <1>5, <2>1 DEF TestInv, ControlInv, KeptInv
  <2>4. AgentsInv'
    <3>1. \A a \in DOMAIN agents' : agents'[a] = NewAgent
      BY <1>1, <1>5, NobodyTests
    <3> QED BY <3>1 DEF AgentsInv, AgentOK, NewAgent
  <2> QED BY <1>3, <2>2, <2>3, <2>4 DEF TestInv
<1>6. CASE cmd.pc # "idle"
  <2>1. started' = started /\ touched' = touched \cup {p}
    BY <1>6 DEF Edit
  <2>2. TypeInv'
    BY <1>1, <1>2, <2>1 DEF TypeInv
  <2>3. ControlInv'
    BY <1>1, <1>6 DEF TestInv, ControlInv
  <2>4. KeptInv'
    <3>1. ASSUME NEW q \in Paths PROVE KeptOK(q)'
      <4>1. KeptOK(q)
        BY <1>6 DEF TestInv, KeptInv
      <4>2. CASE q = p
        BY <2>1, <4>2 DEF KeptOK
      <4>3. CASE q # p
        BY <1>1, <1>2, <1>4, <2>1, <4>1, <4>3 DEF KeptOK
      <4> QED BY <4>2, <4>3
    <3> QED BY <3>1 DEF KeptInv
  <2>5. ASSUME NEW a \in DOMAIN agents' PROVE AgentOK(a)'
    <3>1. a \in DOMAIN agents /\ AgentOK(a) /\ File(a)' = File(a) /\ agents[a] \in Agent
      BY <1>1 DEF TestInv, AgentsInv, File, TypeInv
    <3>2. IsAlone(a)' => IsAlone(a) /\ agents[a].report.path # p
      BY <1>1, <2>1 DEF IsAlone
    <3>3. agents[a].report # NoReport => agents[a].report.path \in Paths
      BY <3>1 DEF Agent, Report
    <3>4. (agents[a].pc \in {"report", "saving"} \/ agents[a].result = "succeeded") /\ IsAlone(a)'
            => disk'[agents[a].report.path] = agents[a].report.test
      BY <1>2, <3>1, <3>2, <3>3 DEF AgentOK
    <3> QED BY <1>1, <3>1, <3>4 DEF AgentOK
  <2> QED BY <1>3, <2>2, <2>3, <2>4, <2>5 DEF TestInv, AgentsInv
<1> QED BY <1>5, <1>6

-----------------------------------------------------------------------------

LEMMA InitInv == Init => TestInv
<1> SUFFICES ASSUME Init PROVE TestInv
  OBVIOUS
<1>1. /\ disk \in [Paths -> Contents] /\ started = disk /\ cmd = NoRun
      /\ DOMAIN scouts = {} /\ DOMAIN agents = {} /\ agents = <<>>
      /\ touched = {} /\ written = {} /\ torn = {}
  BY TestAssumption DEF Init, Contents
<1>2. /\ originals = [p \in Paths |-> Absent] /\ symbolFiles = [p \in Paths |-> NoSymbols]
      /\ reports = [p \in Paths |-> NoReport] /\ cache = [p \in Paths |-> NoReport]
      /\ byFile = [p \in Paths |-> NoSymbols] /\ byName = [n \in Names |-> {}]
  BY DEF Init
<1>3. NoRun \in Run /\ NoRun.pc = "idle" /\ NoRun.targets = <<>>
  <2>1. <<>> \in Seq(Paths)
    OBVIOUS
  <2> QED BY <2>1 DEF NoRun, Run
<1>4. TypeInv
  BY <1>1, <1>2, <1>3 DEF TypeInv, Contents
<1>5. ControlInv /\ KeptInv /\ AgentsInv /\ ReportsInv /\ IndexInv
  BY <1>1, <1>2, <1>3 DEF ControlInv, KeptInv, AgentsInv, ReportsInv, HaveTests, IndexInv
<1>6. \A p \in Paths : FileOK(p)
  BY <1>2 DEF FileOK
<1> QED BY <1>1, <1>4, <1>5, <1>6 DEF TestInv

LEMMA NextInv == TestInv /\ [Next]_vars => TestInv'
<1> SUFFICES ASSUME TestInv, [Next]_vars PROVE TestInv'
  OBVIOUS
<1>1. ASSUME NEW i \in Invocations, Invoke(i) PROVE TestInv'
  BY <1>1, InvokeInv
<1>2. CASE LoadAll \/ ScoutsDone \/ Launch
  BY <1>2, LoadAllInv, ScoutsDoneInv, LaunchInv
<1>3. CASE Finish \/ Interrupt
  BY <1>3, LeaveInv DEF Finish, Interrupt
<1>4. ASSUME NEW p \in DOMAIN scouts, ScoutStep(p) PROVE TestInv'
  BY <1>4, LoadCodeInv, ExtractInv, WriteSymbolsInv, SaveCodeFailsInv, CodeInv, SaveOriginalInv DEF ScoutStep
<1>5. ASSUME NEW a \in DOMAIN agents, AgentStep(a) PROVE TestInv'
  BY <1>5, ReadCodeInv, LoadReportInv, ProvideSymbolsInv, GenerateInv, WriteTestInv, SaveInv DEF AgentStep
<1>6. ASSUME NEW p \in Edited, NEW text \in (Texts \ Tests) \cup {Absent}, Edit(p, text) PROVE TestInv'
  BY <1>6, EditInv, TestAssumption
<1>7. CASE UNCHANGED vars
  <2>1. UNCHANGED <<cmd, originals, symbolFiles, scouts, byFile, byName, torn, agents, cache, reports,
                    written, disk, started, touched>> /\ Aims' = Aims
    BY <1>7 DEF vars, Aims
  <2>2. TypeInv' /\ ControlInv' /\ IndexInv' /\ ReportsInv'
    BY <2>1 DEF TestInv, TypeInv, ControlInv, IndexInv, ReportsInv, HaveTests
  <2>3. (\A p \in Paths : FileOK(p)') /\ (\A p \in DOMAIN scouts' : ScoutOK(p)')
    BY <2>1 DEF TestInv, FileOK, ScoutOK, IsSaving
  <2>4. KeptInv'
    BY <2>1 DEF TestInv, KeptInv, KeptOK
  <2>5. ASSUME NEW a \in DOMAIN agents' PROVE AgentOK(a)'
    <3>1. AgentOK(a) /\ (IsAlone(a)' <=> IsAlone(a)) /\ File(a)' = File(a)
      BY <2>1 DEF TestInv, AgentsInv, IsAlone, File
    <3> QED BY <2>1, <3>1 DEF AgentOK
  <2> QED BY <2>2, <2>3, <2>4, <2>5 DEF TestInv, AgentsInv
<1> QED BY <1>1, <1>2, <1>3, <1>4, <1>5, <1>6, <1>7 DEF Next

LEMMA Invariance == Spec => []TestInv
BY InitInv, NextInv, PTL DEF Spec

\* Every variable keeps its type: among others the symbols of a file are of that
\* file, and those of a name of that name.
THEOREM TestTypeCorrect == Spec => []TypeOK
<1>1. TestInv => TypeOK
  <2> SUFFICES ASSUME TestInv PROVE TypeOK
    OBVIOUS
  <2>1. \A p \in DOMAIN scouts : scouts[p].latest \in Contents
    BY DEF TestInv, TypeInv, Scout
  <2>2. \A a \in DOMAIN agents : agents[a].result \in {"none", "failed", "skipped", "succeeded"}
    BY DEF TestInv, TypeInv, Agent
  <2>3. cmd.pc \in {"idle", "load", "symbols", "test"} /\ DOMAIN agents = DOMAIN cmd.targets
    BY DEF TestInv, TypeInv, Run
  <2> QED BY <2>1, <2>2, <2>3 DEF TestInv, TypeInv, TypeOK, Named
<1> QED BY <1>1, Invariance, PTL

\* No report of other code, and none of a run that was cut short before the tests
\* were there, makes a later run skip a file.
THEOREM SkippedHasTests == Spec => []SkipHasTests
<1>1. TestInv => SkipHasTests
  BY DEF TestInv, AgentsInv, AgentOK, SkipHasTests
<1> QED BY <1>1, Invariance, PTL

\* Cached symbols are those of the code: saving them and the copy of the code is
\* two steps, and only what is cut short or fails between them is excepted.
THEOREM SymbolsOfCode == Spec => []SymbolsAreOfCode
<1>1. TestInv => SymbolsAreOfCode
  BY DEF TestInv, ScoutOK, AreOf, SymbolsAreOfCode
<1> QED BY <1>1, Invariance, PTL

\* However many symbol agents write their files back at once, and whoever edits
\* them: no file is changed but those that are excepted.
THEOREM FilesKept == Spec => []FilesAreKept
<1>1. TestInv => FilesAreKept
  BY DEF TestInv, KeptInv, KeptOK, FilesAreKept
<1> QED BY <1>1, Invariance, PTL

\* Whatever was found by file before the test agents began is found by name.
THEOREM GivenComplete == Spec => []GivenIsComplete
<1>1. TestInv => GivenIsComplete
  BY DEF TestInv, AgentsInv, AgentOK, GivenIsComplete
<1> QED BY <1>1, Invariance, PTL

\* For any number of concurrent agents, whatever files the model names.
THEOREM TestsAreThere == Spec => []TestsAreWhereTheyAreSaid
<1>1. TestInv => TestsAreWhereTheyAreSaid
  BY DEF TestInv, AgentsInv, AgentOK, IsAlone, TestsAreWhereTheyAreSaid
<1> QED BY <1>1, Invariance, PTL
=============================================================================
