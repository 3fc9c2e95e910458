-------------------------- MODULE CheckCommandProofs --------------------------
(***************************************************************************)
(* Theorems about CheckCommand, for every list of targets, any faults,     *)
(* edits and interruptions. IInv is about what an agent knows of its file  *)
(* and carries the first three theorems. RunInv rests on it: how far the   *)
(* run is, how many results its agents have sent, and what an agent that   *)
(* is the only one at its file has made of it.                             *)
(***************************************************************************)
EXTENDS CheckCommand, FiniteSetTheorems, TLAPS

\* A report that says that there is nothing to fix in some code of f, in memory
\* or on disk, is the work of a model that was asked about that code of f.
Sound(f, report) ==
  report # NoReport /\ report.fixed = report.original => <<f, report.original>> \in clean

ReportsSound == \A f \in Files : Sound(f, saved[f]) /\ Sound(f, cache[f])

Resting == {"new", "done"}

AgentOK(a) ==
  /\ Sound(File(a), agents[a].report)
  /\ cmd.fix /\ agents[a].result = "skipped" => <<File(a), agents[a].code>> \in clean
  /\ agents[a].result = "skipped" => agents[a].pc \in {"send", "done"}
  /\ agents[a].pc = "send" => agents[a].result # "none"
  /\ agents[a].pc \in {"truncate", "write"} =>
       cmd.fix /\ agents[a].report.fixed \notin {Empty, agents[a].code}
  /\ agents[a].pc \in {"truncate", "write", "report", "saving"} => agents[a].report # NoReport
  /\ agents[a].pc \in {"load", "acquire", "chat", "truncate"} /\ Alone(a) /\ File(a) \notin touched =>
       disk[File(a)] = agents[a].code

AgentsOK == \A a \in DOMAIN agents : AgentOK(a)

\* Without --concurrent an agent is done before the next one is launched.
OneAtATime ==
  ~cmd.concurrent =>
    \A a, b \in DOMAIN agents : agents[a].pc \notin Resting /\ agents[b].pc \notin Resting => a = b

InOrder == \A a \in DOMAIN agents : a >= cmd.next => agents[a].pc = "new"

IInv == TypeOK /\ ReportsSound /\ AgentsOK /\ OneAtATime /\ InOrder

-----------------------------------------------------------------------------

LEMMA CheckedType ==
  ASSUME NEW code \in Codes, NEW issue \in BOOLEAN, NEW fixed \in Codes,
         NEW r, r = Checked(code, issue, fixed)
  PROVE  /\ r \in Report /\ r # NoReport /\ r.original = code
         /\ r.issue => r.fixed \notin {Empty, code}
         /\ ~r.issue => r.fixed = code
<1>1. CASE issue /\ fixed # code /\ fixed # Empty
  <2>1. r = [issue |-> TRUE, fixed |-> fixed, original |-> code]
    BY <1>1 DEF Checked
  <2>2. r \in Report /\ r.original = code
    BY <2>1 DEF Report
  <2>3. r.issue => r.fixed \notin {Empty, code}
    BY <2>1, <1>1
  <2>4. ~r.issue => r.fixed = code
    BY <2>1
  <2> QED
    BY <2>2, <2>3, <2>4, CheckAssumption
<1>2. CASE ~(issue /\ fixed # code /\ fixed # Empty)
  <2>1. r = [issue |-> FALSE, fixed |-> code, original |-> code]
    BY <1>2 DEF Checked
  <2>2. r \in Report /\ r.original = code
    BY <2>1 DEF Report
  <2>3. r.issue => r.fixed \notin {Empty, code}
    BY <2>1
  <2>4. ~r.issue => r.fixed = code
    BY <2>1
  <2> QED
    BY <2>2, <2>3, <2>4, CheckAssumption
<1> QED
  BY <1>1, <1>2

\* What a step of one agent leaves alone.
Only(a) ==
  /\ agents' \in [DOMAIN cmd.targets -> AgentType]
  /\ \A b \in DOMAIN agents : b # a => agents'[b] = agents[b]
  /\ clean \subseteq clean'
  /\ KeepRun

\* The other agents, when a makes a step that may overwrite its file.
LEMMA OtherAgents ==
  ASSUME IInv, NEW a \in DOMAIN agents, agents[a].pc \notin Resting, Only(a),
         \/ disk' = disk
         \/ \A f \in Files : f # File(a) => disk'[f] = disk[f]
  PROVE  OneAtATime' /\ \A b \in DOMAIN agents' : b # a => AgentOK(b)'
<1>1. cmd' = cmd /\ touched' = touched /\ DOMAIN agents' = DOMAIN agents
  BY DEF Only, KeepRun, IInv, TypeOK
<1>2. OneAtATime'
  BY <1>1 DEF OneAtATime, IInv, Only
<1>3. ASSUME NEW b \in DOMAIN agents', b # a
      PROVE  AgentOK(b)'
  <2>1. b \in DOMAIN agents /\ agents'[b] = agents[b] /\ AgentOK(b) /\ clean \subseteq clean'
    BY <1>1, <1>3 DEF Only, IInv, AgentsOK
  <2>2. File(b)' = File(b) /\ File(b) \in Files /\ Alone(b)' = Alone(b)
    BY <1>1, <2>1 DEF File, Alone, IInv, TypeOK, CmdType
  <2>3. agents[b].pc \notin Resting /\ Alone(b) => disk'[File(b)] = disk[File(b)]
    <3>1. CASE ~cmd.concurrent
      BY <1>3, <2>1, <3>1 DEF IInv, OneAtATime
    <3>2. CASE cmd.concurrent
      BY <1>3, <2>1, <2>2, <3>2 DEF Alone
    <3> QED
      BY <3>1, <3>2
  <2> QED
    BY <1>1, <2>1, <2>2, <2>3 DEF AgentOK, Sound, Resting
<1> QED
  BY <1>2, <1>3

LEMMA TargetType ==
  ASSUME TypeOK, NEW a \in DOMAIN agents
  PROVE  /\ a \in Nat /\ File(a) \in Files /\ DOMAIN agents = DOMAIN cmd.targets
         /\ agents[a] \in AgentType
  BY DEF TypeOK, CmdType, File

\* A step of a that changes it to `new' and touches neither the files nor the
\* reports.
Becomes(a, new) == agents' = [agents EXCEPT ![a] = new]

LEMMA AgentBecomes ==
  ASSUME TypeOK, NEW a \in DOMAIN agents, NEW new \in AgentType, Becomes(a, new),
         clean \subseteq clean', KeepRun
  PROVE  Only(a) /\ agents'[a] = new /\ File(a)' = File(a) /\ Alone(a)' = Alone(a)
<1>1. DOMAIN agents = DOMAIN cmd.targets /\ DOMAIN agents' = DOMAIN agents
  BY DEF TypeOK, Becomes
<1>2. Only(a) /\ agents'[a] = new
  BY <1>1 DEF TypeOK, Becomes, Only
<1> QED
  BY <1>1, <1>2 DEF KeepRun, File, Alone

LEMMA TypedStep ==
  ASSUME TypeOK, NEW a \in DOMAIN agents, Only(a),
         disk' \in [Files -> Codes], saved' \in [Files -> Report \cup {NoReport}],
         cache' \in [Files -> Report \cup {NoReport}], chatting' \in Nat,
         results' \in Seq(Result), clean' \subseteq Files \X Codes
  PROVE  TypeOK'
  BY DEF TypeOK, Only, KeepRun, gitVars

-----------------------------------------------------------------------------
(* The steps of an agent.                                                  *)

\* What a step has to show of the agent that makes it.
LEMMA AgentPreserves ==
  ASSUME IInv, NEW a \in DOMAIN agents, agents[a].pc \notin Resting,
         NEW new \in AgentType, Becomes(a, new), KeepRun,
         disk' \in [Files -> Codes], saved' \in [Files -> Report \cup {NoReport}],
         cache' \in [Files -> Report \cup {NoReport}], chatting' \in Nat,
         results' \in Seq(Result), clean \subseteq clean', clean' \subseteq Files \X Codes,
         \A f \in Files : f # File(a) => disk'[f] = disk[f],
         AgentOK(a)', ReportsSound'
  PROVE  IInv'
<1>1. TypeOK
  BY DEF IInv
<1>2. Only(a) /\ DOMAIN agents' = DOMAIN agents
  BY <1>1, AgentBecomes DEF Becomes
<1>3. TypeOK'
  BY <1>1, <1>2, TypedStep
<1>4. OneAtATime' /\ \A b \in DOMAIN agents' : b # a => AgentOK(b)'
  BY <1>2, OtherAgents
<1>5. InOrder'
  BY <1>2 DEF IInv, InOrder, Only, KeepRun, Resting
<1> QED
  BY <1>2, <1>3, <1>4, <1>5 DEF IInv, AgentsOK

\* A step that keeps what the agent has read and reported, and only moves it on.
LEMMA AgentMoves ==
  ASSUME IInv, NEW a \in DOMAIN agents, agents[a].pc \notin Resting,
         NEW pc \in AgentPC, NEW result \in Result \cup {"none"},
         Becomes(a, [agents[a] EXCEPT !.pc = pc, !.result = result]), KeepRun,
         disk' \in [Files -> Codes], saved' \in [Files -> Report \cup {NoReport}],
         cache' \in [Files -> Report \cup {NoReport}], chatting' \in Nat,
         results' \in Seq(Result), clean' = clean,
         \A f \in Files : f # File(a) => disk'[f] = disk[f],
         \/ result \in {"failed", "succeeded"}
         \/ result = agents[a].result /\ agents[a].result # "skipped"
         \/ result = agents[a].result /\ pc = "done",
         pc \in {"truncate", "write"} => agents[a].pc \in {"truncate", "write"},
         pc \in {"report", "saving"} => agents[a].pc \in {"truncate", "write", "report", "saving"},
         pc \in {"load", "acquire", "chat", "truncate"} =>
           disk' = disk /\ agents[a].pc \in {"load", "acquire", "chat", "truncate"},
         pc = "send" => result # "none",
         ReportsSound'
  PROVE  IInv'
<1> DEFINE new == [agents[a] EXCEPT !.pc = pc, !.result = result]
<1>1. TypeOK /\ agents[a] \in AgentType /\ AgentOK(a)
  BY TargetType DEF IInv, AgentsOK
<1>2. new \in AgentType
  BY <1>1 DEF AgentType
<1>3. /\ new.pc = pc /\ new.result = result
      /\ new.code = agents[a].code /\ new.report = agents[a].report
  BY <1>1 DEF AgentType
<1>4. Becomes(a, new)
  OBVIOUS
<1> HIDE DEF new
<1>5. agents'[a] = new /\ File(a)' = File(a) /\ Alone(a)' = Alone(a)
  BY <1>1, <1>2, <1>4, AgentBecomes
<1>6. cmd' = cmd /\ touched' = touched
  BY DEF KeepRun
<1>7. Sound(File(a), agents[a].report)'
  BY <1>1, <1>3, <1>5 DEF AgentOK, Sound
<1>8. /\ result = "skipped" => pc \in {"send", "done"}
      /\ cmd.fix /\ result = "skipped" => <<File(a), new.code>> \in clean
  BY <1>1, <1>3 DEF AgentOK
<1>9. pc \in {"truncate", "write"} => cmd.fix /\ new.report.fixed \notin {Empty, new.code}
  BY <1>1, <1>3 DEF AgentOK
<1>10. pc \in {"truncate", "write", "report", "saving"} => new.report # NoReport
  BY <1>1, <1>3 DEF AgentOK
<1>11. pc \in {"load", "acquire", "chat", "truncate"} /\ Alone(a) /\ File(a) \notin touched =>
         disk'[File(a)] = new.code
  BY <1>1, <1>3 DEF AgentOK
<1>12. AgentOK(a)'
  BY <1>3, <1>5, <1>6, <1>7, <1>8, <1>9, <1>10, <1>11 DEF AgentOK
<1>13. clean \subseteq clean' /\ clean' \subseteq Files \X Codes
  BY <1>1 DEF TypeOK
<1> QED
  BY <1>2, <1>4, <1>12, <1>13, AgentPreserves

\* What is true of an agent that is about to make a step.
LEMMA Before ==
  ASSUME IInv, NEW a \in DOMAIN agents
  PROVE  /\ TypeOK /\ ReportsSound /\ AgentOK(a) /\ agents[a] \in AgentType
         /\ a \in Nat /\ File(a) \in Files
         /\ disk \in [Files -> Codes] /\ saved \in [Files -> Report \cup {NoReport}]
         /\ cache \in [Files -> Report \cup {NoReport}] /\ chatting \in Nat
         /\ results \in Seq(Result) /\ clean \subseteq Files \X Codes
         /\ agents[a].pc \notin {"send", "done"} => agents[a].result # "skipped"
<1>1. AgentOK(a) /\ TypeOK
  BY DEF IInv, AgentsOK
<1>2. agents[a].pc \notin {"send", "done"} => agents[a].result # "skipped"
  BY <1>1 DEF AgentOK
<1> QED
  BY <1>1, <1>2, TargetType DEF IInv, TypeOK

LEMMA SameReports ==
  ASSUME IInv, UNCHANGED <<saved, cache>>, clean \subseteq clean' PROVE ReportsSound'
  BY DEF IInv, ReportsSound, Sound

\* Any panic.
LEMMA FailingStep ==
  ASSUME IInv, NEW a \in DOMAIN agents, agents[a].pc \notin Resting, Failing(a),
         chatting' \in Nat, UNCHANGED <<disk, saved, cache, results, clean>>, KeepRun
  PROVE  IInv'
<1>1. Becomes(a, [agents[a] EXCEPT !.pc = "send", !.result = "failed"])
  BY Before DEF Failing, Becomes, AgentType
<1>2. "send" \in AgentPC /\ "failed" \in Result \cup {"none"}
  BY DEF AgentPC, Result
<1>3. ReportsSound'
  BY SameReports
<1>4. /\ disk' \in [Files -> Codes] /\ saved' \in [Files -> Report \cup {NoReport}]
      /\ cache' \in [Files -> Report \cup {NoReport}] /\ results' \in Seq(Result)
      /\ \A f \in Files : f # File(a) => disk'[f] = disk[f]
  BY Before
<1> QED
  BY <1>1, <1>2, <1>3, <1>4, AgentMoves

LEMMA ReadCodeStep ==
  ASSUME IInv, NEW a \in DOMAIN agents, ReadCode(a) PROVE IInv'
<1>1. TypeOK /\ a \in Nat /\ File(a) \in Files /\ agents[a] \in AgentType /\ AgentOK(a)
  BY TargetType DEF IInv, AgentsOK
<1>2. agents[a].pc = "read" /\ KeepRun /\ UNCHANGED <<disk, saved, cache, chatting, results, clean>>
  BY DEF ReadCode, At
<1>3. ReportsSound' /\ agents[a].result # "skipped"
  <2>1. ReportsSound'
    BY <1>2 DEF IInv, ReportsSound, Sound
  <2>2. agents[a].result # "skipped"
    BY <1>1, <1>2 DEF AgentOK
  <2> QED
    BY <2>1, <2>2
<1>4. CASE agents' = [agents EXCEPT ![a].pc = "load", ![a].code = disk[File(a)]]
  <2> DEFINE new == [agents[a] EXCEPT !.pc = "load", !.code = disk[File(a)]]
  <2>1. Becomes(a, new) /\ new \in AgentType
    BY <1>1, <1>4 DEF Becomes, AgentType, AgentPC, TypeOK
  <2>2. agents'[a] = new /\ File(a)' = File(a) /\ Alone(a)' = Alone(a)
    BY <1>1, <1>2, <2>1, AgentBecomes
  <2>3. /\ new.pc = "load" /\ new.code = disk[File(a)]
        /\ new.report = agents[a].report /\ new.result = agents[a].result
    BY <1>1 DEF AgentType
  <2>4. cmd' = cmd /\ disk' = disk /\ clean' = clean
    BY <1>2 DEF KeepRun
  <2> HIDE DEF new
  <2>5. Sound(File(a), agents[a].report)'
    BY <1>1, <2>2, <2>3, <2>4 DEF AgentOK, Sound
  <2>6. agents'[a].result # "skipped"
    BY <1>3, <2>2, <2>3
  <2>7. AgentOK(a)'
    BY <2>2, <2>3, <2>4, <2>5, <2>6 DEF AgentOK
  <2> QED
    BY <1>1, <1>2, <1>3, <2>1, <2>7, AgentPreserves DEF Resting, TypeOK
<1>5. CASE Failing(a)
  BY <1>1, <1>2, <1>5, FailingStep DEF Resting, TypeOK
<1> QED
  BY <1>4, <1>5 DEF ReadCode

LEMMA AcquireStep ==
  ASSUME IInv, NEW a \in DOMAIN agents, Acquire(a) PROVE IInv'
<1>1. Becomes(a, [agents[a] EXCEPT !.pc = "chat", !.result = agents[a].result])
  BY Before DEF Acquire, Goto, Becomes, AgentType
<1>2. "chat" \in AgentPC /\ agents[a].result \in Result \cup {"none"}
  BY Before DEF AgentPC, AgentType
<1>3. agents[a].pc = "acquire" /\ KeepRun /\ chatting' = a
      /\ UNCHANGED <<disk, saved, cache, results, clean>>
  BY DEF Acquire, At
<1> QED
  BY <1>1, <1>2, <1>3, Before, SameReports, AgentMoves DEF Resting

LEMMA AnswerFailsStep ==
  ASSUME IInv, NEW a \in DOMAIN agents, AnswerFails(a) PROVE IInv'
  BY FailingStep DEF AnswerFails, At, Resting

LEMMA LoadReportStep ==
  ASSUME IInv, NEW a \in DOMAIN agents, LoadReport(a) PROVE IInv'
<1> DEFINE last == LastReport(File(a))
<1>1. /\ agents[a].pc = "load" /\ KeepRun
      /\ UNCHANGED <<disk, saved, chatting, results, clean>>
      /\ cache' = [cache EXCEPT ![File(a)] = last]
  BY DEF LoadReport, At
<1>2. last \in Report \cup {NoReport} /\ Sound(File(a), last)
  BY Before DEF LastReport, ReportsSound
<1>3. cache' \in [Files -> Report \cup {NoReport}] /\ ReportsSound'
  BY <1>1, <1>2, Before DEF ReportsSound, Sound
<1>4. CASE UpToDate(agents[a].code, last)
  <2> DEFINE new == [agents[a] EXCEPT !.pc = "send", !.result = "skipped", !.report = last]
  <2>1. Becomes(a, new) /\ new \in AgentType
    BY <1>2, <1>4, Before DEF LoadReport, Becomes, AgentType, AgentPC, Result
  <2>2. agents'[a] = new /\ File(a)' = File(a)
    BY <1>1, <2>1, Before, AgentBecomes
  <2>3. /\ new.pc = "send" /\ new.code = agents[a].code
        /\ new.report = last /\ new.result = "skipped"
    BY Before DEF AgentType
  <2>4. cmd' = cmd /\ clean' = clean
    BY <1>1 DEF KeepRun
  <2>5. cmd.fix => <<File(a), agents[a].code>> \in clean
    BY <1>2, <1>4 DEF UpToDate, Sound
  <2> HIDE DEF new, last
  <2>6. Sound(File(a), agents[a].report)'
    BY <1>2, <2>2, <2>3, <2>4 DEF Sound
  <2>7. AgentOK(a)'
    BY <2>2, <2>3, <2>4, <2>5, <2>6 DEF AgentOK
  <2> QED
    BY <1>1, <1>3, <2>1, <2>7, Before, AgentPreserves DEF Resting
<1>5. CASE ~UpToDate(agents[a].code, last)
  <2>1. Becomes(a, [agents[a] EXCEPT !.pc = "acquire", !.result = agents[a].result])
    BY <1>5, Before DEF LoadReport, Becomes, AgentType
  <2>2. "acquire" \in AgentPC /\ agents[a].result \in Result \cup {"none"}
    BY Before DEF AgentPC, AgentType
  <2> HIDE DEF last
  <2> QED
    BY <1>1, <1>3, <2>1, <2>2, Before, AgentMoves DEF Resting
<1> QED
  BY <1>4, <1>5

LEMMA TruncateStep ==
  ASSUME IInv, NEW a \in DOMAIN agents, Truncate(a) PROVE IInv'
<1>1. agents[a].pc = "truncate" /\ KeepRun /\ UNCHANGED <<saved, cache, chatting, results, clean>>
  BY DEF Truncate, At
<1>2. CASE disk' = [disk EXCEPT ![File(a)] = Empty] /\ Goto(a, "write")
  <2>1. Becomes(a, [agents[a] EXCEPT !.pc = "write", !.result = agents[a].result])
    BY <1>2, Before DEF Goto, Becomes, AgentType
  <2>2. "write" \in AgentPC /\ agents[a].result \in Result \cup {"none"}
    BY Before DEF AgentPC, AgentType
  <2>3. disk' \in [Files -> Codes] /\ \A f \in Files : f # File(a) => disk'[f] = disk[f]
    BY <1>2, Before, CheckAssumption
  <2> QED
    BY <1>1, <2>1, <2>2, <2>3, Before, SameReports, AgentMoves DEF Resting
<1>3. CASE UNCHANGED disk /\ Failing(a)
  BY <1>1, <1>3, Before, FailingStep DEF Resting
<1> QED
  BY <1>2, <1>3 DEF Truncate

LEMMA WriteStep ==
  ASSUME IInv, NEW a \in DOMAIN agents, Write(a) PROVE IInv'
<1>1. agents[a].pc = "write" /\ KeepRun /\ UNCHANGED <<saved, cache, chatting, results, clean>>
  BY DEF Write, At
<1>2. CASE disk' = [disk EXCEPT ![File(a)] = agents[a].report.fixed] /\ Goto(a, "report")
  <2>1. Becomes(a, [agents[a] EXCEPT !.pc = "report", !.result = agents[a].result])
    BY <1>2, Before DEF Goto, Becomes, AgentType
  <2>2. "report" \in AgentPC /\ agents[a].result \in Result \cup {"none"}
    BY Before DEF AgentPC, AgentType
  <2>3. agents[a].report \in Report
    BY <1>1, Before DEF AgentOK, AgentType
  <2>4. disk' \in [Files -> Codes] /\ \A f \in Files : f # File(a) => disk'[f] = disk[f]
    BY <1>2, <2>3, Before DEF Report
  <2> QED
    BY <1>1, <2>1, <2>2, <2>4, Before, SameReports, AgentMoves DEF Resting
<1>3. CASE UNCHANGED disk /\ Failing(a)
  BY <1>1, <1>3, Before, FailingStep DEF Resting
<1> QED
  BY <1>2, <1>3 DEF Write

LEMMA SaveReportStep ==
  ASSUME IInv, NEW a \in DOMAIN agents, SaveReport(a) PROVE IInv'
<1>1. /\ agents[a].pc = "report" /\ KeepRun /\ UNCHANGED <<disk, chatting, results, clean>>
      /\ cache' = [cache EXCEPT ![File(a)] = agents[a].report]
  BY DEF SaveReport, At
<1>2. agents[a].report \in Report /\ Sound(File(a), agents[a].report)
  BY <1>1, Before DEF AgentOK, AgentType
<1>3. cache' \in [Files -> Report \cup {NoReport}]
  BY <1>1, <1>2, Before
<1>4. CASE saved' = [saved EXCEPT ![File(a)] = NoReport] /\ Goto(a, "saving")
  <2>1. Becomes(a, [agents[a] EXCEPT !.pc = "saving", !.result = agents[a].result])
    BY <1>4, Before DEF Goto, Becomes, AgentType
  <2>2. "saving" \in AgentPC /\ agents[a].result \in Result \cup {"none"}
    BY Before DEF AgentPC, AgentType
  <2>3. saved' \in [Files -> Report \cup {NoReport}] /\ ReportsSound'
    BY <1>1, <1>2, <1>4, Before DEF ReportsSound, Sound
  <2> QED
    BY <1>1, <1>3, <2>1, <2>2, <2>3, Before, AgentMoves DEF Resting
<1>5. CASE /\ UNCHANGED saved
           /\ agents' = [agents EXCEPT ![a].pc = "send", ![a].result = "succeeded"]
  <2>1. Becomes(a, [agents[a] EXCEPT !.pc = "send", !.result = "succeeded"])
    BY <1>5, Before DEF Becomes, AgentType
  <2>2. "send" \in AgentPC /\ "succeeded" \in Result \cup {"none"}
    BY DEF AgentPC, Result
  <2>3. ReportsSound'
    BY <1>1, <1>2, <1>5, Before DEF ReportsSound, Sound
  <2> QED
    BY <1>1, <1>3, <1>5, <2>1, <2>2, <2>3, Before, AgentMoves DEF Resting
<1> QED
  BY <1>4, <1>5 DEF SaveReport

LEMMA WriteReportStep ==
  ASSUME IInv, NEW a \in DOMAIN agents, WriteReport(a) PROVE IInv'
<1>1. /\ agents[a].pc = "saving" /\ KeepRun /\ UNCHANGED <<disk, cache, chatting, results, clean>>
      /\ saved' = [saved EXCEPT ![File(a)] = agents[a].report] \/ saved' = saved
  BY DEF WriteReport, At
<1>2. Becomes(a, [agents[a] EXCEPT !.pc = "send", !.result = "succeeded"])
  BY Before DEF WriteReport, Becomes, AgentType
<1>3. "send" \in AgentPC /\ "succeeded" \in Result \cup {"none"}
  BY DEF AgentPC, Result
<1>4. saved' \in [Files -> Report \cup {NoReport}] /\ ReportsSound'
  <2>1. agents[a].report \in Report /\ Sound(File(a), agents[a].report)
    BY <1>1, Before DEF AgentOK, AgentType
  <2>2. CASE saved' = [saved EXCEPT ![File(a)] = agents[a].report]
    BY <1>1, <2>1, <2>2, Before DEF ReportsSound, Sound
  <2>3. CASE saved' = saved
    BY <1>1, <2>3, Before, SameReports
  <2> QED
    BY <1>1, <2>2, <2>3
<1> QED
  BY <1>1, <1>2, <1>3, <1>4, Before, AgentMoves DEF Resting

LEMMA SendStep ==
  ASSUME IInv, NEW a \in DOMAIN agents, Send(a) PROVE IInv'
<1>1. /\ agents[a].pc = "send" /\ KeepRun /\ UNCHANGED <<disk, saved, cache, chatting, clean>>
      /\ results' = Append(results, agents[a].result)
  BY DEF Send, At
<1>2. Becomes(a, [agents[a] EXCEPT !.pc = "done", !.result = agents[a].result])
  BY Before DEF Send, Goto, Becomes, AgentType
<1>3. "done" \in AgentPC /\ agents[a].result \in Result
  BY <1>1, Before DEF AgentPC, AgentType, AgentOK
<1>4. results' \in Seq(Result)
  BY <1>1, <1>3, Before
<1> QED
  BY <1>1, <1>2, <1>3, <1>4, Before, SameReports, AgentMoves DEF Resting

LEMMA AnswerStep ==
  ASSUME IInv, NEW a \in DOMAIN agents, Answer(a) PROVE IInv'
<1>1. /\ agents[a].pc = "chat" /\ KeepRun /\ chatting' = 0
      /\ UNCHANGED <<disk, saved, cache, results>>
  BY DEF Answer, At
<1> DEFINE code == agents[a].code
<1>2. PICK issue \in BOOLEAN, fixed \in Codes :
        LET report == Checked(code, issue, fixed) IN
        /\ agents' = [agents EXCEPT ![a].report = report,
                        ![a].pc = IF report.issue /\ cmd.fix THEN "truncate" ELSE "report"]
        /\ clean' = IF report.issue THEN clean ELSE clean \cup {<<File(a), code>>}
  BY DEF Answer
<1> DEFINE report == Checked(code, issue, fixed)
           pc == IF report.issue /\ cmd.fix THEN "truncate" ELSE "report"
           new == [agents[a] EXCEPT !.report = report, !.pc = pc]
<1>3. code \in Codes
  BY Before DEF AgentType
<1>4. /\ report \in Report /\ report # NoReport /\ report.original = code
      /\ report.issue => report.fixed \notin {Empty, code}
  BY <1>3, CheckedType
<1>5. pc \in {"truncate", "report"} /\ (pc = "truncate" => report.issue /\ cmd.fix)
  OBVIOUS
<1>6. clean' = IF report.issue THEN clean ELSE clean \cup {<<File(a), code>>}
  BY <1>2
<1>7. Becomes(a, new)
  BY <1>2, Before DEF Becomes, AgentType
<1> HIDE DEF report, pc
<1>8. new \in AgentType /\ new.pc = pc /\ new.report = report
      /\ new.code = code /\ new.result = agents[a].result
  BY <1>4, <1>5, Before DEF AgentType, AgentPC
<1> HIDE DEF new
<1>9. /\ clean \subseteq clean' /\ clean' \subseteq Files \X Codes
      /\ report.issue \/ <<File(a), code>> \in clean'
  BY <1>3, <1>6, Before
<1>10. agents'[a] = new /\ File(a)' = File(a) /\ Alone(a)' = Alone(a)
  BY <1>1, <1>7, <1>8, <1>9, Before, AgentBecomes
<1>11. cmd' = cmd /\ touched' = touched /\ disk' = disk
  BY <1>1 DEF KeepRun
<1>12. Sound(File(a), agents[a].report)'
  BY <1>4, <1>8, <1>9, <1>10 DEF Sound
<1>13. agents[a].result # "skipped"
  BY <1>1, Before
<1>14. pc = "truncate" /\ Alone(a) /\ File(a) \notin touched => disk[File(a)] = code
  BY <1>1, Before DEF AgentOK
<1> HIDE DEF code
<1>15. AgentOK(a)'
  BY <1>4, <1>5, <1>8, <1>10, <1>11, <1>12, <1>13, <1>14 DEF AgentOK
<1>16. ReportsSound'
  BY <1>1, <1>9, SameReports
<1> QED
  BY <1>1, <1>7, <1>8, <1>9, <1>15, <1>16, Before, AgentPreserves DEF Resting

LEMMA AgentSteps ==
  ASSUME IInv, NEW a \in DOMAIN agents, AgentStep(a) PROVE IInv'
  BY ReadCodeStep, LoadReportStep, AcquireStep, AnswerStep, AnswerFailsStep, TruncateStep,
     WriteStep, SaveReportStep, WriteReportStep, SendStep DEF AgentStep

-----------------------------------------------------------------------------
(* The steps of the run.                                                   *)

LEMMA MetricsType ==
  ASSUME TypeOK, NEW k \in {"processed", "failed", "skipped", "succeeded"},
         metrics' = [metrics EXCEPT ![k] = @ + 1]
  PROVE  metrics' \in [{"processed", "failed", "skipped", "succeeded"} -> Nat]
  BY DEF TypeOK

LEMMA NoMetricsType == NoMetrics \in [{"processed", "failed", "skipped", "succeeded"} -> Nat]
  BY DEF NoMetrics

LEMMA NewAgentType == NewAgent \in AgentType
  BY CheckAssumption DEF NewAgent, AgentType, AgentPC

LEMMA InvokeStep ==
  ASSUME IInv, NEW targets \in TargetLists, NEW fix \in BOOLEAN, NEW force \in BOOLEAN,
         NEW concurrent \in BOOLEAN, Invoke(targets, fix, force, concurrent)
  PROVE  IInv'
<1>1. targets \in Seq(Files)
  BY CheckAssumption
<1>2. /\ agents' = [a \in DOMAIN targets |-> NewAgent]
      /\ cmd'.targets = targets
      /\ cmd' \in CmdType
  BY <1>1 DEF Invoke, CmdType
<1>3. TypeOK'
  BY <1>2, NewAgentType, NoMetricsType DEF IInv, TypeOK, Invoke, gitVars
<1>4. ReportsSound'
  BY DEF IInv, ReportsSound, Sound, Invoke
<1>5. \A a \in DOMAIN agents' : agents'[a].pc = "new" /\ agents'[a].report = NoReport
                                /\ agents'[a].result = "none"
  BY <1>2 DEF NewAgent
<1>6. AgentsOK' /\ OneAtATime' /\ InOrder'
  BY <1>5 DEF AgentsOK, AgentOK, Sound, OneAtATime, InOrder, Resting
<1> QED
  BY <1>3, <1>4, <1>6 DEF IInv

LEMMA LaunchStep == ASSUME IInv, Launch PROVE IInv'
<1> DEFINE n == cmd.next
<1>1. n \in DOMAIN agents /\ n \in Nat /\ agents[n].pc = "new" /\ agents[n] \in AgentType
  <2>1. n \in DOMAIN agents /\ n \in Nat
    BY DEF IInv, TypeOK, CmdType, Launch
  <2> QED
    BY <2>1 DEF IInv, TypeOK, InOrder
<1>2. /\ agents' = [agents EXCEPT ![n].pc = "read"]
      /\ DOMAIN agents' = DOMAIN agents
      /\ \A a \in DOMAIN agents : a # n => agents'[a] = agents[a]
      /\ agents'[n] = [agents[n] EXCEPT !.pc = "read"]
  BY <1>1 DEF Launch, IInv, TypeOK
<1>3. /\ agents'[n].pc = "read" /\ agents'[n].report = agents[n].report
      /\ agents'[n].result = agents[n].result /\ agents'[n].code = agents[n].code
  BY <1>1, <1>2 DEF AgentType
<1>4. /\ cmd' \in CmdType /\ cmd'.targets = cmd.targets /\ cmd'.fix = cmd.fix
      /\ cmd'.concurrent = cmd.concurrent /\ cmd'.next = n + 1
  <2>1. cmd' = [cmd EXCEPT !.next = n + 1]
    BY DEF Launch
  <2>2. cmd \in CmdType
    BY DEF IInv, TypeOK
  <2>3. n + 1 \in Nat \ {0}
    BY <1>1
  <2> HIDE DEF n
  <2> QED
    BY <2>1, <2>2, <2>3 DEF CmdType
<1>5. TypeOK'
  <2>1. agents' \in [DOMAIN cmd'.targets -> AgentType]
    BY <1>1, <1>2, <1>4 DEF IInv, TypeOK, AgentType, AgentPC
  <2> QED
    BY <1>4, <2>1, MetricsType DEF IInv, TypeOK, Launch, gitVars, history
<1>6. ReportsSound'
  BY DEF IInv, ReportsSound, Sound, Launch, history
<1>7. AgentsOK'
  <2> SUFFICES ASSUME NEW a \in DOMAIN agents PROVE AgentOK(a)'
    BY <1>2 DEF AgentsOK
  <2>1. File(a)' = File(a) /\ Alone(a)' = Alone(a)
    BY <1>2, <1>4 DEF File, Alone
  <2>2. disk' = disk /\ clean' = clean /\ touched' = touched
    BY DEF Launch, history
  <2>3. CASE a # n
    BY <1>2, <1>4, <2>1, <2>2, <2>3 DEF IInv, AgentsOK, AgentOK, Sound
  <2>4. CASE a = n
    BY <1>1, <1>3, <1>4, <2>1, <2>2, <2>4 DEF IInv, AgentsOK, AgentOK, Sound
  <2> QED
    BY <2>3, <2>4
<1>8. OneAtATime'
  BY <1>2, <1>4 DEF Launch, AllDone, OneAtATime, Resting
<1>9. InOrder'
  BY <1>1, <1>2, <1>4, TargetType DEF IInv, InOrder
<1> QED
  BY <1>5, <1>6, <1>7, <1>8, <1>9 DEF IInv

\* The agents, files and reports stay as they are.
LEMMA SameAgents ==
  ASSUME IInv, TypeOK', UNCHANGED <<disk, saved, agents, cache, clean, touched>>,
         cmd'.targets = cmd.targets, cmd'.fix = cmd.fix, cmd'.concurrent = cmd.concurrent,
         cmd'.next = cmd.next
  PROVE  IInv'
<1>1. \A a \in DOMAIN agents : File(a)' = File(a) /\ Alone(a)' = Alone(a)
  BY DEF File, Alone
<1>2. AgentsOK'
  BY <1>1 DEF IInv, AgentsOK, AgentOK, Sound
<1> QED
  BY <1>2 DEF IInv, ReportsSound, Sound, OneAtATime, InOrder

LEMMA CloseStep == ASSUME IInv, Close PROVE IInv'
<1>1. /\ cmd' \in CmdType /\ cmd'.targets = cmd.targets /\ cmd'.fix = cmd.fix
      /\ cmd'.concurrent = cmd.concurrent /\ cmd'.next = cmd.next
  BY DEF Close, IInv, TypeOK, CmdType
<1>2. TypeOK'
  BY <1>1 DEF Close, IInv, TypeOK, gitVars, history
<1> QED
  BY <1>1, <1>2, SameAgents DEF Close, history

LEMMA CollectStep == ASSUME IInv, Collect PROVE IInv'
<1>1. Head(results) \in Result /\ results' \in Seq(Result)
  BY DEF Collect, IInv, TypeOK
<1>2. metrics' \in [{"processed", "failed", "skipped", "succeeded"} -> Nat]
  BY <1>1, MetricsType DEF Collect, Result, IInv
<1>3. TypeOK'
  BY <1>1, <1>2 DEF Collect, IInv, TypeOK, gitVars, history
<1> QED
  BY <1>3, SameAgents DEF Collect, history

LEMMA LeaveStep ==
  ASSUME IInv, Leave,
         metrics' \in [{"processed", "failed", "skipped", "succeeded"} -> Nat]
  PROVE  IInv'
<1>1. cmd' \in CmdType /\ cmd'.targets = <<>>
  BY DEF Leave, NoRun, CmdType
<1>2. agents' = <<>> /\ DOMAIN agents' = {}
  BY DEF Leave
<1>3. agents' \in [DOMAIN cmd'.targets -> AgentType]
  BY <1>1, <1>2
<1>4. cache' \in [Files -> Report \cup {NoReport}]
  BY DEF Leave
<1>5. results' \in Seq(Result) /\ chatting' \in Nat
  BY DEF Leave
<1>6. TypeOK'
  BY <1>1, <1>3, <1>4, <1>5 DEF Leave, IInv, TypeOK, gitVars, history
<1>7. ReportsSound'
  BY DEF Leave, IInv, ReportsSound, Sound, history
<1>8. AgentsOK' /\ OneAtATime' /\ InOrder'
  BY <1>2 DEF AgentsOK, OneAtATime, InOrder
<1> QED
  BY <1>6, <1>7, <1>8 DEF IInv

LEMMA RunSteps == ASSUME IInv, RunStep \/ Interrupt PROVE IInv'
<1>1. CASE Finish
  BY <1>1, LeaveStep DEF Finish, IInv, TypeOK
<1>2. CASE Interrupt
  BY <1>2, LeaveStep, NoMetricsType DEF Interrupt
<1> QED
  BY <1>1, <1>2, LaunchStep, CloseStep, CollectStep DEF RunStep

-----------------------------------------------------------------------------
(* The steps of the user.                                                  *)

LEMMA EditStep ==
  ASSUME IInv, NEW f \in Files, NEW code \in Codes, Edit(f, code) PROVE IInv'
<1>1. /\ disk' = [disk EXCEPT ![f] = code] /\ touched' = touched \cup {f}
      /\ UNCHANGED <<index, head>> /\ KeepProcess
  BY DEF Edit, gitVars
<1>2. TypeOK'
  BY <1>1 DEF IInv, TypeOK, KeepProcess, Edit
<1>3. \A a \in DOMAIN agents : File(a)' = File(a) /\ Alone(a)' = Alone(a) /\ File(a) \in Files
  BY <1>1, TargetType DEF File, Alone, KeepProcess, IInv
<1>4. \A g \in Files : g \notin touched' => g \notin touched /\ disk'[g] = disk[g]
  BY <1>1 DEF IInv, TypeOK
<1>5. AgentsOK'
  BY <1>1, <1>3, <1>4 DEF IInv, AgentsOK, AgentOK, Sound, KeepProcess
<1> QED
  BY <1>1, <1>2, <1>5 DEF IInv, ReportsSound, Sound, OneAtATime, InOrder, KeepProcess

LEMMA GitStep == ASSUME IInv, Stage \/ Commit PROVE IInv'
<1>1. TypeOK'
  BY DEF IInv, TypeOK, Stage, Commit, KeepProcess
<1> QED
  BY <1>1, SameAgents DEF Stage, Commit, KeepProcess

-----------------------------------------------------------------------------

LEMMA InitInv == Init => IInv
<1> SUFFICES ASSUME Init PROVE IInv
  OBVIOUS
<1>1. cmd \in CmdType /\ cmd.targets = <<>> /\ agents = <<>> /\ DOMAIN agents = {}
  BY DEF Init, NoRun, CmdType
<1>2. agents \in [DOMAIN cmd.targets -> AgentType]
  BY <1>1
<1>3. TypeOK
  BY <1>1, <1>2, NoMetricsType DEF Init, TypeOK
<1>4. ReportsSound
  BY DEF Init, ReportsSound, Sound
<1> QED
  BY <1>1, <1>3, <1>4 DEF IInv, AgentsOK, OneAtATime, InOrder

LEMMA NextInv == IInv /\ [Next]_vars => IInv'
<1> SUFFICES ASSUME IInv, [Next]_vars PROVE IInv'
  OBVIOUS
<1>1. CASE Next
  BY <1>1, InvokeStep, RunSteps, AgentSteps, EditStep, GitStep DEF Next
<1>2. CASE UNCHANGED vars
  <2>1. TypeOK'
    BY <1>2 DEF vars, gitVars, IInv, TypeOK
  <2> QED
    BY <1>2, <2>1, SameAgents DEF vars
<1> QED
  BY <1>1, <1>2

LEMMA Invariance == Spec => []IInv
  BY InitInv, NextInv, PTL DEF Spec

\* The state of check is always of its type: what an agent sends is a result,
\* and what a fix writes is code.
THEOREM CheckTypeCorrect == Spec => []TypeOK
<1>1. IInv => TypeOK
  BY DEF IInv
<1> QED
  BY <1>1, Invariance, PTL

\* With --fix nothing is skipped that a model has not checked and left as it is,
\* for any history of runs, interruptions and edits.
THEOREM SkipsAreJustified == Spec => []SkipIsJustified
<1>1. IInv => SkipIsJustified
  BY DEF IInv, AgentsOK, AgentOK, SkipIsJustified
<1> QED
  BY <1>1, Invariance, PTL

\* A fix replaces the code that the model was asked about, and by code.
THEOREM FixesAreOfFile == Spec => []FixIsOfFile
<1>1. IInv => FixIsOfFile
  BY DEF IInv, AgentsOK, AgentOK, FixIsOfFile, At
<1> QED
  BY <1>1, Invariance, PTL

-----------------------------------------------------------------------------
(* How far the run is, what its agents have sent and reported.             *)

Done == {a \in DOMAIN agents : agents[a].pc = "done"}

\* Agents are launched in order; what is over when they are not.
Progress ==
  /\ cmd.next <= Len(cmd.targets) + 1
  /\ \A a \in DOMAIN agents : a < cmd.next => agents[a].pc # "new"
  /\ ~cmd.concurrent => \A a \in DOMAIN agents : a + 1 < cmd.next => agents[a].pc = "done"
  /\ cmd.pc # "launch" => \A a \in DOMAIN agents : agents[a].pc = "done"

\* Who is done has sent one result, and what was sent is in the channel or counted.
CountInv ==
  /\ cmd.pc = "idle" => metrics.processed = Counted /\ results = <<>>
  /\ cmd.pc = "launch" =>
       Counted = 0 /\ metrics.processed + 1 = cmd.next /\ Len(results) = Cardinality(Done)
  /\ cmd.pc = "collect" => metrics.processed = Counted + Len(results)

\* The agents whose report nobody may contradict
Tells(a) == cmd.fix /\ IsLast(a) /\ Alone(a) /\ File(a) \notin touched

ReportOK(a) ==
  /\ agents[a].result = "succeeded" => agents[a].pc \in {"send", "done"}
  /\ Tells(a) =>
       /\ agents[a].pc = "report" => disk[File(a)] = agents[a].report.fixed
       /\ agents[a].pc = "saving" \/ agents[a].result = "succeeded" =>
            disk[File(a)] = cache[File(a)].fixed

ReportsOK == \A a \in DOMAIN agents : ReportOK(a)

RunInv == Progress /\ CountInv /\ ReportsOK

\* What the steps of an agent have in common
Moved(a) ==
  /\ KeepRun /\ DOMAIN agents' = DOMAIN agents
  /\ \A b \in DOMAIN agents : b # a => agents'[b] = agents[b]
  /\ agents'[a].pc \notin {"new", "read"}
  /\ \A f \in Files : f # File(a) => disk'[f] = disk[f] /\ cache'[f] = cache[f]

LEMMA FailingMoves ==
  ASSUME IInv, NEW a \in DOMAIN agents, Failing(a)
  PROVE  /\ DOMAIN agents' = DOMAIN agents
         /\ \A b \in DOMAIN agents : b # a => agents'[b] = agents[b]
         /\ agents'[a].pc = "send" /\ agents'[a].result = "failed"
  BY Before DEF Failing, TypeOK, AgentType

LEMMA GotoMoves ==
  ASSUME IInv, NEW a \in DOMAIN agents, NEW pc, Goto(a, pc)
  PROVE  /\ DOMAIN agents' = DOMAIN agents
         /\ \A b \in DOMAIN agents : b # a => agents'[b] = agents[b]
         /\ agents'[a].pc = pc /\ agents'[a].result = agents[a].result
         /\ agents'[a].report = agents[a].report
  BY Before DEF Goto, TypeOK, AgentType

LEMMA AgentMoved ==
  ASSUME IInv, NEW a \in DOMAIN agents, AgentStep(a)
  PROVE  /\ Moved(a) /\ agents[a].pc \notin Resting
         /\ \/ agents'[a].pc # "done" /\ results' = results
            \/ /\ agents'[a].pc = "done" /\ agents[a].pc = "send"
               /\ results' = Append(results, agents[a].result)
<1>1. /\ TypeOK /\ agents[a] \in AgentType /\ File(a) \in Files
      /\ disk \in [Files -> Codes] /\ cache \in [Files -> Report \cup {NoReport}]
  BY Before
<1>2. CASE ReadCode(a)
  <2>1. agents' = [agents EXCEPT ![a].pc = "load", ![a].code = disk[File(a)]] \/ Failing(a)
    BY <1>2 DEF ReadCode
  <2>2. CASE agents' = [agents EXCEPT ![a].pc = "load", ![a].code = disk[File(a)]]
    BY <1>1, <1>2, <2>2 DEF ReadCode, At, Moved, TypeOK, AgentType, Resting
  <2>3. CASE Failing(a)
    BY <1>2, <2>3, FailingMoves DEF ReadCode, At, Moved, Resting
  <2> QED BY <2>1, <2>2, <2>3
<1>3. CASE LoadReport(a)
  <2>1. DOMAIN agents' = DOMAIN agents /\ agents'[a].pc \in {"send", "acquire"}
        /\ \A b \in DOMAIN agents : b # a => agents'[b] = agents[b]
    BY <1>1, <1>3 DEF LoadReport, TypeOK, AgentType
  <2>2. \A f \in Files : f # File(a) => cache'[f] = cache[f]
    BY <1>1, <1>3 DEF LoadReport
  <2> QED BY <1>3, <2>1, <2>2 DEF LoadReport, At, Moved, Resting
<1>4. CASE Acquire(a)
  BY <1>4, GotoMoves DEF Acquire, At, Moved, Resting
<1>5. CASE Answer(a)
  <2>1. PICK pc \in {"truncate", "report"} :
          \E r : agents' = [agents EXCEPT ![a].report = r, ![a].pc = pc]
    BY <1>5 DEF Answer
  <2>2. DOMAIN agents' = DOMAIN agents /\ agents'[a].pc \in {"truncate", "report"}
        /\ \A b \in DOMAIN agents : b # a => agents'[b] = agents[b]
    <3>1. PICK r : agents' = [agents EXCEPT ![a].report = r, ![a].pc = pc]
      BY <2>1
    <3>2. agents'[a].pc = pc
      BY <1>1, <3>1 DEF AgentType, TypeOK
    <3> QED BY <3>1, <3>2
  <2>3. KeepRun /\ UNCHANGED <<disk, cache>> /\ agents[a].pc = "chat" /\ results' = results
    BY <1>5 DEF Answer, At
  <2> QED BY <2>2, <2>3 DEF Moved, Resting
<1>6. CASE AnswerFails(a)
  BY <1>6, FailingMoves DEF AnswerFails, At, Moved, Resting
<1>7. CASE Truncate(a)
  BY <1>1, <1>7, FailingMoves, GotoMoves DEF Truncate, At, Moved, Resting
<1>8. CASE Write(a)
  BY <1>1, <1>8, FailingMoves, GotoMoves DEF Write, At, Moved, Resting
<1>9. CASE SaveReport(a)
  <2>1. DOMAIN agents' = DOMAIN agents /\ agents'[a].pc \in {"saving", "send"}
        /\ \A b \in DOMAIN agents : b # a => agents'[b] = agents[b]
    BY <1>1, <1>9, GotoMoves DEF SaveReport, TypeOK, AgentType
  <2>2. \A f \in Files : f # File(a) => cache'[f] = cache[f]
    BY <1>1, <1>9 DEF SaveReport
  <2> QED BY <1>9, <2>1, <2>2 DEF SaveReport, At, Moved, Resting
<1>10. CASE WriteReport(a)
  <2>1. DOMAIN agents' = DOMAIN agents /\ agents'[a].pc = "send"
        /\ \A b \in DOMAIN agents : b # a => agents'[b] = agents[b]
    BY <1>1, <1>10 DEF WriteReport, TypeOK, AgentType
  <2> QED BY <1>10, <2>1 DEF WriteReport, At, Moved, Resting
<1>11. CASE Send(a)
  BY <1>11, GotoMoves DEF Send, At, Moved, Resting
<1> QED BY <1>2, <1>3, <1>4, <1>5, <1>6, <1>7, <1>8, <1>9, <1>10, <1>11 DEF AgentStep

\* Whoever still works is launched, and alone before the next without --concurrent.
LEMMA NotShared ==
  ASSUME IInv, Progress, NEW a \in DOMAIN agents, NEW b \in DOMAIN agents, a # b,
         agents[a].pc \notin Resting, agents[b].pc # "new", IsLast(b), Alone(b)
  PROVE  File(a) # File(b)
<1> SUFFICES ASSUME File(a) = File(b) PROVE FALSE
  OBVIOUS
<1>1. a \in Nat /\ b \in Nat /\ cmd.next \in Nat
  BY Before DEF TypeOK, CmdType
<1>2. ~cmd.concurrent
  BY DEF Alone
<1>3. a < b
  BY <1>1 DEF IsLast
<1>4. b < cmd.next
  BY <1>1 DEF IInv, InOrder
<1> QED BY <1>1, <1>2, <1>3, <1>4 DEF Progress, Resting

\* What an agent does to its own report
LEMMA OwnReport ==
  ASSUME IInv, NEW a \in DOMAIN agents, AgentStep(a), ReportOK(a),
         UNCHANGED cmd, File(a)' = File(a), Tells(a)' => Tells(a)
  PROVE  ReportOK(a)'
<1>1. /\ TypeOK /\ agents[a] \in AgentType /\ File(a) \in Files /\ AgentOK(a)
      /\ disk \in [Files -> Codes] /\ cache \in [Files -> Report \cup {NoReport}]
  BY Before
<1>2. CASE agents'[a].pc = "send" /\ agents'[a].result = "failed"
  BY <1>2 DEF ReportOK
<1>3. CASE agents'[a].pc \in {"load", "acquire", "chat", "truncate", "write"}
           /\ agents'[a].result # "succeeded"
  BY <1>3 DEF ReportOK
<1>4. CASE ReadCode(a)
  <2>1. CASE Failing(a)
    BY <2>1, <1>2, FailingMoves
  <2>2. CASE agents' = [agents EXCEPT ![a].pc = "load", ![a].code = disk[File(a)]]
    <3>1. agents'[a].pc = "load" /\ agents'[a].result = agents[a].result
      BY <1>1, <2>2 DEF TypeOK, AgentType
    <3> QED BY <1>3, <1>4, <3>1 DEF ReportOK, ReadCode, At
  <2> QED BY <1>4, <2>1, <2>2 DEF ReadCode
<1>5. CASE LoadReport(a)
  <2>1. \/ agents'[a].pc = "send" /\ agents'[a].result = "skipped"
        \/ agents'[a].pc = "acquire" /\ agents'[a].result = agents[a].result
    BY <1>1, <1>5 DEF LoadReport, TypeOK, AgentType
  <2> QED BY <1>3, <1>5, <2>1 DEF ReportOK, LoadReport, At
<1>6. CASE Acquire(a)
  BY <1>3, <1>6, GotoMoves DEF ReportOK, Acquire, At
<1>7. CASE Answer(a)
  <2>1. PICK issue \in BOOLEAN, fixed \in Codes :
          LET report == Checked(agents[a].code, issue, fixed) IN
          agents' = [agents EXCEPT ![a].report = report,
                       ![a].pc = IF report.issue /\ cmd.fix THEN "truncate" ELSE "report"]
    BY <1>7 DEF Answer
  <2>2. PICK report : report = Checked(agents[a].code, issue, fixed)
    OBVIOUS
  <2>3. report \in Report /\ (~report.issue => report.fixed = agents[a].code)
    BY <1>1, <2>2, CheckedType DEF AgentType
  <2>4. /\ agents'[a].pc = IF report.issue /\ cmd.fix THEN "truncate" ELSE "report"
        /\ agents'[a].result = agents[a].result /\ agents'[a].report = report
    BY <1>1, <2>1, <2>2 DEF TypeOK, AgentType
  <2>5. agents[a].pc = "chat" /\ agents[a].result # "succeeded" /\ disk' = disk
    BY <1>7 DEF Answer, At, ReportOK
  <2>6. Tells(a) => disk[File(a)] = agents[a].code
    BY <1>1, <2>5 DEF AgentOK, Tells
  <2>7. Tells(a)' /\ agents'[a].pc = "report" => disk'[File(a)'] = agents'[a].report.fixed
    BY <2>3, <2>4, <2>5, <2>6 DEF Tells
  <2> QED BY <2>4, <2>5, <2>7 DEF ReportOK
<1>8. CASE AnswerFails(a)
  BY <1>2, <1>8, FailingMoves DEF AnswerFails
<1>9. CASE Truncate(a)
  BY <1>2, <1>3, <1>9, FailingMoves, GotoMoves DEF Truncate, At, ReportOK
<1>10. CASE Write(a)
  <2>1. CASE Failing(a)
    BY <2>1, <1>2, FailingMoves
  <2>2. CASE disk' = [disk EXCEPT ![File(a)] = agents[a].report.fixed] /\ Goto(a, "report")
    BY <1>1, <1>10, <2>2, GotoMoves DEF Write, At, ReportOK
  <2> QED BY <1>10, <2>1, <2>2 DEF Write
<1>11. CASE SaveReport(a)
  <2>1. agents[a].pc = "report" /\ disk' = disk /\ cache'[File(a)] = agents[a].report
    BY <1>1, <1>11 DEF SaveReport, At
  <2>2. agents'[a].pc \in {"saving", "send"} /\ (agents'[a].result = "succeeded" => agents'[a].pc = "send")
    <3>1. CASE Goto(a, "saving")
      BY <2>1, <3>1, GotoMoves DEF ReportOK
    <3>2. CASE agents' = [agents EXCEPT ![a].pc = "send", ![a].result = "succeeded"]
      BY <1>1, <3>2 DEF TypeOK, AgentType
    <3> QED BY <1>11, <3>1, <3>2 DEF SaveReport
  <2> QED BY <2>1, <2>2 DEF ReportOK
<1>12. CASE WriteReport(a)
  <2>1. agents'[a].pc = "send"
    BY <1>1, <1>12 DEF WriteReport, TypeOK, AgentType
  <2> QED BY <1>12, <2>1 DEF WriteReport, At, ReportOK
<1>13. CASE Send(a)
  <2>1. agents'[a].pc = "done" /\ agents'[a].result = agents[a].result
    BY <1>13, GotoMoves DEF Send
  <2> QED BY <1>13, <2>1 DEF Send, ReportOK
<1> QED BY <1>4, <1>5, <1>6, <1>7, <1>8, <1>9, <1>10, <1>11, <1>12, <1>13 DEF AgentStep

LEMMA AgentReports ==
  ASSUME IInv, Progress, ReportsOK, NEW a \in DOMAIN agents, AgentStep(a)
  PROVE  ReportsOK'
<1>1. Moved(a) /\ agents[a].pc \notin Resting
  BY AgentMoved
<1>2. /\ UNCHANGED cmd /\ touched' = touched /\ DOMAIN agents' = DOMAIN agents
      /\ \A b \in DOMAIN agents : File(b)' = File(b) /\ Tells(b)' = Tells(b)
  BY <1>1 DEF Moved, KeepRun, File, Tells, IsLast, Alone
<1>3. ReportOK(a)'
  BY <1>2, OwnReport DEF ReportsOK
<1>4. ASSUME NEW b \in DOMAIN agents, b # a PROVE ReportOK(b)'
  <2>1. agents'[b] = agents[b] /\ ReportOK(b) /\ File(b) \in Files /\ agents[b] \in AgentType
    BY <1>1, <1>4, Before DEF Moved, ReportsOK
  <2>2. CASE ~Tells(b) \/ agents[b].pc = "new"
    BY <1>2, <2>1, <2>2 DEF ReportOK
  <2>3. CASE Tells(b) /\ agents[b].pc # "new"
    <3>1. File(a) # File(b)
      BY <1>1, <1>4, <2>3, NotShared DEF Tells
    <3>2. disk'[File(b)] = disk[File(b)] /\ cache'[File(b)] = cache[File(b)]
      BY <1>1, <2>1, <3>1 DEF Moved
    <3> QED BY <1>2, <2>1, <3>2 DEF ReportOK
  <2> QED BY <2>2, <2>3
<1> QED BY <1>2, <1>3, <1>4 DEF ReportsOK

LEMMA AgentProgress ==
  ASSUME IInv, Progress, NEW a \in DOMAIN agents, AgentStep(a)
  PROVE  Progress'
<1>1. Moved(a) /\ agents[a].pc \notin Resting
  BY AgentMoved
<1> QED BY <1>1 DEF Progress, Moved, KeepRun, Resting

LEMMA IntervalSize ==
  ASSUME NEW n \in Nat
  PROVE  IsFiniteSet(1 .. n) /\ Cardinality(1 .. n) = n
<1>1. IsFiniteSet(1 .. n) /\ Cardinality(1 .. n) = IF 1 > n THEN 0 ELSE n - 1 + 1
  BY FS_Interval
<1> QED BY <1>1

LEMMA DoneFinite ==
  ASSUME TypeOK
  PROVE  /\ DOMAIN agents = 1 .. Len(cmd.targets) /\ Len(cmd.targets) \in Nat
         /\ IsFiniteSet(Done) /\ Cardinality(Done) \in Nat
<1>1. DOMAIN agents = 1 .. Len(cmd.targets) /\ Len(cmd.targets) \in Nat
  BY DEF TypeOK, CmdType
<1>2. IsFiniteSet(Done)
  <2>1. IsFiniteSet(1 .. Len(cmd.targets))
    BY <1>1, FS_Interval
  <2>2. Done \subseteq 1 .. Len(cmd.targets)
    BY <1>1 DEF Done
  <2> QED BY <2>1, <2>2, FS_Subset
<1> QED BY <1>1, <1>2, FS_CardinalityType

LEMMA AgentCount ==
  ASSUME IInv, Progress, CountInv, NEW a \in DOMAIN agents, AgentStep(a)
  PROVE  CountInv'
<1>1. /\ Moved(a) /\ agents[a].pc \notin Resting /\ TypeOK
      /\ \/ agents'[a].pc # "done" /\ results' = results
         \/ /\ agents'[a].pc = "done" /\ agents[a].pc = "send"
            /\ results' = Append(results, agents[a].result)
  BY AgentMoved, Before
<1>2. cmd.pc = "launch" /\ UNCHANGED <<cmd, metrics>>
  BY <1>1 DEF Progress, Resting, Moved, KeepRun, TypeOK, CmdType
<1>3. CASE agents'[a].pc # "done" /\ results' = results
  <2>1. Done' = Done
    BY <1>1, <1>3 DEF Done, Moved, Resting
  <2> QED BY <1>2, <1>3, <2>1 DEF CountInv, Counted
<1>4. CASE /\ agents'[a].pc = "done" /\ agents[a].pc = "send"
           /\ results' = Append(results, agents[a].result)
  <2>1. Done' = Done \cup {a} /\ a \notin Done
    BY <1>1, <1>4 DEF Done, Moved, Resting
  <2>2. Cardinality(Done') = Cardinality(Done) + 1
    BY <1>1, <2>1, DoneFinite, FS_AddElement
  <2>3. Len(results') = Len(results) + 1
    BY <1>1, <1>4 DEF TypeOK
  <2> QED BY <1>2, <2>2, <2>3 DEF CountInv, Counted
<1> QED BY <1>1, <1>3, <1>4

LEMMA InvokeRun ==
  ASSUME IInv, NEW targets \in TargetLists, NEW fix \in BOOLEAN, NEW force \in BOOLEAN,
         NEW concurrent \in BOOLEAN, RunInv, Invoke(targets, fix, force, concurrent)
  PROVE  RunInv'
<1>1. targets \in Seq(Files) /\ TypeOK /\ cmd.pc = "idle"
  BY CheckAssumption DEF IInv, Invoke
<1>2. /\ cmd'.pc = "launch" /\ cmd'.targets = targets /\ cmd'.next = 1
      /\ agents' = [a \in DOMAIN targets |-> NewAgent] /\ DOMAIN agents' = DOMAIN targets
      /\ metrics' = NoMetrics /\ results' = results
  BY DEF Invoke
<1>3. \A a \in DOMAIN agents' : a \in Nat \ {0} /\ agents'[a].pc = "new" /\ agents'[a].result = "none"
  BY <1>1, <1>2 DEF NewAgent
<1>4. Progress'
  BY <1>1, <1>2, <1>3 DEF Progress
<1>5. ReportsOK'
  BY <1>3 DEF ReportsOK, ReportOK
<1>6. Done' = {} /\ results = <<>>
  <2>1. \A a \in DOMAIN agents' : agents'[a].pc # "done"
    BY <1>3
  <2> QED BY <1>1, <2>1 DEF Done, RunInv, CountInv
<1>7. Cardinality(Done') = 0 /\ Len(results') = 0
  BY <1>2, <1>6, FS_EmptySet
<1>8. CountInv'
  BY <1>2, <1>7 DEF CountInv, Counted, NoMetrics
<1> QED BY <1>4, <1>5, <1>8 DEF RunInv

LEMMA LaunchRun == ASSUME IInv, RunInv, Launch PROVE RunInv'
<1> DEFINE n == cmd.next
<1>1. TypeOK /\ n \in DOMAIN agents /\ n \in Nat \ {0} /\ agents[n].pc = "new" /\ agents[n] \in AgentType
  <2>1. n \in DOMAIN agents /\ n \in Nat \ {0} /\ TypeOK
    BY DEF IInv, TypeOK, CmdType, Launch
  <2> QED BY <2>1 DEF IInv, TypeOK, InOrder
<1>2. /\ DOMAIN agents' = DOMAIN agents
      /\ \A a \in DOMAIN agents : a # n => agents'[a] = agents[a]
      /\ agents'[n].pc = "read" /\ agents'[n].result = agents[n].result
  BY <1>1 DEF Launch, TypeOK, AgentType
<1>3. /\ cmd.pc = "launch" /\ cmd'.pc = "launch" /\ cmd'.targets = cmd.targets /\ cmd'.fix = cmd.fix
      /\ cmd'.concurrent = cmd.concurrent /\ cmd'.next = n + 1 /\ n <= Len(cmd.targets)
      /\ UNCHANGED <<disk, cache, touched, results>>
  BY <1>1 DEF Launch, TypeOK, CmdType, history
<1>4. Progress'
  <2>1. \A a \in DOMAIN agents : a < n + 1 => agents'[a].pc # "new"
    BY <1>1, <1>2, Before DEF RunInv, Progress
  <2>2. ~cmd.concurrent => \A a \in DOMAIN agents : a + 1 < n + 1 => agents'[a].pc = "done"
    <3> SUFFICES ASSUME ~cmd.concurrent, NEW a \in DOMAIN agents, a + 1 < n + 1 PROVE agents'[a].pc = "done"
      OBVIOUS
    <3>1. a \in Nat /\ a < n
      BY <1>1, Before
    <3>2. agents[a].pc \in {"new", "done"} /\ agents[a].pc # "new"
      BY <3>1 DEF Launch, AllDone, RunInv, Progress
    <3> QED BY <1>2, <3>1, <3>2
  <2> QED BY <1>1, <1>2, <1>3, <2>1, <2>2, DoneFinite DEF Progress
<1>5. ReportsOK'
  <2>1. \A a \in DOMAIN agents : File(a)' = File(a) /\ Tells(a)' = Tells(a)
    BY <1>2, <1>3 DEF File, Tells, IsLast, Alone
  <2>2. \A a \in DOMAIN agents : ReportOK(a)'
    BY <1>1, <1>2, <1>3, <2>1 DEF RunInv, ReportsOK, ReportOK
  <2> QED BY <1>2, <2>2 DEF ReportsOK
<1>6. CountInv'
  <2>1. Done' = Done
    BY <1>1, <1>2 DEF Done
  <2>2. metrics' = [metrics EXCEPT !.processed = metrics.processed + 1]
    BY DEF Launch
  <2>3. Counted' = Counted /\ metrics'.processed = metrics.processed + 1 /\ metrics.processed \in Nat
    BY <1>1, <2>2 DEF Counted, TypeOK
  <2> QED BY <1>1, <1>3, <2>1, <2>3 DEF RunInv, CountInv
<1> QED BY <1>4, <1>5, <1>6 DEF RunInv

\* A step of the run that leaves agents and files alone
LEMMA SameRun ==
  ASSUME IInv, RunInv, UNCHANGED <<disk, agents, cache>>, touched \subseteq touched',
         cmd'.targets = cmd.targets, cmd'.fix = cmd.fix, cmd'.concurrent = cmd.concurrent,
         cmd'.next = cmd.next, cmd'.pc # "launch" => \A a \in DOMAIN agents : agents[a].pc = "done"
  PROVE  Progress' /\ ReportsOK'
<1>1. \A a \in DOMAIN agents : File(a)' = File(a) /\ (Tells(a)' => Tells(a))
  BY DEF File, Tells, IsLast, Alone
<1>2. ReportsOK'
  BY <1>1 DEF RunInv, ReportsOK, ReportOK
<1> QED BY <1>2 DEF RunInv, Progress

LEMMA CloseRun == ASSUME IInv, RunInv, Close PROVE RunInv'
<1>1. /\ TypeOK /\ cmd.pc = "launch" /\ cmd'.pc = "collect" /\ cmd'.targets = cmd.targets
      /\ cmd'.fix = cmd.fix /\ cmd'.concurrent = cmd.concurrent /\ cmd'.next = cmd.next
      /\ UNCHANGED <<disk, agents, cache, touched, results, metrics>>
  BY DEF Close, IInv, TypeOK, CmdType, history
<1>2. Len(cmd.targets) \in Nat /\ DOMAIN agents = 1 .. Len(cmd.targets) /\ cmd.next = Len(cmd.targets) + 1
  BY <1>1, DoneFinite DEF Close, RunInv, Progress, TypeOK, CmdType
<1>3. \A a \in DOMAIN agents : agents[a].pc = "done"
  BY <1>2 DEF Close, AllDone, RunInv, Progress
<1>4. Progress' /\ ReportsOK'
  BY <1>1, <1>3, SameRun
<1>5. Done = 1 .. Len(cmd.targets)
  BY <1>2, <1>3 DEF Done
<1>6. Cardinality(Done) = Len(cmd.targets)
  BY <1>2, <1>5, IntervalSize
<1>7. metrics.processed \in Nat
  BY <1>1 DEF TypeOK
<1>8. CountInv'
  BY <1>1, <1>2, <1>6, <1>7 DEF RunInv, CountInv, Counted
<1> QED BY <1>4, <1>8 DEF RunInv

LEMMA CollectRun == ASSUME IInv, RunInv, Collect PROVE RunInv'
<1>1. TypeOK /\ cmd.pc = "collect" /\ cmd' = cmd /\ UNCHANGED <<disk, agents, cache, touched>>
  BY DEF Collect, IInv, history
<1>2. Progress' /\ ReportsOK'
  BY <1>1, SameRun DEF RunInv, Progress
<1>3. PICK k \in Result : metrics' = [metrics EXCEPT ![k] = @ + 1]
  <2>1. Len(results) > 0 /\ results \in Seq(Result)
    BY <1>1 DEF Collect, TypeOK
  <2>2. Head(results) \in Result
    BY <2>1
  <2> QED BY <2>2 DEF Collect
<1>4. Counted' = Counted + 1 /\ metrics'.processed = metrics.processed
      /\ Counted \in Nat /\ metrics.processed \in Nat
  <2>1. metrics \in [{"processed", "failed", "skipped", "succeeded"} -> Nat]
    BY <1>1 DEF TypeOK
  <2>2. CASE k = "failed"
    BY <1>3, <2>1, <2>2 DEF Counted
  <2>3. CASE k = "skipped"
    BY <1>3, <2>1, <2>3 DEF Counted
  <2>4. CASE k = "succeeded"
    BY <1>3, <2>1, <2>4 DEF Counted
  <2> QED BY <2>2, <2>3, <2>4 DEF Result
<1>5. Len(results') + 1 = Len(results) /\ Len(results') \in Nat
  BY <1>1 DEF Collect, TypeOK
<1>6. CountInv'
  BY <1>1, <1>4, <1>5 DEF RunInv, CountInv
<1> QED BY <1>2, <1>6 DEF RunInv

LEMMA LeaveRun ==
  ASSUME IInv, RunInv, Finish \/ Interrupt
  PROVE  RunInv'
<1>1. cmd' = NoRun /\ agents' = <<>> /\ DOMAIN agents' = {} /\ results' = <<>> /\ TypeOK
  BY DEF Finish, Interrupt, Leave, IInv
<1>2. Progress' /\ ReportsOK'
  BY <1>1 DEF NoRun, Progress, ReportsOK
<1>3. metrics'.processed = Counted'
  <2>1. CASE Finish
    <3>1. metrics.processed \in Nat /\ Counted \in Nat
      BY <1>1 DEF TypeOK, Counted
    <3> QED BY <2>1, <3>1 DEF Finish, RunInv, CountInv, Counted
  <2>2. CASE Interrupt
    BY <2>2 DEF Interrupt, NoMetrics, Counted
  <2> QED BY <2>1, <2>2
<1>4. CountInv'
  BY <1>1, <1>3 DEF CountInv, NoRun
<1> QED BY <1>2, <1>4 DEF RunInv

LEMMA UserRun ==
  ASSUME IInv, RunInv, \/ \E f \in Files, code \in Codes : Edit(f, code)
                       \/ Stage \/ Commit \/ UNCHANGED vars
  PROVE  RunInv'
<1>1. UNCHANGED <<cmd, agents, results, metrics, cache>> /\ TypeOK
  BY DEF Edit, Stage, Commit, KeepProcess, vars, IInv
<1>2. Progress' /\ CountInv'
  BY <1>1 DEF RunInv, Progress, CountInv, Counted, Done
<1>3. \A a \in DOMAIN agents :
        File(a)' = File(a) /\ (Tells(a)' => Tells(a) /\ disk'[File(a)] = disk[File(a)])
  <2>1. \A f \in Files : f \notin touched' => f \notin touched /\ disk'[f] = disk[f]
    BY <1>1 DEF Edit, Stage, Commit, vars, TypeOK
  <2> QED BY <1>1, <2>1, Before DEF File, Tells, IsLast, Alone
<1>4. ReportsOK'
  BY <1>1, <1>3 DEF RunInv, ReportsOK, ReportOK
<1> QED BY <1>2, <1>4 DEF RunInv

LEMMA RunInit == Init => RunInv
<1> SUFFICES ASSUME Init PROVE RunInv
  OBVIOUS
<1>1. cmd = NoRun /\ agents = <<>> /\ DOMAIN agents = {} /\ metrics = NoMetrics /\ results = <<>>
  BY DEF Init
<1> QED BY <1>1 DEF RunInv, Progress, CountInv, Counted, NoMetrics, ReportsOK, NoRun

LEMMA RunNext == IInv /\ RunInv /\ [Next]_vars => RunInv'
<1> SUFFICES ASSUME IInv, RunInv, [Next]_vars PROVE RunInv'
  OBVIOUS
<1>1. ASSUME NEW a \in DOMAIN agents, AgentStep(a) PROVE RunInv'
  BY <1>1, AgentReports, AgentProgress, AgentCount DEF RunInv
<1>2. CASE RunStep \/ Interrupt
  BY <1>2, LaunchRun, CloseRun, CollectRun, LeaveRun DEF RunStep
<1>3. CASE \/ \E f \in Files, code \in Codes : Edit(f, code)
           \/ Stage \/ Commit \/ UNCHANGED vars
  BY <1>3, UserRun
<1>4. CASE \E targets \in TargetLists, fix, force, concurrent \in BOOLEAN :
             Invoke(targets, fix, force, concurrent)
  BY <1>4, InvokeRun
<1> QED BY <1>1, <1>2, <1>3, <1>4 DEF Next

LEMMA RunInvariance == Spec => [](IInv /\ RunInv)
BY InitInv, NextInv, RunInit, RunNext, PTL DEF Spec

\* Whatever fails or panics on the way: when a run has ended every file it took
\* on is counted once.
THEOREM EveryFileIsCounted == Spec => []ResultsAddUp
<1>1. RunInv => ResultsAddUp
  BY DEF RunInv, CountInv, ResultsAddUp
<1> QED BY <1>1, RunInvariance, PTL

\* An agent that has a result finds room for it in the channel, which is open.
THEOREM NoSendBlocks == Spec => []SendsFit
<1>1. ASSUME IInv, RunInv, NEW a \in DOMAIN agents, At(a, "send")
      PROVE  cmd.pc = "launch" /\ Len(results) < Len(cmd.targets)
  <2>1. TypeOK /\ cmd.pc = "launch"
    BY <1>1 DEF IInv, At, RunInv, Progress, TypeOK, CmdType
  <2>2. /\ DOMAIN agents = 1 .. Len(cmd.targets) /\ Len(cmd.targets) \in Nat
        /\ IsFiniteSet(Done) /\ Cardinality(Done) \in Nat
    BY <2>1, DoneFinite
  <2>3. Done \cup {a} \subseteq 1 .. Len(cmd.targets) /\ a \notin Done
    BY <1>1, <2>2 DEF Done, At
  <2>4. Cardinality(Done \cup {a}) = Cardinality(Done) + 1
    BY <2>2, <2>3, FS_AddElement
  <2>5. Cardinality(1 .. Len(cmd.targets)) = Len(cmd.targets) /\ IsFiniteSet(1 .. Len(cmd.targets))
    BY <2>2, IntervalSize
  <2>6. Cardinality(Done \cup {a}) <= Len(cmd.targets)
    BY <2>3, <2>5, FS_Subset
  <2>7. Len(results) = Cardinality(Done)
    BY <1>1, <2>1 DEF RunInv, CountInv
  <2> QED BY <2>1, <2>2, <2>4, <2>6, <2>7
<1>2. IInv /\ RunInv => SendsFit
  BY <1>1 DEF SendsFit
<1> QED BY <1>2, RunInvariance, PTL

\* When a run that fixes is over, a file that nobody else has touched holds what
\* its report says it was fixed to.
THEOREM ReportsAreOfFiles == Spec => []ReportIsOfFile
<1>1. RunInv => ReportIsOfFile
  BY DEF RunInv, ReportsOK, ReportOK, Tells, ReportIsOfFile
<1> QED BY <1>1, RunInvariance, PTL
=============================================================================
