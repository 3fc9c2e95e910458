--------------------------- MODULE CommandPageProofs ---------------------------
(***************************************************************************)
(* Theorems about CommandPage, for every number of saves, lines, runs,     *)
(* openings and reconnections, and every set of savers.                    *)
(*                                                                         *)
(* The page shows the row because the last save is always somewhere on its *)
(* way; a line is on the page once because at every moment it is in one    *)
(* place: what was read from the file, one message, or the page.           *)
(***************************************************************************)
EXTENDS CommandPage, FiniteSetTheorems, TLAPS

\* Where the row r may be: not told, on its way to the page, or shown.
Accounted(r) ==
  \/ r \in missed \/ r \in answers \/ r = newest
  \/ \E s \in Savers : savers[s] = r
  \/ \E j \in DOMAIN wire : wire[j].type = "status" /\ wire[j].row = r

RowInv ==
  /\ newest <= row
  /\ \A s \in Savers : savers[s] <= row
  /\ \A r \in answers : r <= row
  /\ \A j \in DOMAIN wire : wire[j].row <= row
  /\ page.open /\ ~page.loading => Accounted(row)

Says(s, l) == \E i \in DOMAIN s : s[i] = l
OnceIn(s, l) == \E i \in DOMAIN s : s[i] = l /\ \A j \in DOMAIN s : s[j] = l => j = i

\* The line l is in one place of those the page has, or will have, lines from.
OnPage(l) == OnceIn(page.logs, l) /\ \A j \in DOMAIN wire : ~Says(wire[j].lines, l)
OnWire(l) ==
  /\ ~Says(page.logs, l)
  /\ \E j \in DOMAIN wire :
       OnceIn(wire[j].lines, l) /\ \A k \in DOMAIN wire : k # j => ~Says(wire[k].lines, l)
Told(l) == OnPage(l) \/ OnWire(l)
Untold(l) == ~Says(page.logs, l) /\ \A j \in DOMAIN wire : ~Says(wire[j].lines, l)

\* The file has each line once, and none that is still to be appended.
FileInv ==
  /\ \A i \in DOMAIN file : lines[file[i]] # "append"
  /\ \A i, j \in DOMAIN file : file[i] = file[j] => i = j

Among(s, S) == \A i \in DOMAIN s : s[i] \in S

\* Before it has joined the room the page is sent no line, and has none.
RoomInv ==
  /\ page.open <=> reading.pc # "none"
  /\ "log" \in rooms <=> reading.pc = "joined"
  /\ \A j \in DOMAIN wire : wire[j].type = "status" => wire[j].lines = <<>>
  /\ reading.pc \notin {"joined", "lost"} =>
       page.logs = <<>> /\ \A j \in DOMAIN wire : wire[j].lines = <<>>
  /\ Among(page.logs, DOMAIN lines) /\ Among(reading.lines, DOMAIN lines)
  /\ \A j \in DOMAIN wire : Among(wire[j].lines, DOMAIN lines)

ReadInv ==
  reading.pc = "read" =>
    \A l \in DOMAIN lines : l \notin racing =>
      /\ lines[l] = "done" /\ Says(file, l) => OnceIn(reading.lines, l)
      /\ lines[l] # "done" => ~Says(reading.lines, l)

JoinedInv ==
  reading.pc = "joined" =>
    \A l \in DOMAIN lines : l \notin racing /\ l \notin cleared =>
      /\ lines[l] = "done" /\ Says(file, l) => Told(l)
      /\ lines[l] # "done" => Untold(l)

PageInv == TypeOK /\ RowInv /\ FileInv /\ RoomInv /\ ReadInv /\ JoinedInv

-----------------------------------------------------------------------------
(* Sequences.                                                              *)

LEMMA AppendFacts ==
  ASSUME NEW S, NEW s \in Seq(S), NEW x \in S
  PROVE  /\ Append(s, x) \in Seq(S)
         /\ Len(s) \in Nat /\ Len(Append(s, x)) = Len(s) + 1
         /\ DOMAIN s = 1 .. Len(s) /\ DOMAIN Append(s, x) = 1 .. (Len(s) + 1)
         /\ \A i \in DOMAIN s : Append(s, x)[i] = s[i]
         /\ Append(s, x)[Len(s) + 1] = x
  OBVIOUS

LEMMA TailFacts ==
  ASSUME NEW S, NEW s \in Seq(S), s # <<>>
  PROVE  /\ Tail(s) \in Seq(S) /\ Head(s) \in S /\ Head(s) = s[1]
         /\ Len(s) \in Nat \ {0} /\ DOMAIN s = 1 .. Len(s) /\ DOMAIN Tail(s) = 1 .. (Len(s) - 1)
         /\ \A i \in DOMAIN Tail(s) : Tail(s)[i] = s[i + 1]
  OBVIOUS

LEMMA ConcatFacts ==
  ASSUME NEW S, NEW s \in Seq(S), NEW t \in Seq(S)
  PROVE  /\ s \o t \in Seq(S)
         /\ Len(s) \in Nat /\ Len(t) \in Nat
         /\ DOMAIN s = 1 .. Len(s) /\ DOMAIN t = 1 .. Len(t)
         /\ DOMAIN (s \o t) = 1 .. (Len(s) + Len(t))
         /\ \A i \in DOMAIN s : (s \o t)[i] = s[i]
         /\ \A i \in DOMAIN t : (s \o t)[Len(s) + i] = t[i]
         /\ \A i \in DOMAIN (s \o t) : i \notin DOMAIN s => i - Len(s) \in DOMAIN t
  OBVIOUS

LEMMA WiderSeq ==
  ASSUME NEW S, NEW T, S \subseteq T, NEW s \in Seq(S)
  PROVE  s \in Seq(T)
  OBVIOUS

LEMMA SaysConcat ==
  ASSUME NEW S, NEW s \in Seq(S), NEW t \in Seq(S), NEW l
  PROVE  /\ Says(s \o t, l) <=> Says(s, l) \/ Says(t, l)
         /\ OnceIn(s, l) /\ ~Says(t, l) => OnceIn(s \o t, l)
         /\ OnceIn(t, l) /\ ~Says(s, l) => OnceIn(s \o t, l)
<1>1. DOMAIN s \subseteq DOMAIN (s \o t)
  BY ConcatFacts
<1>2. \A i \in DOMAIN t : Len(s) + i \in DOMAIN (s \o t)
  BY ConcatFacts
<1>3. Says(s \o t, l) => Says(s, l) \/ Says(t, l)
  <2> SUFFICES ASSUME NEW i \in DOMAIN (s \o t), (s \o t)[i] = l
               PROVE  Says(s, l) \/ Says(t, l)
    BY DEF Says
  <2>1. CASE i \in DOMAIN s
    BY <2>1, ConcatFacts DEF Says
  <2>2. CASE i \notin DOMAIN s
    <3>1. i - Len(s) \in DOMAIN t
      BY <2>2, ConcatFacts
    <3>2. Len(s) + (i - Len(s)) = i
      BY ConcatFacts
    <3>3. (s \o t)[Len(s) + (i - Len(s))] = t[i - Len(s)]
      BY <3>1, ConcatFacts
    <3> QED
      BY <3>1, <3>2, <3>3 DEF Says
  <2> QED
    BY <2>1, <2>2
<1>4. Says(s, l) \/ Says(t, l) => Says(s \o t, l)
  BY <1>1, <1>2, ConcatFacts DEF Says
<1>5. ASSUME OnceIn(s, l), ~Says(t, l)
      PROVE  OnceIn(s \o t, l)
  <2> PICK i \in DOMAIN s : s[i] = l /\ \A j \in DOMAIN s : s[j] = l => j = i
    BY <1>5 DEF OnceIn
  <2>1. i \in DOMAIN (s \o t) /\ (s \o t)[i] = l
    BY <1>1, ConcatFacts
  <2>2. ASSUME NEW j \in DOMAIN (s \o t), (s \o t)[j] = l
        PROVE  j = i
    <3>1. CASE j \in DOMAIN s
      BY <2>2, <3>1, ConcatFacts
    <3>2. CASE j \notin DOMAIN s
      <4>1. j - Len(s) \in DOMAIN t /\ Len(s) + (j - Len(s)) = j
        BY <3>2, ConcatFacts
      <4>2. (s \o t)[Len(s) + (j - Len(s))] = t[j - Len(s)]
        BY <4>1, ConcatFacts
      <4> QED
        BY <1>5, <2>2, <4>1, <4>2 DEF Says
    <3> QED
      BY <3>1, <3>2
  <2> QED
    BY <2>1, <2>2 DEF OnceIn
<1>6. ASSUME OnceIn(t, l), ~Says(s, l)
      PROVE  OnceIn(s \o t, l)
  <2> PICK i \in DOMAIN t : t[i] = l /\ \A j \in DOMAIN t : t[j] = l => j = i
    BY <1>6 DEF OnceIn
  <2>1. Len(s) + i \in DOMAIN (s \o t) /\ (s \o t)[Len(s) + i] = l
    BY <1>2, ConcatFacts
  <2>2. ASSUME NEW j \in DOMAIN (s \o t), (s \o t)[j] = l
        PROVE  j = Len(s) + i
    <3>1. CASE j \in DOMAIN s
      BY <1>6, <2>2, <3>1, ConcatFacts DEF Says
    <3>2. CASE j \notin DOMAIN s
      <4>1. j - Len(s) \in DOMAIN t /\ Len(s) + (j - Len(s)) = j
        BY <3>2, ConcatFacts
      <4>2. (s \o t)[Len(s) + (j - Len(s))] = t[j - Len(s)]
        BY <4>1, ConcatFacts
      <4>3. j - Len(s) = i
        BY <2>2, <4>1, <4>2
      <4> QED
        BY <4>1, <4>3
    <3> QED
      BY <3>1, <3>2
  <2> QED
    BY <2>1, <2>2 DEF OnceIn
<1> QED
  BY <1>3, <1>4, <1>5, <1>6

-----------------------------------------------------------------------------
(* Types.                                                                  *)

LEMMA InitPageInv == ASSUME PageAssumption, Init PROVE PageInv
<1>1. MaxSaves \in Nat \ {0} /\ MaxLines \in Nat /\ Silent \subseteq Savers
  BY DEF PageAssumption
<1>2. TypeOK
  BY <1>1 DEF Init, TypeOK, NoPage, Lines
<1>3. RowInv
  BY DEF Init, RowInv, NoPage
<1>4. FileInv /\ RoomInv
  BY DEF Init, FileInv, RoomInv, NoPage, Among
<1>5. ReadInv /\ JoinedInv
  BY DEF Init, ReadInv, JoinedInv
<1> QED
  BY <1>2, <1>3, <1>4, <1>5 DEF PageInv

LEMMA ShortSeq ==
  ASSUME NEW n \in Nat, NEW f \in Seq(1 .. n), \A i, j \in DOMAIN f : f[i] = f[j] => i = j
  PROVE  Len(f) <= n
<1> DEFINE k == Len(f)
<1>0. k \in Nat
  OBVIOUS
<1>1. f \in [1 .. Len(f) -> 1 .. n] /\ Len(f) \in Nat /\ DOMAIN f = 1 .. Len(f)
  OBVIOUS
<1>2. f \in Injection(1 .. Len(f), 1 .. n)
  BY <1>1 DEF Injection, IsInjective
<1>3. IsFiniteSet(1 .. n) /\ Cardinality(1 .. n) = n
  BY FS_Interval
<1>4. Cardinality(1 .. k) = k
  <2> HIDE DEF k
  <2> QED
    BY <1>0, FS_Interval
<1>5. Cardinality(1 .. Len(f)) <= Cardinality(1 .. n)
  BY <1>2, <1>3, FS_Injection
<1> QED
  BY <1>3, <1>4, <1>5 DEF k

\* The file never gets longer than the log: no line is appended to it twice.
LEMMA AppendType ==
  ASSUME TypeOK, FileInv, NEW l \in DOMAIN lines, AppendLine(l)
  PROVE  /\ lines' \in Seq({"append", "emit", "done"}) /\ DOMAIN lines' = DOMAIN lines
         /\ Len(lines') = Len(lines)
         /\ file' \in Seq(DOMAIN lines') /\ Len(file') <= Len(lines')
         /\ FileInv'
<1> USE DEF TypeOK
<1>1. /\ lines' \in Seq({"append", "emit", "done"}) /\ DOMAIN lines' = DOMAIN lines
      /\ Len(lines') = Len(lines) /\ Len(lines) \in Nat /\ DOMAIN lines = 1 .. Len(lines)
      /\ lines'[l] = "emit" /\ \A k \in DOMAIN lines : k # l => lines'[k] = lines[k]
  BY DEF AppendLine
<1>2. file' \in Seq(DOMAIN lines) /\ file' = Append(file, l)
  BY DEF AppendLine
<1>3. \A i \in DOMAIN file : file[i] \in DOMAIN lines /\ file[i] # l
  <2>1. \A i \in DOMAIN file : file[i] \in DOMAIN lines
    OBVIOUS
  <2> QED
    BY <2>1 DEF AppendLine, FileInv
<1>4. DOMAIN file = 1 .. Len(file) /\ Len(file) \in Nat /\ DOMAIN file' = 1 .. (Len(file) + 1)
      /\ file'[Len(file) + 1] = l /\ \A i \in DOMAIN file : file'[i] = file[i]
  BY <1>2, AppendFacts
<1>5. FileInv'
  <2>1. \A i \in DOMAIN file' : i \in DOMAIN file \/ i = Len(file) + 1
    BY <1>4
  <2>2. \A i \in DOMAIN file' : lines'[file'[i]] # "append"
    <3> SUFFICES ASSUME NEW i \in DOMAIN file'
                 PROVE  lines'[file'[i]] # "append"
      OBVIOUS
    <3>1. CASE i \in DOMAIN file
      <4>1. file'[i] = file[i] /\ file[i] \in DOMAIN lines /\ file[i] # l /\ lines[file[i]] # "append"
        BY <1>3, <1>4, <3>1 DEF FileInv
      <4> QED
        BY <1>1, <4>1
    <3>2. CASE i = Len(file) + 1
      BY <1>1, <1>4, <3>2
    <3> QED
      BY <2>1, <3>1, <3>2
  <2>3. \A i, j \in DOMAIN file' : file'[i] = file'[j] => i = j
    BY <1>3, <1>4, <2>1 DEF FileInv
  <2> QED
    BY <2>2, <2>3 DEF FileInv
<1>6. Len(file') <= Len(lines)
  BY <1>1, <1>2, <1>5, ShortSeq DEF FileInv
<1> QED
  BY <1>1, <1>2, <1>5, <1>6

LEMMA WireType ==
  ASSUME PageAssumption, TypeOK, NEW m \in Messages
  PROVE  Append(wire, m) \in Seq(Messages)
  BY AppendFacts DEF TypeOK

LEMMA MessageFields ==
  ASSUME TypeOK
  PROVE  \A j \in DOMAIN wire :
           /\ wire[j] \in Messages /\ wire[j].row \in 0 .. MaxSaves /\ wire[j].lines \in Seq(Lines)
           /\ wire[j].type \in {"status", "line", "read"}
<1>1. \A j \in DOMAIN wire : wire[j] \in Messages
  BY DEF TypeOK
<1>2. \A m \in Messages :
        m.row \in 0 .. MaxSaves /\ m.lines \in Seq(Lines) /\ m.type \in {"status", "line", "read"}
  BY DEF Messages
<1> QED
  BY <1>1, <1>2

LEMMA TypeStep ==
  ASSUME PageAssumption, TypeOK, FileInv, Next
  PROVE  TypeOK'
<1>0. MaxSaves \in Nat \ {0} /\ MaxLines \in Nat /\ Silent \subseteq Savers
  BY DEF PageAssumption
<1>00. \A l \in DOMAIN lines : l \in Lines /\ l \in Nat
  BY <1>0 DEF TypeOK, Lines
<1>1. ASSUME NEW s \in Savers, Save(s) PROVE TypeOK'
  <2>1. row' \in 1 .. MaxSaves /\ row + 1 \in 1 .. MaxSaves
    BY <1>0, <1>1 DEF TypeOK, Save
  <2>2. savers' \in [Savers -> 0 .. MaxSaves] /\ answers' \subseteq 1 .. MaxSaves
        /\ missed' \subseteq 0 .. MaxSaves
    BY <1>0, <1>1, <2>1 DEF TypeOK, Save
  <2> QED
    BY <1>1, <2>1, <2>2 DEF TypeOK, Save, connection, bounds
<1>2. ASSUME NEW s \in Savers, Emit(s) PROVE TypeOK'
  <2>1. savers[s] \in 1 .. MaxSaves /\ savers[s] \in 0 .. MaxSaves
    BY <1>0, <1>2 DEF TypeOK, Emit
  <2>2. savers' \in [Savers -> 0 .. MaxSaves] /\ answers' \subseteq 1 .. MaxSaves
        /\ missed' \subseteq 0 .. MaxSaves
    <3>1. savers' \in [Savers -> 0 .. MaxSaves]
      BY <1>0, <1>2, <2>1 DEF TypeOK, Emit
    <3>2. answers' = answers \cup {savers[s]} \/ answers' = answers
      BY <1>2 DEF Emit
    <3>3. missed' = missed \cup {savers[s]} \/ missed' = missed
      BY <1>2 DEF Emit
    <3> QED
      BY <2>1, <3>1, <3>2, <3>3 DEF TypeOK
  <2>3. [type |-> "status", row |-> savers[s], lines |-> <<>>] \in Messages
    BY <2>1 DEF Messages
  <2>4. wire' \in Seq(Messages)
    BY <1>2, <2>3, WireType DEF TypeOK, Emit
  <2> QED
    BY <1>2, <2>2, <2>4 DEF TypeOK, Emit, bounds
<1>3. CASE Log
  <2>1. lines' \in Seq({"append", "emit", "done"}) /\ Len(lines') = Len(lines) + 1
        /\ Len(lines) \in Nat /\ DOMAIN lines = 1 .. Len(lines) /\ DOMAIN lines' = 1 .. (Len(lines) + 1)
    BY <1>3, AppendFacts DEF TypeOK, Log
  <2>2. DOMAIN lines \subseteq DOMAIN lines' /\ Len(lines') <= MaxLines
    BY <1>0, <1>3, <2>1 DEF Log
  <2>3. file \in Seq(DOMAIN lines') /\ Len(file) <= Len(lines')
    BY <2>1, <2>2, WiderSeq DEF TypeOK
  <2> QED
    BY <1>3, <2>1, <2>2, <2>3 DEF TypeOK, Log, connection, history, bounds
<1>4. CASE NewRun
  BY <1>4 DEF TypeOK, NewRun, connection, history
<1>5. ASSUME NEW l \in DOMAIN lines, AppendLine(l) PROVE TypeOK'
  <2>1. Len(lines') <= MaxLines
    BY <1>5, AppendType DEF TypeOK
  <2> QED
    BY <1>5, <2>1, AppendType DEF TypeOK, AppendLine, connection, history, bounds
<1>6. ASSUME NEW l \in DOMAIN lines, EmitLine(l) PROVE TypeOK'
  <2>1. lines' \in Seq({"append", "emit", "done"}) /\ Len(lines') = Len(lines)
        /\ DOMAIN lines' = DOMAIN lines
    <3>1. lines \in Seq({"append", "emit", "done"}) /\ lines' = [lines EXCEPT ![l] = "done"]
      BY <1>6 DEF TypeOK, EmitLine
    <3> QED
      BY <3>1
  <2>2. l \in Lines
    BY <1>00
  <2>3. [type |-> "line", row |-> 0, lines |-> <<l>>] \in Messages
    BY <1>0, <2>2 DEF Messages
  <2>4. wire' \in Seq(Messages)
    BY <1>6, <2>3, WireType DEF TypeOK, EmitLine
  <2>5. racing' \subseteq Lines
    BY <1>6, <2>2 DEF TypeOK, EmitLine
  <2> QED
    BY <1>6, <2>1, <2>4, <2>5 DEF TypeOK, EmitLine, bounds
<1>7. CASE JoinStatus
  BY <1>7 DEF TypeOK, JoinStatus, server, history, bounds
<1>8. CASE ReadLog
  <2>1. file \in Seq(Lines)
    BY <1>00, WiderSeq DEF TypeOK
  <2>2. reading' = [pc |-> "read", lines |-> file] \/ reading' = [pc |-> "failed", lines |-> <<>>]
    BY <1>8 DEF ReadLog
  <2>3. reading' \in [pc : {"none", "sent", "read", "failed", "joined", "lost"}, lines : Seq(Lines)]
    <3>1. <<>> \in Seq(Lines)
      OBVIOUS
    <3>2. CASE reading' = [pc |-> "read", lines |-> file]
      BY <2>1, <3>2
    <3>3. CASE reading' = [pc |-> "failed", lines |-> <<>>]
      BY <3>1, <3>3
    <3> QED
      BY <2>2, <3>2, <3>3
  <2>4. racing' = racing \cup {l \in DOMAIN lines : lines[l] = "emit"} \/ racing' = racing
    BY <1>8 DEF ReadLog
  <2>5. racing' \subseteq Lines
    BY <1>00, <2>4 DEF TypeOK
  <2> QED
    BY <1>8, <2>3, <2>5 DEF TypeOK, ReadLog, server, bounds
<1>9. CASE JoinLog
  <2>1. [type |-> "read", row |-> 0, lines |-> reading.lines] \in Messages
    BY <1>0 DEF Messages, TypeOK
  <2>2. wire' \in Seq(Messages)
    BY <1>9, <2>1, WireType DEF JoinLog
  <2>3. reading' \in [pc : {"none", "sent", "read", "failed", "joined", "lost"}, lines : Seq(Lines)]
    BY <1>9 DEF JoinLog
  <2>4. rooms' \subseteq {"status", "log"}
    BY <1>9 DEF JoinLog, TypeOK
  <2>5. UNCHANGED <<row, savers, lines, file, answers, page, missed, newest, racing, cleared>>
    BY <1>9 DEF JoinLog, server, history
  <2> QED
    BY <2>2, <2>3, <2>4, <2>5 DEF TypeOK
<1>10. CASE Load
  BY <1>10 DEF TypeOK, Load, server, connection, bounds
<1>11. CASE Open
  <2>1. page' = [open |-> TRUE, loading |-> TRUE, shown |-> 0, logs |-> <<>>]
    BY <1>11 DEF Open, NoPage
  <2>2. page' \in [open : BOOLEAN, loading : BOOLEAN, shown : 0 .. MaxSaves, logs : Seq(Lines)]
    BY <1>0, <2>1
  <2>3. reading' \in [pc : {"none", "sent", "read", "failed", "joined", "lost"}, lines : Seq(Lines)]
    BY <1>11 DEF Open
  <2>4. newest' \in 0 .. MaxSaves
    BY <1>0, <1>11 DEF Open
  <2> QED
    BY <1>11, <2>2, <2>3, <2>4 DEF TypeOK, Open, server
<1>12. ASSUME NEW r \in answers, Refresh(r) PROVE TypeOK'
  <2>1. r \in 0 .. MaxSaves /\ newest' \in 0 .. MaxSaves /\ answers' \subseteq 1 .. MaxSaves
    BY <1>0, <1>12 DEF TypeOK, Refresh, Showing
  <2>2. page' = [open |-> page.open, loading |-> page.loading, shown |-> r, logs |-> <<>>]
    BY <1>12 DEF TypeOK, Refresh, Showing
  <2>3. cleared' \subseteq Lines
    BY <1>12 DEF TypeOK, Refresh
  <2> QED
    <3>1. page' \in [open : BOOLEAN, loading : BOOLEAN, shown : 0 .. MaxSaves, logs : Seq(Lines)]
      BY <2>1, <2>2 DEF TypeOK
    <3> QED
      BY <1>12, <2>1, <2>3, <3>1 DEF TypeOK, Refresh, server, connection, bounds
<1>13. CASE Receive
  <2> DEFINE m == Head(wire)
  <2>1. m \in Messages /\ wire' \in Seq(Messages)
    BY <1>13, TailFacts DEF TypeOK, Receive
  <2>2. m.row \in 0 .. MaxSaves /\ m.lines \in Seq(Lines)
    BY <2>1 DEF Messages
  <2>3. page.logs \o m.lines \in Seq(Lines)
    BY <2>2, ConcatFacts DEF TypeOK
  <2>4. newest' \in 0 .. MaxSaves
    BY <1>13, <2>2 DEF TypeOK, Receive, Showing
  <2>5. page' \in [open : BOOLEAN, loading : BOOLEAN, shown : 0 .. MaxSaves, logs : Seq(Lines)]
    BY <1>13, <2>2, <2>3 DEF TypeOK, Receive, Showing
  <2> QED
    BY <1>13, <2>1, <2>4, <2>5 DEF TypeOK, Receive, server, bounds
<1>14. CASE Reconnect
  <2>1. missed' \subseteq 0 .. MaxSaves
    <3>1. \A r \in missed' : r \in missed \/ \E i \in DOMAIN wire : r = wire[i].row
      BY <1>14 DEF Reconnect
    <3>2. \A i \in DOMAIN wire : wire[i].row \in 0 .. MaxSaves
      BY MessageFields
    <3>3. missed \subseteq 0 .. MaxSaves
      BY DEF TypeOK
    <3> QED
      BY <3>1, <3>2, <3>3
  <2>2. reading' \in [pc : {"none", "sent", "read", "failed", "joined", "lost"}, lines : Seq(Lines)]
    BY <1>14 DEF Reconnect
  <2> QED
    BY <1>14, <2>1, <2>2 DEF TypeOK, Reconnect, server
<1> QED
  BY <1>1, <1>2, <1>3, <1>4, <1>5, <1>6, <1>7, <1>8, <1>9, <1>10, <1>11, <1>12, <1>13, <1>14 DEF Next

-----------------------------------------------------------------------------
(* The row.                                                                *)

LEMMA RowStep ==
  ASSUME PageAssumption, TypeOK, RowInv, RoomInv, Next
  PROVE  RowInv'
<1>0. /\ row \in Nat /\ newest \in Nat /\ \A s \in Savers : savers[s] \in Nat
      /\ \A r \in answers : r \in Nat /\ r # 0
      /\ \A j \in DOMAIN wire : wire[j].row \in Nat
  <2>1. MaxSaves \in Nat
    BY DEF PageAssumption
  <2>2. row \in Nat /\ newest \in Nat /\ \A s \in Savers : savers[s] \in Nat
    BY <2>1 DEF TypeOK
  <2>3. \A r \in answers : r \in Nat /\ r # 0
    BY <2>1 DEF TypeOK
  <2>4. \A j \in DOMAIN wire : wire[j].row \in Nat
    BY <2>1, MessageFields
  <2> QED
    BY <2>2, <2>3, <2>4
<1>a. ASSUME NEW m \in Messages
      PROVE  /\ DOMAIN wire = 1 .. Len(wire) /\ Len(wire) \in Nat
             /\ DOMAIN Append(wire, m) = 1 .. (Len(wire) + 1)
             /\ \A j \in DOMAIN wire : Append(wire, m)[j] = wire[j]
             /\ Append(wire, m)[Len(wire) + 1] = m
  BY AppendFacts DEF TypeOK
<1>b. ASSUME NEW m \in Messages, wire' = Append(wire, m), m.row <= row
      PROVE  /\ \A j \in DOMAIN wire' : wire'[j].row <= row
             /\ \A j \in DOMAIN wire : j \in DOMAIN wire' /\ wire'[j] = wire[j]
             /\ \E j \in DOMAIN wire' : wire'[j] = m
  <2>1. \A j \in DOMAIN wire' : wire'[j] = m \/ (j \in DOMAIN wire /\ wire'[j] = wire[j])
    BY <1>a, <1>b
  <2>2. \A j \in DOMAIN wire' : wire'[j].row <= row
    BY <1>b, <2>1 DEF RowInv
  <2> QED
    BY <1>a, <1>b, <2>2
<1>1. ASSUME NEW s \in Savers, Save(s) PROVE RowInv'
  <2>1. row' = row + 1 /\ wire' = wire /\ page' = page /\ newest' = newest
    BY <1>1 DEF Save, connection
  <2>2. \A t \in Savers : savers'[t] <= row'
    <3>1. \A t \in Savers : savers'[t] \in {savers[t], 0, row + 1}
      BY <1>1 DEF TypeOK, Save
    <3>2. \A t \in Savers : savers[t] <= row /\ savers[t] \in Nat
      BY <1>0 DEF RowInv
    <3> QED
      BY <1>0, <2>1, <3>1, <3>2
  <2>3. answers' = answers \cup {row + 1} \/ answers' = answers
    BY <1>1 DEF Save
  <2>4. row' \in missed' \/ savers'[s] = row'
    BY <1>1, <2>1 DEF Save, TypeOK
  <2>5. \A r \in answers' : r <= row'
    BY <1>0, <2>1, <2>3 DEF RowInv
  <2>6. newest' <= row' /\ \A j \in DOMAIN wire' : wire'[j].row <= row'
    BY <1>0, <2>1 DEF RowInv
  <2> QED
    BY <2>2, <2>4, <2>5, <2>6 DEF RowInv, Accounted
<1>2. ASSUME NEW s \in Savers, Emit(s) PROVE RowInv'
  <2> DEFINE m == [type |-> "status", row |-> savers[s], lines |-> <<>>]
  <2>1. m \in Messages /\ m.row <= row /\ m.type = "status" /\ m.row = savers[s]
    BY DEF Messages, TypeOK, RowInv
  <2>2. row' = row /\ page' = page /\ newest' = newest
    BY <1>2 DEF Emit
  <2>3. \A t \in Savers : t # s => savers'[t] = savers[t]
    BY <1>2 DEF Emit, TypeOK
  <2>4. savers'[s] = 0
    BY <1>2 DEF Emit, TypeOK
  <2>5. \A t \in Savers : savers'[t] <= row'
    BY <1>0, <2>2, <2>3, <2>4 DEF RowInv
  <2>6. answers' = answers \cup {savers[s]} \/ answers' = answers
    BY <1>2 DEF Emit
  <2>7. \A r \in answers' : r <= row'
    BY <2>2, <2>6 DEF RowInv
  <2>8. CASE wire' = Append(wire, m) /\ missed' = missed
    <3> HIDE DEF m
    <3>1. \A j \in DOMAIN wire' : wire'[j].row <= row'
      BY <1>b, <2>1, <2>2, <2>8
    <3>2. Accounted(row) => Accounted(row)'
      BY <1>b, <2>1, <2>2, <2>3, <2>6, <2>8 DEF Accounted
    <3> QED
      BY <2>2, <2>5, <2>7, <3>1, <3>2 DEF RowInv
  <2>9. CASE wire' = wire /\ missed' = missed \cup {savers[s]}
    <3>1. Accounted(row) => Accounted(row)'
      BY <2>2, <2>3, <2>6, <2>9 DEF Accounted
    <3> QED
      BY <2>2, <2>5, <2>7, <2>9, <3>1 DEF RowInv
  <2> QED
    BY <1>2, <2>8, <2>9 DEF Emit
<1>3. ASSUME UNCHANGED <<row, savers, answers, page, missed, newest>>,
             wire' = wire \/ \E m \in Messages : wire' = Append(wire, m) /\ m.row = 0
      PROVE  RowInv'
  <2>1. CASE wire' = wire
    BY <1>3, <2>1 DEF RowInv, Accounted
  <2>2. CASE \E m \in Messages : wire' = Append(wire, m) /\ m.row = 0
    <3> PICK m \in Messages : wire' = Append(wire, m) /\ m.row = 0
      BY <2>2
    <3>1. m.row <= row
      BY <1>0
    <3>2. \A j \in DOMAIN wire' : wire'[j].row <= row'
      BY <1>3, <1>b, <3>1
    <3>3. Accounted(row) => Accounted(row)'
      BY <1>3, <1>b, <3>1 DEF Accounted
    <3> QED
      BY <1>3, <3>2, <3>3 DEF RowInv
  <2> QED
    BY <1>3, <2>1, <2>2
<1>4. CASE Log
  BY <1>3, <1>4 DEF Log, connection, history
<1>5. CASE NewRun
  BY <1>3, <1>5 DEF NewRun, connection, history
<1>6. ASSUME NEW l \in DOMAIN lines, AppendLine(l) PROVE RowInv'
  BY <1>3, <1>6 DEF AppendLine, connection, history
<1>7. ASSUME NEW l \in DOMAIN lines, EmitLine(l) PROVE RowInv'
  <2> DEFINE m == [type |-> "line", row |-> 0, lines |-> <<l>>]
  <2>1. m \in Messages /\ m.row = 0
    BY PageAssumption DEF Messages, TypeOK, Lines, PageAssumption
  <2> HIDE DEF m
  <2>2. wire' = wire \/ wire' = Append(wire, m)
    BY <1>7 DEF EmitLine, m
  <2> QED
    BY <1>3, <1>7, <2>1, <2>2 DEF EmitLine
<1>8. CASE JoinStatus
  BY <1>3, <1>8 DEF JoinStatus, server, history
<1>9. CASE ReadLog
  BY <1>3, <1>9 DEF ReadLog, server
<1>10. CASE JoinLog
  <2> DEFINE m == [type |-> "read", row |-> 0, lines |-> reading.lines]
  <2>1. m \in Messages /\ m.row = 0
    BY PageAssumption DEF Messages, TypeOK, PageAssumption
  <2> HIDE DEF m
  <2>2. wire' = Append(wire, m)
    BY <1>10 DEF JoinLog, m
  <2> QED
    BY <1>3, <1>10, <2>1, <2>2 DEF JoinLog, server, history
<1>11. CASE Load
  <2>1. row' = row /\ answers' = answers \cup {row}
    BY <1>11 DEF Load, server
  <2>2. \A r \in answers' : r <= row'
    BY <1>0, <2>1 DEF RowInv
  <2> QED
    BY <1>11, <2>1, <2>2 DEF Load, RowInv, Accounted, server, connection
<1>12. CASE Open
  <2>1. page'.loading /\ row' = row /\ savers' = savers /\ newest' = 0 /\ answers' = {} /\ wire' = <<>>
    BY <1>12 DEF Open, NoPage, server
  <2> QED
    BY <1>0, <2>1 DEF RowInv
<1>13. ASSUME NEW r \in answers, Refresh(r) PROVE RowInv'
  <2>1. /\ row' = row /\ savers' = savers /\ wire' = wire /\ missed' = missed
        /\ answers' = answers \ {r} /\ r <= row /\ r \in Nat
        /\ newest' = IF r > newest THEN r ELSE newest
        /\ page'.open = page.open /\ page'.loading = page.loading
    BY <1>0, <1>13 DEF Refresh, Showing, server, connection, RowInv, TypeOK
  <2>2. newest' <= row' /\ (newest = row => newest' = row) /\ (r = row => newest' = row)
    BY <1>0, <2>1 DEF RowInv
  <2>3. Accounted(row) => Accounted(row)'
    BY <2>1, <2>2 DEF Accounted
  <2> QED
    BY <2>1, <2>2, <2>3 DEF RowInv
<1>14. CASE Receive
  <2> DEFINE m == wire[1]
  <2>1. /\ wire # <<>> /\ wire' = Tail(wire) /\ Head(wire) = m
        /\ Len(wire) \in Nat \ {0} /\ DOMAIN wire = 1 .. Len(wire) /\ DOMAIN wire' = 1 .. (Len(wire) - 1)
        /\ \A i \in DOMAIN wire' : wire'[i] = wire[i + 1]
    BY <1>14, TailFacts DEF Receive, TypeOK
  <2>2. /\ row' = row /\ savers' = savers /\ missed' = missed /\ answers' = answers
        /\ page'.open = page.open /\ page'.loading = page.loading
    BY <1>14 DEF Receive, Showing, server, TypeOK
  <2>3. newest' = IF m.type = "status" /\ m.row > newest THEN m.row ELSE newest
    BY <1>14, <2>1 DEF Receive, Showing
  <2>4. m.row \in Nat /\ m.row <= row
    BY <1>0, <2>1 DEF RowInv
  <2>5. newest' <= row /\ (newest = row => newest' = row)
        /\ (m.type = "status" /\ m.row = row => newest' = row)
    BY <1>0, <2>3, <2>4 DEF RowInv
  <2>6. \A j \in DOMAIN wire' : j + 1 \in DOMAIN wire /\ wire'[j].row <= row
    BY <2>1 DEF RowInv
  <2>7. \A j \in DOMAIN wire : j = 1 \/ (j - 1 \in DOMAIN wire' /\ wire'[j - 1] = wire[j])
    BY <2>1
  <2>8. Accounted(row) => Accounted(row)'
    <3>1. ASSUME NEW j \in DOMAIN wire, wire[j].type = "status", wire[j].row = row
          PROVE  Accounted(row)'
      BY <2>2, <2>5, <2>7, <3>1 DEF Accounted
    <3> QED
      BY <2>2, <2>5, <3>1 DEF Accounted
  <2> QED
    BY <2>2, <2>5, <2>6, <2>8 DEF RowInv
<1>15. CASE Reconnect
  <2>1. /\ row' = row /\ savers' = savers /\ answers' = answers /\ newest' = newest /\ page' = page
        /\ wire' = <<>> /\ DOMAIN wire' = {}
        /\ missed' = missed \cup {wire[i].row : i \in {j \in DOMAIN wire : wire[j].type = "status"}}
    BY <1>15 DEF Reconnect, server
  <2>2. Accounted(row) => Accounted(row)'
    BY <2>1 DEF Accounted
  <2> QED
    BY <2>1, <2>2 DEF RowInv
<1> QED
  BY <1>1, <1>2, <1>4, <1>5, <1>6, <1>7, <1>8, <1>9, <1>10, <1>11, <1>12, <1>13, <1>14, <1>15 DEF Next

-----------------------------------------------------------------------------
(* The file and the room.                                                  *)

LEMMA FileStep ==
  ASSUME TypeOK, FileInv, Next
  PROVE  FileInv'
<1>0. \A i \in DOMAIN file : file[i] \in DOMAIN lines
  BY DEF TypeOK
<1>1. CASE UNCHANGED <<lines, file>>
  BY <1>1 DEF FileInv
<1>2. CASE Log
  <2>1. \A l \in DOMAIN lines : lines'[l] = lines[l]
    BY <1>2, AppendFacts DEF Log, TypeOK
  <2> QED
    BY <1>0, <1>2, <2>1 DEF Log, FileInv
<1>3. CASE NewRun
  BY <1>3 DEF NewRun, FileInv
<1>4. ASSUME NEW l \in DOMAIN lines, AppendLine(l) PROVE FileInv'
  BY <1>4, AppendType
<1>5. ASSUME NEW l \in DOMAIN lines, EmitLine(l) PROVE FileInv'
  <2>1. file' = file /\ \A k \in DOMAIN lines : lines'[k] = IF k = l THEN "done" ELSE lines[k]
    BY <1>5 DEF EmitLine, TypeOK
  <2> QED
    BY <1>0, <2>1 DEF FileInv
<1>6. ASSUME NEW s \in Savers, Save(s) \/ Emit(s) PROVE UNCHANGED <<lines, file>>
  BY <1>6 DEF Save, Emit
<1>7. ASSUME NEW r \in answers, Refresh(r) PROVE UNCHANGED <<lines, file>>
  BY <1>7 DEF Refresh, server
<1>8. JoinStatus \/ ReadLog \/ JoinLog \/ Load \/ Open \/ Receive \/ Reconnect => UNCHANGED <<lines, file>>
  BY DEF JoinStatus, ReadLog, JoinLog, Load, Open, Receive, Reconnect, server
<1> QED
  BY <1>1, <1>2, <1>3, <1>4, <1>5, <1>6, <1>7, <1>8 DEF Next

\* What a message appended to the queue makes of it
LEMMA Sent ==
  ASSUME TypeOK, NEW m, wire' = Append(wire, m), m \in Messages
  PROVE  /\ \A j \in DOMAIN wire : j \in DOMAIN wire' /\ wire'[j] = wire[j] /\ j # Len(wire) + 1
         /\ \A j \in DOMAIN wire' : j \notin DOMAIN wire => j = Len(wire) + 1
         /\ Len(wire) + 1 \in DOMAIN wire' /\ wire'[Len(wire) + 1] = m
<1>1. /\ DOMAIN wire = 1 .. Len(wire) /\ Len(wire) \in Nat
      /\ DOMAIN Append(wire, m) = 1 .. (Len(wire) + 1)
      /\ \A j \in DOMAIN wire : Append(wire, m)[j] = wire[j]
      /\ Append(wire, m)[Len(wire) + 1] = m
  BY AppendFacts DEF TypeOK
<1> QED
  BY <1>1

LEMMA Received ==
  ASSUME TypeOK, wire # <<>>, wire' = Tail(wire)
  PROVE  /\ 1 \in DOMAIN wire /\ Head(wire) = wire[1]
         /\ \A j \in DOMAIN wire' : j + 1 \in DOMAIN wire /\ wire'[j] = wire[j + 1] /\ j + 1 # 1
         /\ \A j \in DOMAIN wire : j = 1 \/ (j - 1 \in DOMAIN wire' /\ wire'[j - 1] = wire[j])
<1>1. /\ Head(wire) = wire[1]
      /\ Len(wire) \in Nat \ {0} /\ DOMAIN wire = 1 .. Len(wire) /\ DOMAIN wire' = 1 .. (Len(wire) - 1)
      /\ \A i \in DOMAIN wire' : wire'[i] = wire[i + 1]
  BY TailFacts DEF TypeOK
<1> QED
  BY <1>1

LEMMA ReceivedLogs ==
  ASSUME TypeOK, Receive
  PROVE  /\ wire[1].type = "status" => page'.logs = page.logs
         /\ wire[1].type # "status" => page'.logs = page.logs \o wire[1].lines
<1>1. wire # <<>> /\ Head(wire) = wire[1]
  BY Received DEF Receive
<1>2. page = [open |-> page.open, loading |-> page.loading, shown |-> page.shown, logs |-> page.logs]
  BY DEF TypeOK
<1>3. CASE wire[1].type = "status"
  <2>1. page' = [page EXCEPT !.shown = wire[1].row, !.logs = page.logs]
    BY <1>1, <1>3 DEF Receive, Showing
  <2> QED
    BY <1>2, <1>3, <2>1
<1>4. CASE wire[1].type # "status"
  <2>1. page' = [page EXCEPT !.logs = page.logs \o wire[1].lines]
    BY <1>1, <1>4 DEF Receive
  <2> QED
    BY <1>2, <1>4, <2>1
<1> QED
  BY <1>3, <1>4

LEMMA RoomStep ==
  ASSUME PageAssumption, TypeOK, RoomInv, Next
  PROVE  RoomInv'
<1>1. ASSUME UNCHANGED <<rooms, reading, wire, page>>, DOMAIN lines \subseteq DOMAIN lines'
      PROVE  RoomInv'
  BY <1>1 DEF RoomInv, Among
<1>2. ASSUME NEW m \in Messages, wire' = Append(wire, m), m.lines = <<>>,
             UNCHANGED <<rooms, reading, lines, page>>
      PROVE  RoomInv'
  <2>1. \A j \in DOMAIN wire' : wire'[j] = m \/ (j \in DOMAIN wire /\ wire'[j] = wire[j])
    BY <1>2, Sent
  <2>2. Among(m.lines, DOMAIN lines')
    BY <1>2 DEF Among
  <2>3. \A j \in DOMAIN wire' : Among(wire'[j].lines, DOMAIN lines')
    BY <1>2, <2>1, <2>2 DEF RoomInv, Among
  <2>4. \A j \in DOMAIN wire' : wire'[j].type = "status" => wire'[j].lines = <<>>
    BY <1>2, <2>1 DEF RoomInv
  <2>5. (\A j \in DOMAIN wire : wire[j].lines = <<>>) => \A j \in DOMAIN wire' : wire'[j].lines = <<>>
    BY <1>2, <2>1
  <2>6. Among(page'.logs, DOMAIN lines') /\ Among(reading'.lines, DOMAIN lines')
    BY <1>2 DEF RoomInv, Among
  <2> QED
    BY <1>2, <2>3, <2>4, <2>5, <2>6 DEF RoomInv
<1>3. ASSUME NEW s \in Savers, Save(s) PROVE RoomInv'
  BY <1>1, <1>3 DEF Save, connection
<1>4. ASSUME NEW s \in Savers, Emit(s) PROVE RoomInv'
  <2> DEFINE m == [type |-> "status", row |-> savers[s], lines |-> <<>>]
  <2>1. m \in Messages /\ m.lines = <<>>
    BY DEF Messages, TypeOK
  <2> HIDE DEF m
  <2>2. wire' = wire \/ wire' = Append(wire, m)
    BY <1>4 DEF Emit, m
  <2>3. UNCHANGED <<rooms, reading, lines, page>>
    BY <1>4 DEF Emit
  <2> QED
    BY <1>1, <1>2, <2>1, <2>2, <2>3
<1>5. CASE Log
  <2>1. DOMAIN lines \subseteq DOMAIN lines'
    BY <1>5, AppendFacts DEF Log, TypeOK
  <2> QED
    BY <1>1, <1>5, <2>1 DEF Log, connection
<1>6. CASE NewRun
  BY <1>1, <1>6 DEF NewRun, connection
<1>7. ASSUME NEW l \in DOMAIN lines, AppendLine(l) PROVE RoomInv'
  BY <1>1, <1>7 DEF AppendLine, TypeOK, connection
<1>8. ASSUME NEW l \in DOMAIN lines, EmitLine(l) PROVE RoomInv'
  <2> DEFINE m == [type |-> "line", row |-> 0, lines |-> <<l>>]
  <2>1. DOMAIN lines' = DOMAIN lines /\ UNCHANGED <<rooms, reading, page>>
    BY <1>8 DEF EmitLine, TypeOK
  <2>2. CASE "log" \notin rooms
    BY <1>1, <1>8, <2>1, <2>2 DEF EmitLine
  <2>3. CASE "log" \in rooms
    <3>1. m \in Messages /\ m.type = "line" /\ m.lines = <<l>>
      BY PageAssumption DEF Messages, TypeOK, Lines, PageAssumption
    <3>2. wire' = Append(wire, m)
      BY <1>8, <2>3 DEF EmitLine
    <3> HIDE DEF m
    <3>3. \A j \in DOMAIN wire' : wire'[j] = m \/ (j \in DOMAIN wire /\ wire'[j] = wire[j])
      BY <3>1, <3>2, Sent
    <3>4. Among(m.lines, DOMAIN lines')
      BY <2>1, <3>1 DEF Among
    <3>5. \A j \in DOMAIN wire' : Among(wire'[j].lines, DOMAIN lines')
      BY <2>1, <3>3, <3>4 DEF RoomInv, Among
    <3>6. \A j \in DOMAIN wire' : wire'[j].type = "status" => wire'[j].lines = <<>>
      BY <3>1, <3>3 DEF RoomInv
    <3>7. Among(page'.logs, DOMAIN lines') /\ Among(reading'.lines, DOMAIN lines')
      BY <2>1 DEF RoomInv, Among
    <3>8. reading'.pc = "joined"
      BY <2>1, <2>3 DEF RoomInv
    <3> QED
      BY <2>1, <3>5, <3>6, <3>7, <3>8 DEF RoomInv
  <2> QED
    BY <2>2, <2>3
<1>9. CASE JoinStatus
  BY <1>9 DEF JoinStatus, RoomInv, Among, server, history
<1>10. CASE ReadLog
  <2>1. UNCHANGED <<rooms, wire, page, lines>> /\ reading.pc = "sent" /\ reading'.pc \in {"read", "failed"}
    BY <1>10 DEF ReadLog, server
  <2>2. reading'.lines = file \/ reading'.lines = <<>>
    BY <1>10 DEF ReadLog
  <2>3. Among(reading'.lines, DOMAIN lines)
    BY <2>2 DEF Among, TypeOK
  <2> QED
    BY <2>1, <2>3 DEF RoomInv, Among
<1>11. CASE JoinLog
  <2> DEFINE m == [type |-> "read", row |-> 0, lines |-> reading.lines]
  <2>1. m \in Messages /\ m.lines = reading.lines /\ m.type = "read"
    BY PageAssumption DEF Messages, TypeOK, PageAssumption
  <2> HIDE DEF m
  <2>2. /\ wire' = Append(wire, m) /\ UNCHANGED <<page, lines>>
        /\ reading' = [pc |-> "joined", lines |-> <<>>] /\ "log" \in rooms' /\ reading.pc = "read"
    BY <1>11 DEF JoinLog, m, server
  <2>3. \A j \in DOMAIN wire' : wire'[j] = m \/ (j \in DOMAIN wire /\ wire'[j] = wire[j])
    BY <2>1, <2>2, Sent
  <2>4. \A j \in DOMAIN wire' : Among(wire'[j].lines, DOMAIN lines')
    BY <2>1, <2>2, <2>3 DEF RoomInv, Among
  <2>5. \A j \in DOMAIN wire' : wire'[j].type = "status" => wire'[j].lines = <<>>
    BY <2>1, <2>3 DEF RoomInv
  <2>6. Among(page'.logs, DOMAIN lines') /\ Among(reading'.lines, DOMAIN lines')
    BY <2>2 DEF RoomInv, Among
  <2> QED
    BY <2>2, <2>4, <2>5, <2>6 DEF RoomInv
<1>12. CASE Load
  <2>1. /\ UNCHANGED <<lines, rooms, reading, wire>>
        /\ page'.open = page.open /\ page'.logs = page.logs
    BY <1>12 DEF Load, TypeOK, server, connection
  <2> QED
    BY <2>1 DEF RoomInv, Among
<1>13. CASE Open
  BY <1>13 DEF Open, NoPage, RoomInv, Among, server
<1>14. ASSUME NEW r \in answers, Refresh(r) PROVE RoomInv'
  <2>1. /\ UNCHANGED <<lines, rooms, reading, wire>>
        /\ page'.open = page.open /\ page'.logs = <<>>
    BY <1>14 DEF Refresh, Showing, TypeOK, server, connection
  <2> QED
    BY <2>1 DEF RoomInv, Among
<1>15. CASE Receive
  <2>1. wire # <<>> /\ wire' = Tail(wire) /\ UNCHANGED <<lines, rooms, reading>>
    BY <1>15 DEF Receive, server
  <2>2. page'.open = page.open
    BY <1>15 DEF Receive, Showing, TypeOK
  <2>3. page'.logs = page.logs \/ page'.logs = page.logs \o wire[1].lines
    BY <1>15, ReceivedLogs
  <2>4. /\ wire[1].lines \in Seq(Lines) /\ page.logs \in Seq(Lines)
        /\ Among(wire[1].lines, DOMAIN lines) /\ Among(page.logs, DOMAIN lines)
    BY <2>1, Received, MessageFields DEF RoomInv, TypeOK
  <2>5. Among(page.logs \o wire[1].lines, DOMAIN lines)
    <3> DEFINE s == page.logs
               t == wire[1].lines
    <3> SUFFICES ASSUME NEW i \in DOMAIN (s \o t)
                 PROVE  (s \o t)[i] \in DOMAIN lines
      BY DEF Among
    <3>0. s \in Seq(Lines) /\ t \in Seq(Lines) /\ Among(s, DOMAIN lines) /\ Among(t, DOMAIN lines)
      BY <2>4
    <3> HIDE DEF s, t
    <3>1. CASE i \in DOMAIN s
      BY <3>0, <3>1, ConcatFacts DEF Among
    <3>2. CASE i \notin DOMAIN s
      <4>1. i - Len(s) \in DOMAIN t /\ Len(s) + (i - Len(s)) = i
        BY <3>0, <3>2, ConcatFacts
      <4>2. (s \o t)[Len(s) + (i - Len(s))] = t[i - Len(s)]
        BY <3>0, <4>1, ConcatFacts
      <4> QED
        BY <3>0, <4>1, <4>2 DEF Among
    <3> QED
      BY <3>1, <3>2
  <2>6. Among(page'.logs, DOMAIN lines') /\ Among(reading'.lines, DOMAIN lines')
    BY <2>1, <2>3, <2>4, <2>5 DEF RoomInv, Among
  <2>7. \A j \in DOMAIN wire' :
          Among(wire'[j].lines, DOMAIN lines') /\ (wire'[j].type = "status" => wire'[j].lines = <<>>)
    BY <2>1, Received DEF RoomInv, Among
  <2>8. ASSUME reading.pc \notin {"joined", "lost"}
        PROVE  page'.logs = <<>> /\ \A j \in DOMAIN wire' : wire'[j].lines = <<>>
    <3>1. page.logs = <<>> /\ wire[1].lines = <<>> /\ \A j \in DOMAIN wire' : wire'[j].lines = <<>>
      BY <2>1, <2>8, Received DEF RoomInv
    <3> QED
      BY <2>3, <3>1
  <2> QED
    BY <2>1, <2>2, <2>6, <2>7, <2>8 DEF RoomInv
<1>16. CASE Reconnect
  BY <1>16 DEF Reconnect, RoomInv, Among, server
<1> QED
  BY <1>3, <1>4, <1>5, <1>6, <1>7, <1>8, <1>9, <1>10, <1>11, <1>12, <1>13, <1>14, <1>15, <1>16 DEF Next

-----------------------------------------------------------------------------
(* The lines.                                                              *)

LEMMA SaysNothing == ASSUME NEW l PROVE ~Says(<<>>, l)
  BY DEF Says

LEMMA SaysOne == ASSUME NEW l PROVE OnceIn(<<l>>, l) /\ \A k : k # l => ~Says(<<l>>, k)
<1>1. DOMAIN <<l>> = {1} /\ <<l>>[1] = l
  OBVIOUS
<1> QED
  BY <1>1 DEF Says, OnceIn

LEMMA OnceSays == ASSUME NEW s, NEW l, OnceIn(s, l) PROVE Says(s, l)
  BY DEF OnceIn, Says

LEMMA SameTold ==
  ASSUME wire' = wire, page'.logs = page.logs, NEW l
  PROVE  (Told(l) <=> Told(l)') /\ (Untold(l) <=> Untold(l)')
  BY DEF Told, Untold, OnPage, OnWire

LEMMA SendOther ==
  ASSUME TypeOK, NEW m \in Messages, wire' = Append(wire, m), page'.logs = page.logs,
         NEW l, ~Says(m.lines, l)
  PROVE  (Told(l) => Told(l)') /\ (Untold(l) => Untold(l)')
<1>1. \A j \in DOMAIN wire' : (j \in DOMAIN wire /\ wire'[j] = wire[j]) \/ wire'[j] = m
  BY Sent
<1>2. \A j \in DOMAIN wire : j \in DOMAIN wire' /\ wire'[j] = wire[j]
  BY Sent
<1>3. Untold(l) => Untold(l)'
  BY <1>1 DEF Untold
<1>4. OnPage(l) => OnPage(l)'
  BY <1>1 DEF OnPage
<1>5. ASSUME OnWire(l) PROVE OnWire(l)'
  <2> PICK j \in DOMAIN wire :
        OnceIn(wire[j].lines, l) /\ \A k \in DOMAIN wire : k # j => ~Says(wire[k].lines, l)
    BY <1>5 DEF OnWire
  <2>1. j \in DOMAIN wire' /\ OnceIn(wire'[j].lines, l)
    BY <1>2
  <2>2. \A k \in DOMAIN wire' : k # j => ~Says(wire'[k].lines, l)
    BY <1>1
  <2> QED
    BY <1>5, <2>1, <2>2 DEF OnWire
<1> QED
  BY <1>3, <1>4, <1>5 DEF Told

LEMMA SendLine ==
  ASSUME TypeOK, NEW m \in Messages, wire' = Append(wire, m), page'.logs = page.logs,
         NEW l, OnceIn(m.lines, l), Untold(l)
  PROVE  Told(l)'
<1> DEFINE n == Len(wire) + 1
<1>1. /\ n \in DOMAIN wire' /\ wire'[n] = m
      /\ \A j \in DOMAIN wire' : j # n => j \in DOMAIN wire /\ wire'[j] = wire[j]
  BY Sent
<1>2. ~Says(page'.logs, l)
  BY DEF Untold
<1>3. \A j \in DOMAIN wire' : j # n => ~Says(wire'[j].lines, l)
  BY <1>1 DEF Untold
<1> HIDE DEF n
<1> QED
  BY <1>1, <1>2, <1>3 DEF Told, OnWire

\* The page appends what the message at the head of the queue says.
LEMMA ReceiveTold ==
  ASSUME TypeOK, RoomInv, Receive, NEW l
  PROVE  (Told(l) => Told(l)') /\ (Untold(l) => Untold(l)')
<1>1. wire # <<>> /\ wire' = Tail(wire)
  BY DEF Receive
<1>2. /\ 1 \in DOMAIN wire
      /\ \A j \in DOMAIN wire' : j + 1 \in DOMAIN wire /\ wire'[j] = wire[j + 1] /\ j + 1 # 1
      /\ \A j \in DOMAIN wire : j = 1 \/ (j - 1 \in DOMAIN wire' /\ wire'[j - 1] = wire[j])
  BY <1>1, Received
<1>3. page.logs \in Seq(Lines) /\ wire[1].lines \in Seq(Lines)
  BY <1>2, MessageFields DEF TypeOK
<1>4. /\ Says(page'.logs, l) <=> Says(page.logs, l) \/ Says(wire[1].lines, l)
      /\ OnceIn(page.logs, l) /\ ~Says(wire[1].lines, l) => OnceIn(page'.logs, l)
      /\ OnceIn(wire[1].lines, l) /\ ~Says(page.logs, l) => OnceIn(page'.logs, l)
  <2>1. CASE wire[1].type = "status"
    <3>1. wire[1].lines = <<>> /\ page'.logs = page.logs
      BY <1>2, <2>1, ReceivedLogs DEF RoomInv
    <3>2. ~Says(wire[1].lines, l)
      BY <3>1, SaysNothing
    <3> QED
      BY <3>1, <3>2, OnceSays
  <2>2. CASE wire[1].type # "status"
    <3>1. page'.logs = page.logs \o wire[1].lines
      BY <2>2, ReceivedLogs
    <3> QED
      BY <1>3, <3>1, SaysConcat
  <2> QED
    BY <2>1, <2>2
<1>5. Untold(l) => Untold(l)'
  BY <1>2, <1>4 DEF Untold
<1>6. OnPage(l) => OnPage(l)'
  BY <1>2, <1>4 DEF OnPage
<1>7. ASSUME OnWire(l) PROVE Told(l)'
  <2> PICK j \in DOMAIN wire :
        OnceIn(wire[j].lines, l) /\ \A k \in DOMAIN wire : k # j => ~Says(wire[k].lines, l)
    BY <1>7 DEF OnWire
  <2>0. ~Says(page.logs, l) /\ \A k \in DOMAIN wire : k \in Nat
    BY <1>7 DEF OnWire, TypeOK
  <2>1. CASE j = 1
    <3>1. OnceIn(page'.logs, l)
      BY <1>4, <2>0, <2>1
    <3>2. \A k \in DOMAIN wire' : ~Says(wire'[k].lines, l)
      BY <1>2, <2>1
    <3> QED
      BY <3>1, <3>2 DEF Told, OnPage
  <2>2. CASE j # 1
    <3>1. j - 1 \in DOMAIN wire' /\ OnceIn(wire'[j - 1].lines, l)
      BY <1>2, <2>2
    <3>2. ~Says(page'.logs, l)
      BY <1>2, <1>4, <2>0, <2>2
    <3>3. \A k \in DOMAIN wire' : k # j - 1 => k + 1 # j
      BY <1>2, <2>0, TailFacts, <1>1 DEF TypeOK
    <3>4. \A k \in DOMAIN wire' : k # j - 1 => ~Says(wire'[k].lines, l)
      BY <1>2, <3>3
    <3> QED
      BY <3>1, <3>2, <3>4 DEF Told, OnWire
  <2> QED
    BY <2>1, <2>2
<1> QED
  BY <1>5, <1>6, <1>7 DEF Told

LEMMA AppendSays ==
  ASSUME TypeOK, NEW l \in DOMAIN lines, file' = Append(file, l), NEW k, k # l, Says(file', k)
  PROVE  Says(file, k)
<1> PICK i \in DOMAIN file' : file'[i] = k
  BY DEF Says
<1>1. /\ DOMAIN file = 1 .. Len(file) /\ Len(file) \in Nat /\ DOMAIN file' = 1 .. (Len(file) + 1)
      /\ \A j \in DOMAIN file : file'[j] = file[j]
      /\ file'[Len(file) + 1] = l
  <2>1. file \in Seq(DOMAIN lines)
    BY DEF TypeOK
  <2> QED
    BY <2>1, AppendFacts
<1>2. i # Len(file) + 1
  BY <1>1
<1>3. i \in DOMAIN file
  BY <1>1, <1>2
<1> QED
  BY <1>1, <1>3 DEF Says

LEMMA ReadStep ==
  ASSUME TypeOK, FileInv, RoomInv, ReadInv, Next
  PROVE  ReadInv'
<1>1. ASSUME reading' = reading, lines' = lines, racing' = racing,
             \A l \in DOMAIN lines : Says(file', l) => Says(file, l)
      PROVE  ReadInv'
  BY <1>1 DEF ReadInv
<1>2. ASSUME reading'.pc # "read" PROVE ReadInv'
  BY <1>2 DEF ReadInv
<1>3. ASSUME NEW s \in Savers, Save(s) \/ Emit(s) PROVE ReadInv'
  BY <1>1, <1>3 DEF Save, Emit, connection
<1>4. CASE Log
  <2>1. /\ DOMAIN lines = 1 .. Len(lines) /\ Len(lines) \in Nat /\ DOMAIN lines' = 1 .. (Len(lines) + 1)
        /\ \A l \in DOMAIN lines : lines'[l] = lines[l]
        /\ lines'[Len(lines) + 1] = "append"
    BY <1>4, AppendFacts DEF Log, TypeOK
  <2>2. reading' = reading /\ file' = file /\ racing' = racing
    BY <1>4 DEF Log, connection, history
  <2>3. ~Says(reading.lines, Len(lines) + 1)
    BY <2>1 DEF RoomInv, Among, Says
  <2>4. \A l \in DOMAIN lines' : l \in DOMAIN lines \/ l = Len(lines) + 1
    BY <2>1
  <2> QED
    BY <2>1, <2>2, <2>3, <2>4 DEF ReadInv
<1>5. CASE NewRun
  BY <1>1, <1>5, SaysNothing DEF NewRun, connection, history
<1>6. ASSUME NEW l \in DOMAIN lines, AppendLine(l) PROVE ReadInv'
  <2>1. /\ \A k \in DOMAIN lines : lines'[k] = IF k = l THEN "emit" ELSE lines[k]
        /\ DOMAIN lines' = DOMAIN lines /\ lines[l] = "append"
        /\ reading' = reading /\ racing' = racing
    BY <1>6 DEF AppendLine, TypeOK, connection, history
  <2>2. \A k \in DOMAIN lines : k # l => (Says(file', k) => Says(file, k))
    BY <1>6, AppendSays DEF AppendLine
  <2> QED
    BY <2>1, <2>2 DEF ReadInv
<1>7. ASSUME NEW l \in DOMAIN lines, EmitLine(l) PROVE ReadInv'
  <2>1. /\ \A k \in DOMAIN lines : lines'[k] = IF k = l THEN "done" ELSE lines[k]
        /\ DOMAIN lines' = DOMAIN lines
        /\ reading' = reading /\ file' = file
        /\ reading.pc = "read" => racing' = racing \cup {l}
    BY <1>7 DEF EmitLine, TypeOK
  <2> QED
    BY <2>1 DEF ReadInv
<1>8. CASE JoinStatus \/ Load \/ (\E r \in answers : Refresh(r)) \/ Receive
  BY <1>1, <1>8 DEF JoinStatus, Load, Refresh, Receive, server, connection, history
<1>9. CASE ReadLog
  <2>1. UNCHANGED <<lines, file>>
    BY <1>9 DEF ReadLog, server
  <2>2. CASE reading' = [pc |-> "read", lines |-> file]
             /\ racing' = racing \cup {l \in DOMAIN lines : lines[l] = "emit"}
    <3>1. ASSUME NEW l \in DOMAIN lines, Says(file, l) PROVE OnceIn(file, l)
      BY <3>1 DEF Says, OnceIn, FileInv
    <3>2. ASSUME NEW l \in DOMAIN lines, l \notin racing', lines[l] # "done" PROVE ~Says(file, l)
      <4>1. lines[l] = "append"
        BY <2>2, <3>2 DEF TypeOK
      <4> QED
        BY <4>1 DEF FileInv, Says
    <3> QED
      BY <2>1, <2>2, <3>1, <3>2 DEF ReadInv
  <2>3. CASE reading' = [pc |-> "failed", lines |-> <<>>]
    BY <1>2, <2>3
  <2> QED
    BY <1>9, <2>2, <2>3 DEF ReadLog
<1>10. CASE JoinLog \/ Open \/ Reconnect
  <2>1. reading'.pc # "read"
    BY <1>10 DEF JoinLog, Open, Reconnect
  <2> QED
    BY <1>2, <2>1
<1> QED
  BY <1>3, <1>4, <1>5, <1>6, <1>7, <1>8, <1>9, <1>10 DEF Next

LEMMA JoinedStep ==
  ASSUME PageAssumption, TypeOK, RoomInv, ReadInv, JoinedInv, Next
  PROVE  JoinedInv'
<1>1. ASSUME reading'.pc # "joined" PROVE JoinedInv'
  BY <1>1 DEF JoinedInv
\* Nothing but the places of the lines changes, and no line is lost from them.
<1>2. ASSUME UNCHANGED <<reading, lines, file, racing>>, cleared \subseteq cleared',
             \A l \in DOMAIN lines : l \notin cleared' =>
               (Told(l) => Told(l)') /\ (Untold(l) => Untold(l)')
      PROVE  JoinedInv'
  <2> SUFFICES ASSUME reading.pc = "joined", NEW l \in DOMAIN lines, l \notin racing, l \notin cleared'
               PROVE  /\ lines[l] = "done" /\ Says(file, l) => Told(l)'
                      /\ lines[l] # "done" => Untold(l)'
    BY <1>2 DEF JoinedInv
  <2>1. l \notin cleared
    BY <1>2
  <2> QED
    BY <1>2, <2>1 DEF JoinedInv
<1>3. ASSUME NEW s \in Savers, Save(s) PROVE JoinedInv'
  <2>1. wire' = wire /\ page' = page /\ UNCHANGED <<reading, lines, file, racing, cleared>>
    BY <1>3 DEF Save, connection
  <2> QED
    BY <1>2, <2>1, SameTold
<1>4. ASSUME NEW s \in Savers, Emit(s) PROVE JoinedInv'
  <2> DEFINE m == [type |-> "status", row |-> savers[s], lines |-> <<>>]
  <2>1. m \in Messages /\ m.lines = <<>>
    BY DEF Messages, TypeOK
  <2> HIDE DEF m
  <2>2. wire' = wire \/ wire' = Append(wire, m)
    BY <1>4 DEF Emit, m
  <2>3. page' = page /\ UNCHANGED <<reading, lines, file, racing, cleared>>
    BY <1>4 DEF Emit
  <2>4. ASSUME NEW l \in DOMAIN lines PROVE (Told(l) => Told(l)') /\ (Untold(l) => Untold(l)')
    <3>1. ~Says(m.lines, l)
      BY <2>1, SaysNothing
    <3> QED
      BY <2>1, <2>2, <2>3, <3>1, SameTold, SendOther
  <2> QED
    BY <1>2, <2>3, <2>4
<1>5. CASE Log
  <2> PICK n \in Nat : n = Len(lines) + 1
    BY DEF TypeOK
  <2>0. lines \in Seq({"append", "emit", "done"}) /\ lines' = Append(lines, "append")
    BY <1>5 DEF Log, TypeOK
  <2>1. /\ n \notin DOMAIN lines
        /\ \A l \in DOMAIN lines : lines'[l] = lines[l]
        /\ lines'[n] = "append"
        /\ \A l \in DOMAIN lines' : l \in DOMAIN lines \/ l = n
    BY <2>0, AppendFacts
  <2>2. reading' = reading /\ file' = file /\ racing' = racing /\ cleared' = cleared
        /\ wire' = wire /\ page' = page
    BY <1>5 DEF Log, connection, history
  <2>3. Untold(n)
    BY <2>1 DEF RoomInv, Among, Says, Untold
  <2>4. Untold(n)'
    BY <2>2, <2>3, SameTold
  <2>5. \A l \in DOMAIN lines : (Told(l) => Told(l)') /\ (Untold(l) => Untold(l)')
    BY <2>2, SameTold
  <2> QED
    BY <2>1, <2>2, <2>4, <2>5 DEF JoinedInv
<1>6. CASE NewRun
  <2>1. wire' = wire /\ page' = page /\ UNCHANGED <<reading, lines, racing, cleared>>
        /\ \A l \in DOMAIN lines : lines[l] = "done" /\ ~Says(file', l)
    BY <1>6, SaysNothing DEF NewRun, connection, history
  <2> QED
    BY <2>1 DEF JoinedInv
<1>7. ASSUME NEW l \in DOMAIN lines, AppendLine(l) PROVE JoinedInv'
  <2>1. /\ \A k \in DOMAIN lines : lines'[k] = IF k = l THEN "emit" ELSE lines[k]
        /\ DOMAIN lines' = DOMAIN lines /\ lines[l] = "append"
        /\ UNCHANGED <<reading, racing, cleared, wire, page>>
    BY <1>7 DEF AppendLine, TypeOK, connection, history
  <2>2. \A k \in DOMAIN lines : k # l => (Says(file', k) => Says(file, k))
    BY <1>7, AppendSays DEF AppendLine
  <2>3. \A k \in DOMAIN lines : (Told(k) => Told(k)') /\ (Untold(k) => Untold(k)')
    BY <2>1, SameTold
  <2> QED
    BY <2>1, <2>2, <2>3 DEF JoinedInv
<1>8. ASSUME NEW l \in DOMAIN lines, EmitLine(l) PROVE JoinedInv'
  <2>1. /\ \A k \in DOMAIN lines : lines'[k] = IF k = l THEN "done" ELSE lines[k]
        /\ DOMAIN lines' = DOMAIN lines /\ lines[l] = "emit"
        /\ UNCHANGED <<reading, file, page, cleared>> /\ racing \subseteq racing'
    BY <1>8 DEF EmitLine, TypeOK
  <2>2. CASE reading.pc # "joined"
    BY <1>1, <2>1, <2>2
  <2>3. CASE reading.pc = "joined"
    <3> DEFINE m == [type |-> "line", row |-> 0, lines |-> <<l>>]
    <3>1. m \in Messages /\ m.lines = <<l>>
      BY PageAssumption DEF Messages, TypeOK, Lines, PageAssumption
    <3>2. wire' = Append(wire, m)
      BY <1>8, <2>3 DEF EmitLine, RoomInv
    <3> HIDE DEF m
    <3>3. OnceIn(m.lines, l) /\ \A k : k # l => ~Says(m.lines, k)
      BY <3>1, SaysOne
    <3>4. Untold(l) => Told(l)'
      BY <2>1, <3>1, <3>2, <3>3, SendLine
    <3>5. \A k \in DOMAIN lines : k # l => (Told(k) => Told(k)') /\ (Untold(k) => Untold(k)')
      BY <2>1, <3>1, <3>2, <3>3, SendOther
    <3> QED
      BY <2>1, <2>3, <3>4, <3>5 DEF JoinedInv
  <2> QED
    BY <2>2, <2>3
<1>9. CASE JoinStatus \/ Load
  <2>1. UNCHANGED <<reading, lines, file, racing, cleared, wire>> /\ page'.logs = page.logs
    BY <1>9 DEF JoinStatus, Load, server, connection, history, TypeOK
  <2> QED
    BY <1>2, <2>1, SameTold
<1>10. CASE ReadLog \/ Open \/ Reconnect
  <2>1. reading'.pc # "joined"
    BY <1>10 DEF ReadLog, Open, Reconnect
  <2> QED
    BY <1>1, <2>1
<1>11. CASE JoinLog
  <2> DEFINE m == [type |-> "read", row |-> 0, lines |-> reading.lines]
  <2>1. m \in Messages /\ m.lines = reading.lines
    BY PageAssumption DEF Messages, TypeOK, PageAssumption
  <2> HIDE DEF m
  <2>2. wire' = Append(wire, m) /\ UNCHANGED <<page, lines, file, racing>> /\ reading.pc = "read"
    BY <1>11 DEF JoinLog, m, server, history
  <2>3. \A l \in DOMAIN lines : Untold(l)
    <3>1. page.logs = <<>> /\ \A j \in DOMAIN wire : wire[j].lines = <<>>
      BY <2>2 DEF RoomInv
    <3> QED
      BY <3>1, SaysNothing DEF Untold
  <2>4. \A l \in DOMAIN lines : OnceIn(reading.lines, l) => Told(l)'
    BY <2>1, <2>2, <2>3, SendLine
  <2>5. \A l \in DOMAIN lines : ~Says(reading.lines, l) => Untold(l)'
    BY <2>1, <2>2, <2>3, SendOther
  <2> QED
    BY <2>2, <2>4, <2>5 DEF ReadInv, JoinedInv
<1>12. ASSUME NEW r \in answers, Refresh(r) PROVE JoinedInv'
  <2>1. /\ UNCHANGED <<reading, lines, file, racing, wire>> /\ page'.logs = <<>>
        /\ cleared' = cleared \cup {page.logs[i] : i \in DOMAIN page.logs}
    BY <1>12 DEF Refresh, Showing, TypeOK, server, connection
  <2>2. ASSUME NEW l \in DOMAIN lines, l \notin cleared'
        PROVE  (Told(l) => Told(l)') /\ (Untold(l) => Untold(l)')
    <3>1. ~Says(page.logs, l) /\ ~Says(page'.logs, l)
      BY <2>1, <2>2, SaysNothing DEF Says
    <3>2. ~OnPage(l)
      BY <3>1, OnceSays DEF OnPage
    <3> QED
      BY <2>1, <3>1, <3>2 DEF Told, OnWire, Untold
  <2> QED
    BY <1>2, <2>1, <2>2
<1>13. CASE Receive
  <2>1. UNCHANGED <<reading, lines, file, racing, cleared>>
    BY <1>13 DEF Receive, server
  <2> QED
    BY <1>2, <1>13, <2>1, ReceiveTold
<1> QED
  BY <1>3, <1>4, <1>5, <1>6, <1>7, <1>8, <1>9, <1>10, <1>11, <1>12, <1>13 DEF Next

-----------------------------------------------------------------------------
(* What follows.                                                           *)

LEMMA PageStep ==
  ASSUME PageAssumption, PageInv, [Next]_vars
  PROVE  PageInv'
<1>1. CASE Next
  BY <1>1, TypeStep, RowStep, FileStep, RoomStep, ReadStep, JoinedStep DEF PageInv
<1>2. CASE UNCHANGED vars
  <2>1. TypeOK'
    BY <1>2 DEF PageInv, TypeOK, vars
  <2>2. RowInv' /\ FileInv' /\ RoomInv'
    BY <1>2 DEF PageInv, RowInv, Accounted, FileInv, RoomInv, vars
  <2>3. \A l : Told(l)' = Told(l) /\ Untold(l)' = Untold(l)
    BY <1>2 DEF Told, Untold, OnPage, OnWire, vars
  <2>4. ReadInv' /\ JoinedInv'
    BY <1>2, <2>3 DEF PageInv, ReadInv, JoinedInv, vars
  <2> QED
    BY <2>1, <2>2, <2>4 DEF PageInv
<1> QED
  BY <1>1, <1>2

LEMMA PageInvariance == Spec => []PageInv
<1> QED
  BY PageAssumption, InitPageInv, PageStep, PTL DEF Spec

\* Every variable keeps its type; above all the file never holds a line twice,
\* so that it is never longer than the log.
THEOREM PageTypeCorrect == Spec => []TypeOK
<1> QED
  BY PageInvariance, PTL DEF PageInv

\* A page that nothing is on its way to shows the last save, unless it was not
\* told of it after its load, or has shown it and was sent an older row later.
THEOREM PageCatchesUp == Spec => []PageShowsRow
<1>1. PageInv => PageShowsRow
  <2> SUFFICES ASSUME PageInv, Quiet, row \notin missed, newest # row
               PROVE  FALSE
    BY DEF PageShowsRow
  <2>1. Accounted(row)
    BY DEF PageInv, RowInv, Quiet
  <2>2. row # 0
    BY PageAssumption DEF PageInv, TypeOK, PageAssumption
  <2> QED
    BY <2>1, <2>2 DEF Accounted, Quiet
<1> QED
  BY <1>1, PageInvariance, PTL

\* A line that was read from the file or sent as an event, or both, is on the
\* page exactly once, in whatever order the file, the room and the page had it;
\* unless it raced with the reading, or the page was refreshed after it.
THEOREM LogComplete == Spec => []LogIsOnPage
<1>1. PageInv => LogIsOnPage
  <2> SUFFICES ASSUME PageInv, Quiet, reading.pc = "joined", NEW i \in DOMAIN file,
                      lines[file[i]] = "done", file[i] \notin racing \cup cleared
               PROVE  Count(file[i], page.logs) = 1
    BY DEF LogIsOnPage
  <2> DEFINE l == file[i]
  <2>1. l \in DOMAIN lines /\ Says(file, l)
    BY DEF PageInv, TypeOK, Says
  <2>2. Told(l)
    BY <2>1 DEF PageInv, JoinedInv
  <2>3. DOMAIN wire = {}
    BY DEF Quiet
  <2>4. OnceIn(page.logs, l)
    BY <2>2, <2>3 DEF Told, OnPage, OnWire
  <2>5. \E k : {j \in DOMAIN page.logs : page.logs[j] = l} = {k}
    BY <2>4 DEF OnceIn
  <2> QED
    BY <2>5, FS_Singleton DEF Count
<1> QED
  BY <1>1, PageInvariance, PTL

===============================================================================
