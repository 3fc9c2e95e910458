-------------------------- MODULE RepoServiceProofs --------------------------
(***************************************************************************)
(* Theorems about RepoService, for any repositories, requests, failures,   *)
(* crashes and losses of forks. The invariant has five parts: where each   *)
(* handler may be (HandlersInv), how the open transactions and the numbers *)
(* left for rows add up (TableInv), why a row has a clone (RowsInv), who   *)
(* makes a clone that is not ready (DiskInv), and who writes and who is to *)
(* remove an archive (ZipsInv).                                            *)
(***************************************************************************)
EXTENDS RepoService, FiniteSetTheorems, SequenceTheorems, TLAPS

Entry == [table : TableType, by : Handlers]
Disk == [clone : {"none", "part", "bare", "ready"}, of : Repos \cup {<<>>}, work : BOOLEAN]
Zip == [there : BOOLEAN, writers : SUBSET (Handlers \cup {Nobody})]
ForkType == [of : Repos \cup {<<>>}, there : BOOLEAN]
Handler == [pc : Steps, op : Ops \cup {"none"}, r : Repos \cup {<<>>}, copy : BOOLEAN,
            c : RowType, polls : 0 .. MaxPolls - 1]

\* There is a clone of r, whole or not, or it is known why there is none.
Kept(r) == disk[r].clone # "none" \/ r \in cut

\* There is an archive of r, or its removal may have taken it.
Zipped(r) == zips[r].there \/ r \in swept

\* A request that has saved the row of r, and not yet come to an end with a clone
Early == {"exists", "save"}
Owes(h, r) ==
  handlers[h].op = "create" /\ Own(h) = r /\ handlers[h].pc \notin Early \cup {"returned"}

Creates == {"exists", "save", "upstream", "look", "found", "fork", "poll", "clone", "cloning",
            "addRemote", "returned", "threw"}

\* Before the old archive is removed
BeforeSweep == {"load", "command", "commandRow", "removal", "resolve", "archive"}

HandlerOK(h) ==
  /\ handlers[h].pc = "idle" => handlers[h].op = "none"
  /\ handlers[h].pc \notin {"idle", "threw"} => Own(h) \in Repos
  /\ handlers[h].op = "create" => handlers[h].pc \in Creates
  /\ handlers[h].op = "create" /\ handlers[h].pc \in {"found", "returned"} => Kept(Own(h))
  /\ handlers[h].pc \in {"zip", "copy"} \/ At(h, {"download"}, "returned") => Zipped(Own(h))

HandlersInv == handlers \in [Handlers -> Handler] /\ \A h \in Handlers : HandlerOK(h)

\* An open transaction for each request; each of those yet to save a row has
\* a number left for it.
Active == {h \in Handlers : handlers[h].pc # "idle"}
Pending == {h \in Handlers : handlers[h].op = "create" /\ handlers[h].pc \in Early}

TableInv ==
  /\ table \in TableType /\ undo \in Seq(Entry) /\ mixed \in BOOLEAN
  /\ Len(undo) = Cardinality(Active)
  /\ requests \in 0 .. MaxRequests
  /\ table.seq + Cardinality(Pending) <= requests + 1
  /\ \A i \in DOMAIN undo : undo[i].table.seq + Cardinality(Pending) <= requests + 1

\* A row has its clone, or its creation still goes on. A transaction that was
\* begun meanwhile would bring such a row back: but it is inside the one of the
\* creation, which is therefore not the one that is rolled back first.
RowOK(rows, r) == rows[r].id # 0 => Kept(r) \/ \E h \in Handlers : Owes(h, r)
UndoOK(i, r) ==
  undo[i].table.rows[r].id # 0 =>
    Kept(r) \/ (i > 1 /\ \E h \in Handlers : Owes(h, r) /\ \A j \in i .. Len(undo) : undo[j].by # h)

RowsInv ==
  ~mixed => \A r \in Repos : RowOK(table.rows, r) /\ \A i \in DOMAIN undo : UndoOK(i, r)

\* A clone that is not ready is being made, or was cut short.
Cloning(h, r) ==
  handlers[h].op = "create" /\ Own(h) = r /\ handlers[h].pc \in {"cloning", "addRemote"}

DiskInv ==
  /\ disk \in [Repos -> Disk] /\ cut \subseteq Repos /\ forks \in [Names -> ForkType]
  /\ \A r \in Repos : disk[r].clone \in {"part", "bare"} => r \in cut \/ \E h \in Handlers : Cloning(h, r)

ToSweep(r) == {h \in Handlers : Own(h) = r /\ handlers[h].pc \in BeforeSweep}
Zipping(r) == {h \in Handlers : Own(h) = r /\ handlers[h].pc = "zip"}

ZipsInv ==
  /\ zips \in [Repos -> Zip] /\ sweeping \in [Repos -> Nat] /\ swept \subseteq Repos
  /\ \A r \in Repos :
       /\ sweeping[r] + Cardinality(ToSweep(r)) <= requests
       /\ sweeping[r] > 0 => r \in swept
       /\ zips[r].writers \subseteq {Nobody} \cup Zipping(r)

RepoInv == HandlersInv /\ TableInv /\ RowsInv /\ DiskInv /\ ZipsInv

-----------------------------------------------------------------------------
(* One handler moves, and the rest stays.                                  *)

Moved(h) ==
  /\ handlers' \in [Handlers -> Handler]
  /\ \A g \in Handlers \ {h} : handlers'[g] = handlers[g]
  /\ handlers'[h].op = handlers[h].op /\ handlers'[h].r = handlers[h].r
  /\ handlers[h].pc # "idle" /\ handlers'[h].pc # "idle"
  /\ handlers'[h].pc \in Early => handlers[h].pc \in Early
  /\ handlers'[h].pc \in BeforeSweep => handlers[h].pc \in BeforeSweep

KeptStays == \A r \in Repos : Kept(r) => Kept(r)'
ZippedStays == \A r \in Repos : Zipped(r) => Zipped(r)'

LEMMA WentTo ==
  ASSUME HandlersInv, NEW h \in Handlers, NEW pc \in Steps \ {"idle"}, Goto(h, pc),
         handlers[h].pc # "idle",
         pc \in Early => handlers[h].pc \in Early,
         pc \in BeforeSweep => handlers[h].pc \in BeforeSweep
  PROVE  Moved(h) /\ handlers'[h].pc = pc
BY DEF HandlersInv, Handler, Goto, Moved

LEMMA FiniteHandlers ==
  /\ IsFiniteSet(Active) /\ Cardinality(Active) \in Nat
  /\ IsFiniteSet(Pending) /\ Cardinality(Pending) \in Nat
  /\ \A r : IsFiniteSet(ToSweep(r)) /\ Cardinality(ToSweep(r)) \in Nat
<1>1. IsFiniteSet(Handlers)
  BY RepoAssumption
<1>2. Active \subseteq Handlers /\ Pending \subseteq Handlers /\ \A r : ToSweep(r) \subseteq Handlers
  BY DEF Active, Pending, ToSweep
<1>3. IsFiniteSet(Active) /\ IsFiniteSet(Pending) /\ \A r : IsFiniteSet(ToSweep(r))
  BY <1>1, <1>2, FS_Subset
<1> QED BY <1>3, FS_CardinalityType

LEMMA SmallerSet ==
  ASSUME NEW S, NEW T \in SUBSET S, IsFiniteSet(S)
  PROVE  IsFiniteSet(T) /\ Cardinality(T) <= Cardinality(S)
         /\ Cardinality(T) \in Nat /\ Cardinality(S) \in Nat
<1>1. IsFiniteSet(T) /\ Cardinality(T) <= Cardinality(S)
  BY FS_Subset
<1> QED BY <1>1, FS_CardinalityType

LEMMA Numbers ==
  ASSUME TableInv
  PROVE  /\ table.seq \in Nat /\ requests \in Nat /\ MaxRequests \in Nat /\ Len(undo) \in Nat
         /\ \A i \in DOMAIN undo : undo[i] \in Entry /\ undo[i].table.seq \in Nat
<1>1. undo \in Seq(Entry) /\ MaxRequests \in Nat
  BY RepoAssumption DEF TableInv
<1>2. Len(undo) \in Nat /\ \A i \in DOMAIN undo : undo[i] \in Entry
  BY <1>1
<1>3. table.seq \in Nat /\ requests \in Nat
  BY <1>1 DEF TableInv, TableType
<1>4. \A i \in DOMAIN undo : undo[i].table.seq \in Nat
  BY <1>1, <1>2 DEF Entry, TableType
<1> QED BY <1>1, <1>2, <1>3, <1>4

LEMMA TableKept ==
  ASSUME RepoInv, NEW h \in Handlers, Moved(h), UNCHANGED <<undo, requests>>,
         table' \in TableType, table'.seq = table.seq, mixed' \in BOOLEAN
  PROVE  TableInv'
<1>1. Active' = Active
  BY DEF Active, Moved
<1>2. Pending' \subseteq Pending
  BY DEF Pending, Moved
<1>3. Cardinality(Pending') <= Cardinality(Pending) /\ Cardinality(Pending') \in Nat
      /\ Cardinality(Pending) \in Nat
  BY <1>2, FiniteHandlers, SmallerSet
<1>4. table.seq \in Nat /\ requests \in Nat /\ \A i \in DOMAIN undo : undo[i].table.seq \in Nat
  BY Numbers DEF RepoInv
<1>5. table'.seq + Cardinality(Pending') <= requests' + 1
  BY <1>3, <1>4 DEF RepoInv, TableInv
<1>6. \A i \in DOMAIN undo' : undo'[i].table.seq + Cardinality(Pending') <= requests' + 1
  BY <1>3, <1>4 DEF RepoInv, TableInv
<1> QED BY <1>1, <1>5, <1>6 DEF RepoInv, TableInv

LEMMA TableStays ==
  ASSUME RepoInv, NEW h \in Handlers, Moved(h), UNCHANGED <<table, undo, mixed, requests>>
  PROVE  TableInv'
<1>1. table' \in TableType /\ table'.seq = table.seq /\ mixed' \in BOOLEAN
  BY DEF RepoInv, TableInv
<1> QED BY <1>1, TableKept

LEMMA DebtStays ==
  ASSUME HandlersInv, NEW h \in Handlers, Moved(h), HandlerOK(h)', KeptStays,
         NEW g \in Handlers, NEW r \in Repos, Owes(g, r)
  PROVE  Owes(g, r)' \/ Kept(r)'
BY DEF Moved, Owes, HandlerOK, Own, Early, Creates

LEMMA RowsStay ==
  ASSUME RepoInv, NEW h \in Handlers, Moved(h), HandlerOK(h)', KeptStays,
         UNCHANGED undo, mixed => mixed',
         ~mixed' => \A r \in Repos : table'.rows[r].id # 0 => table.rows[r].id # 0 \/ Owes(h, r)'
  PROVE  RowsInv'
<1> SUFFICES ASSUME ~mixed', NEW r \in Repos
             PROVE  RowOK(table.rows, r)' /\ \A i \in DOMAIN undo' : UndoOK(i, r)'
  BY DEF RowsInv
<1>1. RowOK(table.rows, r) /\ \A i \in DOMAIN undo : UndoOK(i, r)
  BY DEF RepoInv, RowsInv
<1>2. \A g \in Handlers : Owes(g, r) => Owes(g, r)' \/ Kept(r)'
  BY DebtStays DEF RepoInv
<1>3. RowOK(table.rows, r)'
  BY <1>1, <1>2 DEF RowOK, KeptStays
<1>4. ASSUME NEW i \in DOMAIN undo PROVE UndoOK(i, r)'
  BY <1>1, <1>2 DEF UndoOK, KeptStays
<1> QED BY <1>3, <1>4

LEMMA DiskStays ==
  ASSUME RepoInv, NEW h \in Handlers, Moved(h), UNCHANGED <<disk, cut, forks>>,
         handlers[h].pc \notin {"cloning", "addRemote"}
  PROVE  DiskInv'
<1>1. \A g \in Handlers, r \in Repos : Cloning(g, r) => Cloning(g, r)'
  BY DEF Moved, Cloning, Own
<1> QED BY <1>1 DEF RepoInv, DiskInv

LEMMA ZipsStay ==
  ASSUME RepoInv, NEW h \in Handlers, Moved(h), UNCHANGED <<zips, sweeping, swept, requests>>,
         handlers[h].pc # "zip"
  PROVE  ZipsInv'
<1> SUFFICES ASSUME NEW r \in Repos
             PROVE  /\ sweeping[r] + Cardinality(ToSweep(r)') <= requests
                    /\ zips[r].writers \subseteq {Nobody} \cup Zipping(r)'
  BY DEF RepoInv, ZipsInv
<1>1. ToSweep(r)' \subseteq ToSweep(r) /\ Zipping(r) \subseteq Zipping(r)'
  BY DEF Moved, ToSweep, Zipping, Own
<1>2. Cardinality(ToSweep(r)') <= Cardinality(ToSweep(r)) /\ Cardinality(ToSweep(r)') \in Nat
      /\ Cardinality(ToSweep(r)) \in Nat
  BY <1>1, FiniteHandlers, SmallerSet
<1>3. sweeping[r] \in Nat /\ requests \in Nat
  BY RepoAssumption DEF RepoInv, ZipsInv, TableInv
<1> QED BY <1>1, <1>2, <1>3 DEF RepoInv, ZipsInv

LEMMA HandlersStay ==
  ASSUME RepoInv, NEW h \in Handlers, Moved(h), HandlerOK(h)', KeptStays, ZippedStays
  PROVE  HandlersInv'
<1>1. ASSUME NEW g \in Handlers, g # h PROVE HandlerOK(g)'
  <2>1. handlers'[g] = handlers[g] /\ HandlerOK(g) /\ handlers[g] \in Handler
    BY <1>1 DEF Moved, RepoInv, HandlersInv
  <2>2. handlers[g].pc \notin {"idle", "threw"} =>
          Own(g) \in Repos /\ (Kept(Own(g)) => Kept(Own(g))') /\ (Zipped(Own(g)) => Zipped(Own(g))')
    BY <2>1 DEF HandlerOK, KeptStays, ZippedStays, Own
  <2> QED BY <2>1, <2>2 DEF HandlerOK, Own, At
<1> QED BY <1>1 DEF HandlersInv, Moved

\* Nothing but where the handler is changes.
LEMMA JustMoved ==
  ASSUME RepoInv, NEW h \in Handlers, Moved(h), HandlerOK(h)',
         UNCHANGED <<database, disk, archives, cut, bounds>>, forks' \in [Names -> ForkType],
         handlers[h].pc \notin {"cloning", "addRemote", "zip"}
  PROVE  RepoInv'
<1>1. UNCHANGED <<table, undo, mixed, disk, cut, zips, sweeping, swept, requests>>
  BY DEF database, archives, bounds
<1>2. KeptStays /\ ZippedStays
  BY <1>1 DEF KeptStays, ZippedStays, Kept, Zipped
<1>3. HandlersInv' /\ TableInv' /\ RowsInv' /\ ZipsInv'
  BY <1>1, <1>2, HandlersStay, TableStays, RowsStay, ZipsStay
<1>4. DiskInv'
  <2>1. \A g \in Handlers, r \in Repos : Cloning(g, r) => Cloning(g, r)'
    BY DEF Moved, Cloning, Own
  <2> QED BY <1>1, <2>1 DEF RepoInv, DiskInv
<1> QED BY <1>3, <1>4 DEF RepoInv

-----------------------------------------------------------------------------
(* The steps that change no more than where the handler is.                *)

LEMMA LoadInv == ASSUME RepoInv, NEW h \in Handlers, Load(h) PROVE RepoInv'
<1>1. /\ handlers[h] \in Handler /\ HandlerOK(h) /\ handlers[h].pc = "load" /\ Own(h) \in Repos
      /\ Row(Own(h)) \in RowType
  BY DEF Load, RepoInv, HandlersInv, HandlerOK, TableInv, TableType, Row
<1>2. PICK pc : handlers' = [handlers EXCEPT ![h].c = Row(Own(h)), ![h].pc = pc]
           /\ pc = IF Row(Own(h)).id = 0 THEN "threw"
                   ELSE CASE handlers[h].op = "remove" -> IF Row(Own(h)).cmd = "none" THEN "removal" ELSE "command"
                          [] handlers[h].op \in {"lock", "unlock"} -> "write"
                          [] handlers[h].op = "download" -> "resolve"
                          [] OTHER -> "returned"
  BY DEF Load
<1>3. pc \in {"threw", "removal", "command", "write", "resolve", "returned"}
      /\ (pc = "returned" => handlers[h].op # "download")
  BY <1>2
<1>4. Moved(h) /\ handlers'[h].pc = pc
  BY <1>1, <1>2, <1>3 DEF RepoInv, HandlersInv, Handler, Moved, Steps, Early, BeforeSweep
<1>5. HandlerOK(h)'
  BY <1>1, <1>3, <1>4 DEF HandlerOK, Moved, Own, At, Creates
<1> QED BY <1>1, <1>4, <1>5, JustMoved DEF Load, RepoInv, DiskInv

\* A creation goes on.
LEMMA CreateGoesOn ==
  ASSUME RepoInv, NEW h \in Handlers, NEW pc \in Creates \ {"save"}, At(h, {"create"}, handlers[h].pc),
         handlers[h].pc \notin {"idle", "threw"}, Moved(h), handlers'[h].pc = pc,
         pc \in {"found", "returned"} => Kept(Own(h))'
  PROVE  HandlerOK(h)'
<1>1. HandlerOK(h)
  BY DEF RepoInv, HandlersInv
<1>2. handlers'[h].op = "create" /\ handlers[h].pc \in Creates
  BY <1>1 DEF At, Moved, HandlerOK
<1> QED BY <1>1, <1>2 DEF HandlerOK, Moved, Own, At, Creates

LEMMA CheckExistsInv == ASSUME RepoInv, NEW h \in Handlers, CheckExists(h) PROVE RepoInv'
<1>1. PICK pc \in {"threw", "save"} : Goto(h, pc)
  BY DEF CheckExists
<1>2. At(h, {"create"}, "exists") /\ HandlersInv /\ HandlerOK(h)
  BY DEF CheckExists, RepoInv, HandlersInv
<1>3. Moved(h) /\ handlers'[h].pc = pc
  BY <1>1, <1>2, WentTo DEF At, Steps, Early, BeforeSweep
<1>4. HandlerOK(h)'
  BY <1>2, <1>3 DEF HandlerOK, Moved, Own, At, Creates
<1> QED BY <1>2, <1>3, <1>4, JustMoved DEF CheckExists, RepoInv, DiskInv, At

LEMMA CheckUpstreamInv == ASSUME RepoInv, NEW h \in Handlers, CheckUpstream(h) PROVE RepoInv'
<1>1. PICK pc \in {"threw", "look"} : Goto(h, pc)
  BY DEF CheckUpstream
<1>2. At(h, {"create"}, "upstream") /\ HandlersInv
  BY DEF CheckUpstream, RepoInv
<1>3. Moved(h) /\ handlers'[h].pc = pc
  BY <1>1, <1>2, WentTo DEF At, Steps, Early, BeforeSweep
<1>4. HandlerOK(h)'
  BY <1>2, <1>3, CreateGoesOn DEF At, Creates
<1> QED BY <1>2, <1>3, <1>4, JustMoved DEF CheckUpstream, RepoInv, DiskInv, At

LEMMA LookForCloneInv == ASSUME RepoInv, NEW h \in Handlers, LookForClone(h) PROVE RepoInv'
<1>1. PICK pc \in {"found", "fork"} : Goto(h, pc) /\ (pc = "found" => disk[Own(h)].clone # "none")
  BY DEF LookForClone
<1>2. At(h, {"create"}, "look") /\ HandlersInv
  BY DEF LookForClone, RepoInv
<1>3. Moved(h) /\ handlers'[h].pc = pc
  BY <1>1, <1>2, WentTo DEF At, Steps, Early, BeforeSweep
<1>4. pc = "found" => Kept(Own(h))'
  BY <1>1, <1>3 DEF Kept, LookForClone, Moved, Own
<1>5. HandlerOK(h)'
  BY <1>2, <1>3, <1>4, CreateGoesOn DEF At, Creates
<1> QED BY <1>2, <1>3, <1>5, JustMoved DEF LookForClone, RepoInv, DiskInv, At

LEMMA CreateForkInv == ASSUME RepoInv, NEW h \in Handlers, CreateFork(h) PROVE RepoInv'
<1>1. PICK pc \in {"clone", "poll", "threw"} : Goto(h, pc)
  <2>1. PICK answer \in CheckRemote(Own(h)) :
          Goto(h, CASE answer = "yes" -> "clone" [] answer = "no" -> "poll" [] OTHER -> "threw")
    BY DEF CreateFork
  <2>2. (CASE answer = "yes" -> "clone" [] answer = "no" -> "poll" [] OTHER -> "threw")
          \in {"clone", "poll", "threw"}
    OBVIOUS
  <2> QED BY <2>1, <2>2
<1>2. At(h, {"create"}, "fork") /\ HandlersInv /\ HandlerOK(h)
  BY DEF CreateFork, RepoInv, HandlersInv
<1>3. Moved(h) /\ handlers'[h].pc = pc
  BY <1>1, <1>2, WentTo DEF At, Steps, Early, BeforeSweep
<1>4. HandlerOK(h)'
  BY <1>2, <1>3, CreateGoesOn DEF At, Creates
<1>5. forks' \in [Names -> ForkType]
  <2>1. Own(h) \in Repos /\ forks \in [Names -> ForkType]
    BY <1>2 DEF At, HandlerOK, RepoInv, DiskInv
  <2>2. forks' = forks \/ forks' = [forks EXCEPT ![Own(h)[2]].of = Own(h)]
    BY DEF CreateFork
  <2> QED BY <2>1, <2>2 DEF ForkType
<1> QED BY <1>2, <1>3, <1>4, <1>5, JustMoved DEF CreateFork, At

LEMMA PollInv == ASSUME RepoInv, NEW h \in Handlers, Poll(h) PROVE RepoInv'
<1>1. At(h, {"create"}, "poll") /\ HandlersInv /\ handlers[h] \in Handler
  BY DEF Poll, RepoInv, HandlersInv
<1>2. PICK pc \in {"clone", "poll"}, polls \in 0 .. MaxPolls - 1 :
        handlers' = [handlers EXCEPT ![h].polls = polls, ![h].pc = pc]
  <2> DEFINE next == handlers[h].polls + 1
  <2>1. PICK answer : handlers' = [handlers EXCEPT
             ![h].polls = IF answer = "yes" \/ next = MaxPolls THEN 0 ELSE next,
             ![h].pc = IF answer = "yes" \/ next = MaxPolls THEN "clone" ELSE "poll"]
    BY DEF Poll
  <2>2. MaxPolls \in Nat \ {0} /\ handlers[h].polls \in 0 .. MaxPolls - 1
    BY <1>1, RepoAssumption DEF Handler
  <2>3. (IF answer = "yes" \/ next = MaxPolls THEN 0 ELSE next) \in 0 .. MaxPolls - 1
    BY <2>2
  <2>4. (IF answer = "yes" \/ next = MaxPolls THEN "clone" ELSE "poll") \in {"clone", "poll"}
    OBVIOUS
  <2> QED BY <2>1, <2>3, <2>4
<1>3. Moved(h) /\ handlers'[h].pc = pc
  BY <1>1, <1>2 DEF At, HandlersInv, Handler, Moved, Steps, Early, BeforeSweep
<1>4. HandlerOK(h)'
  BY <1>1, <1>3, CreateGoesOn DEF At, Creates
<1> QED BY <1>1, <1>3, <1>4, JustMoved DEF Poll, RepoInv, DiskInv, At

LEMMA RefuseLockedInv == ASSUME RepoInv, NEW h \in Handlers, RefuseLocked(h) PROVE RepoInv'
<1>1. PICK pc \in {"threw", "archive"} : Goto(h, pc)
  BY DEF RefuseLocked
<1>2. At(h, {"remove"}, "removal") /\ HandlersInv /\ HandlerOK(h)
  BY DEF RefuseLocked, RepoInv, HandlersInv
<1>3. Moved(h) /\ handlers'[h].pc = pc
  BY <1>1, <1>2, WentTo DEF At, Steps, Archiving, Early, BeforeSweep
<1>4. HandlerOK(h)'
  BY <1>2, <1>3 DEF HandlerOK, Moved, Own, At
<1> QED BY <1>2, <1>3, <1>4, JustMoved DEF RefuseLocked, RepoInv, DiskInv, At

LEMMA ResolveInv == ASSUME RepoInv, NEW h \in Handlers, Resolve(h) PROVE RepoInv'
<1>1. PICK pc \in {"returned", "archive"} : Goto(h, pc) /\ (pc = "returned" => zips[Own(h)].there)
  BY DEF Resolve
<1>2. At(h, {"download"}, "resolve") /\ HandlersInv /\ HandlerOK(h)
  BY DEF Resolve, RepoInv, HandlersInv
<1>3. Moved(h) /\ handlers'[h].pc = pc
  BY <1>1, <1>2, WentTo DEF At, Steps, Archiving, Early, BeforeSweep
<1>4. pc = "returned" => Zipped(Own(h))'
  BY <1>1, <1>3 DEF Zipped, Resolve, Moved, Own, archives
<1>5. HandlerOK(h)'
  BY <1>2, <1>3, <1>4 DEF HandlerOK, Moved, Own, At
<1> QED BY <1>2, <1>3, <1>5, JustMoved DEF Resolve, RepoInv, DiskInv, At

LEMMA CopyZipInv == ASSUME RepoInv, NEW h \in Handlers, CopyZip(h) PROVE RepoInv'
<1>1. PICK pc \in {"threw", "returned", "folder", "row"} :
        Goto(h, pc) /\ (pc = "returned" => zips[Own(h)].there)
  <2>1. PICK pc : /\ Goto(h, pc)
                  /\ pc = IF ~zips[Own(h)].there THEN "threw"
                          ELSE CASE handlers[h].op = "download" -> "returned"
                                 [] handlers[h].copy -> "folder"
                                 [] OTHER -> "row"
    BY DEF CopyZip
  <2> QED BY <2>1
<1>2. handlers[h].pc = "copy" /\ HandlersInv /\ HandlerOK(h)
  BY DEF CopyZip, RepoInv, HandlersInv
<1>3. Moved(h) /\ handlers'[h].pc = pc
  BY <1>1, <1>2, WentTo DEF Steps, Early, BeforeSweep
<1>4. pc = "returned" => Zipped(Own(h))'
  BY <1>1, <1>3 DEF Zipped, CopyZip, Moved, Own, archives
<1>5. HandlerOK(h)'
  BY <1>2, <1>3, <1>4 DEF HandlerOK, Moved, Own, At, Creates
<1> QED BY <1>2, <1>3, <1>5, JustMoved DEF CopyZip, RepoInv, DiskInv

-----------------------------------------------------------------------------
(* The steps that change the folder of a repository.                       *)

LEMMA DiskMoved ==
  ASSUME RepoInv, NEW h \in Handlers, Moved(h), HandlerOK(h)', KeptStays, DiskInv',
         UNCHANGED <<database, archives, bounds>>, handlers[h].pc # "zip"
  PROVE  RepoInv'
<1>1. UNCHANGED <<table, undo, mixed, zips, sweeping, swept, requests>>
  BY DEF database, archives, bounds
<1>2. ZippedStays
  BY <1>1 DEF ZippedStays, Zipped
<1> QED BY <1>1, <1>2, HandlersStay, TableStays, RowsStay, ZipsStay DEF RepoInv

\* One folder changes: it is there, or it is known why it is not.
LEMMA OneDisk ==
  ASSUME RepoInv, NEW h \in Handlers, NEW r \in Repos, NEW d \in Disk, Moved(h), Own(h) = r,
         disk' = [disk EXCEPT ![r] = d], forks' = forks,
         cut' \subseteq Repos, cut \ {r} \subseteq cut', Kept(r) => d.clone # "none" \/ r \in cut',
         d.clone \in {"part", "bare"} => r \in cut' \/ Cloning(h, r)' \/ \E g \in Handlers \ {h} : Cloning(g, r)
  PROVE  KeptStays /\ DiskInv'
<1>1. disk \in [Repos -> Disk] /\ forks \in [Names -> ForkType]
  BY DEF RepoInv, DiskInv
<1>2. disk'[r] = d /\ \A s \in Repos \ {r} : disk'[s] = disk[s]
  BY <1>1
<1>3. KeptStays
  BY <1>2 DEF KeptStays, Kept
<1>4. \A g \in Handlers \ {h}, s \in Repos : Cloning(g, s) => Cloning(g, s)'
  BY DEF Moved, Cloning, Own
<1>5. \A s \in Repos \ {r} : ~Cloning(h, s)
  BY DEF Cloning
<1>6. ASSUME NEW s \in Repos, disk'[s].clone \in {"part", "bare"}
      PROVE  s \in cut' \/ \E g \in Handlers : Cloning(g, s)'
  <2>1. CASE s = r
    BY <1>2, <1>4, <1>6, <2>1
  <2>2. CASE s # r
    BY <1>2, <1>4, <1>5, <1>6, <2>2 DEF RepoInv, DiskInv
  <2> QED BY <2>1, <2>2
<1>7. disk' \in [Repos -> Disk]
  BY <1>1
<1> QED BY <1>1, <1>3, <1>6, <1>7 DEF DiskInv

\* A handler whose repository has a folder
LEMMA OwnDisk ==
  ASSUME RepoInv, NEW h \in Handlers, handlers[h].pc \notin {"idle", "threw"}
  PROVE  /\ HandlersInv /\ HandlerOK(h) /\ handlers[h] \in Handler
         /\ Own(h) \in Repos /\ disk[Own(h)] \in Disk /\ cut \subseteq Repos /\ disk \in [Repos -> Disk]
BY DEF RepoInv, HandlersInv, HandlerOK, DiskInv

LEMMA CheckFoundInv == ASSUME RepoInv, NEW h \in Handlers, CheckFound(h) PROVE RepoInv'
<1> DEFINE r == Own(h)
           gone == [disk[r] EXCEPT !.clone = "none", !.of = <<>>]
<1>1. PICK pc \in {"returned", "fork", "threw"} :
        /\ Goto(h, pc)
        /\ \/ pc = "fork" /\ disk' = [disk EXCEPT ![r].clone = "none", ![r].of = <<>>] /\ cut' = cut \cup {r}
           \/ pc # "fork" /\ UNCHANGED <<disk, cut>>
  BY DEF CheckFound
<1>2. /\ At(h, {"create"}, "found") /\ HandlersInv /\ HandlerOK(h) /\ r \in Repos /\ disk[r] \in Disk
      /\ cut \subseteq Repos /\ disk \in [Repos -> Disk] /\ Kept(r)
  BY OwnDisk DEF CheckFound, At, HandlerOK
<1>3. Moved(h) /\ handlers'[h].pc = pc
  BY <1>1, <1>2, WentTo DEF At, Steps, Early, BeforeSweep
<1>4. gone \in Disk /\ gone.clone = "none"
  BY <1>2 DEF Disk
<1>5. KeptStays /\ DiskInv'
  <2>1. CASE UNCHANGED <<disk, cut>>
    BY <1>2, <1>3, <2>1, DiskStays DEF CheckFound, At, KeptStays, Kept
  <2>2. CASE disk' = [disk EXCEPT ![r].clone = "none", ![r].of = <<>>] /\ cut' = cut \cup {r}
    <3>1. disk' = [disk EXCEPT ![r] = gone]
      BY <1>2, <2>2 DEF Disk
    <3>2. forks' = forks /\ cut' \subseteq Repos /\ cut \ {r} \subseteq cut' /\ r \in cut'
      BY <1>2, <2>2 DEF CheckFound
    <3> HIDE DEF gone
    <3> QED BY <1>2, <1>3, <1>4, <3>1, <3>2, OneDisk
  <2> QED BY <1>1, <2>1, <2>2
<1>6. HandlerOK(h)'
  <2>1. Kept(Own(h))'
    BY <1>2, <1>3, <1>5 DEF KeptStays, Moved, Own, Kept
  <2> QED BY <1>2, <1>3, <2>1, CreateGoesOn DEF At, Creates
<1> QED BY <1>2, <1>3, <1>5, <1>6, DiskMoved DEF CheckFound, At

LEMMA StartCloneInv == ASSUME RepoInv, NEW h \in Handlers, StartClone(h) PROVE RepoInv'
<1>0. PICK r \in Repos : r = Own(h)
  BY OwnDisk DEF StartClone, At
<1> DEFINE part == [disk[r] EXCEPT !.clone = "part", !.of = Fork(r).of]
<1>1. /\ At(h, {"create"}, "clone") /\ HandlersInv /\ HandlerOK(h) /\ r = Own(h) /\ disk[r] \in Disk
      /\ cut \subseteq Repos /\ disk \in [Repos -> Disk]
  BY <1>0, OwnDisk DEF StartClone, At
<1>2. CASE Goto(h, "threw") /\ UNCHANGED <<disk, cut>>
  <2>1. Moved(h) /\ handlers'[h].pc = "threw"
    BY <1>1, <1>2, WentTo DEF At, Steps, Early, BeforeSweep
  <2>2. HandlerOK(h)'
    BY <1>1, <2>1, CreateGoesOn DEF At, Creates
  <2>3. KeptStays /\ DiskInv'
    BY <1>1, <1>2, <2>1, DiskStays DEF StartClone, At, KeptStays, Kept
  <2> QED BY <1>1, <2>1, <2>2, <2>3, DiskMoved DEF StartClone, At
<1>3. CASE /\ disk' = [disk EXCEPT ![r].clone = "part", ![r].of = Fork(r).of]
           /\ cut' = cut \ {r} /\ Goto(h, "cloning")
  <2>1. Moved(h) /\ handlers'[h].pc = "cloning"
    BY <1>1, <1>3, WentTo DEF At, Steps, Early, BeforeSweep
  <2>2. HandlerOK(h)'
    BY <1>1, <2>1, CreateGoesOn DEF At, Creates
  <2>3. part \in Disk /\ part.clone = "part" /\ disk' = [disk EXCEPT ![r] = part]
    <3>1. Fork(r) \in ForkType
      BY <1>1 DEF RepoInv, DiskInv, Fork, Names
    <3> QED BY <1>1, <1>3, <3>1 DEF Disk, ForkType
  <2>4. Cloning(h, r)'
    BY <1>1, <2>1 DEF Cloning, Moved, Own, At
  <2> HIDE DEF part
  <2>5. KeptStays /\ DiskInv'
    <3>1. forks' = forks /\ cut' \subseteq Repos /\ cut \ {r} \subseteq cut'
      BY <1>1, <1>3 DEF StartClone
    <3>2. part.clone # "none"
      BY <2>3
    <3> QED BY <1>1, <2>1, <2>3, <2>4, <3>1, <3>2, OneDisk
  <2> QED BY <1>1, <2>1, <2>2, <2>5, DiskMoved DEF StartClone, At
<1> QED BY <1>1, <1>2, <1>3 DEF StartClone

LEMMA FinishCloneInv == ASSUME RepoInv, NEW h \in Handlers, FinishClone(h) PROVE RepoInv'
<1>0. PICK r \in Repos : r = Own(h)
  BY OwnDisk DEF FinishClone, At
<1> DEFINE bare == [disk[r] EXCEPT !.clone = "bare"]
           gone == [disk[r] EXCEPT !.clone = "none", !.of = <<>>]
<1>1. /\ At(h, {"create"}, "cloning") /\ HandlersInv /\ HandlerOK(h) /\ r = Own(h) /\ disk[r] \in Disk
      /\ cut \subseteq Repos /\ disk \in [Repos -> Disk]
  BY <1>0, OwnDisk DEF FinishClone, At
<1>2. CASE disk[r].clone = "part" /\ disk' = [disk EXCEPT ![r].clone = "bare"] /\ Goto(h, "addRemote")
  <2>1. Moved(h) /\ handlers'[h].pc = "addRemote"
    BY <1>1, <1>2, WentTo DEF At, Steps, Early, BeforeSweep
  <2>2. HandlerOK(h)'
    BY <1>1, <2>1, CreateGoesOn DEF At, Creates
  <2>3. bare \in Disk /\ bare.clone = "bare" /\ disk' = [disk EXCEPT ![r] = bare] /\ disk'[r] = bare
    BY <1>1, <1>2 DEF Disk
  <2>4. Cloning(h, r)' /\ cut' = cut
    BY <1>1, <2>1, <2>3 DEF Cloning, Moved, Own, At, FinishClone
  <2> HIDE DEF bare
  <2>5. KeptStays /\ DiskInv'
    BY <1>1, <2>1, <2>3, <2>4, OneDisk DEF FinishClone
  <2> QED BY <1>1, <2>1, <2>2, <2>5, DiskMoved DEF FinishClone, At
<1>3. CASE disk' = [disk EXCEPT ![r].clone = "none", ![r].of = <<>>] /\ Goto(h, "threw")
  <2>1. Moved(h) /\ handlers'[h].pc = "threw"
    BY <1>1, <1>3, WentTo DEF At, Steps, Early, BeforeSweep
  <2>2. HandlerOK(h)'
    BY <1>1, <2>1, CreateGoesOn DEF At, Creates
  <2>3. gone \in Disk /\ gone.clone = "none" /\ disk' = [disk EXCEPT ![r] = gone] /\ disk'[r] = gone
    BY <1>1, <1>3 DEF Disk
  <2>4. cut' = cut \cup {r}
    BY <1>1, <2>3 DEF FinishClone
  <2> HIDE DEF gone
  <2>5. KeptStays /\ DiskInv'
    <3>1. forks' = forks /\ cut' \subseteq Repos /\ cut \ {r} \subseteq cut' /\ r \in cut'
      BY <1>1, <2>4 DEF FinishClone
    <3> QED BY <1>1, <2>1, <2>3, <3>1, OneDisk
  <2> QED BY <1>1, <2>1, <2>2, <2>5, DiskMoved DEF FinishClone, At
<1> QED BY <1>1, <1>2, <1>3 DEF FinishClone

LEMMA AddRemoteInv == ASSUME RepoInv, NEW h \in Handlers, AddRemote(h) PROVE RepoInv'
<1> DEFINE r == Own(h)
           ready == [disk[r] EXCEPT !.clone = "ready"]
<1>1. /\ At(h, {"create"}, "addRemote") /\ HandlersInv /\ HandlerOK(h) /\ r \in Repos /\ disk[r] \in Disk
      /\ cut \subseteq Repos /\ disk \in [Repos -> Disk]
  BY OwnDisk DEF AddRemote, At
<1>2. PICK pc \in {"returned", "threw"} :
        /\ Goto(h, pc)
        /\ \/ pc = "returned" /\ disk' = [disk EXCEPT ![r].clone = "ready"] /\ cut' = cut
           \/ pc = "threw" /\ disk' = disk /\ cut' = cut \cup {r}
  BY DEF AddRemote
<1>3. Moved(h) /\ handlers'[h].pc = pc
  BY <1>1, <1>2, WentTo DEF At, Steps, Early, BeforeSweep
<1>4. ready \in Disk /\ ready.clone = "ready" /\ disk[r] \in Disk
  BY <1>1 DEF Disk
<1>5. PICK d \in {ready, disk[r]} :
        disk' = [disk EXCEPT ![r] = d] /\ disk'[r] = d /\ (d = ready \/ r \in cut')
        /\ (pc = "returned" => d = ready)
  BY <1>1, <1>2
<1> HIDE DEF ready
<1>6. KeptStays /\ DiskInv'
  <2>1. Kept(r) => d.clone # "none" \/ r \in cut'
    BY <1>4, <1>5
  <2>2. d.clone \in {"part", "bare"} => r \in cut'
    BY <1>4, <1>5
  <2> QED BY <1>1, <1>2, <1>3, <1>4, <1>5, <2>1, <2>2, OneDisk DEF AddRemote
<1>7. HandlerOK(h)'
  <2>1. pc = "returned" => Kept(Own(h))'
    BY <1>3, <1>4, <1>5 DEF Moved, Own, Kept
  <2> QED BY <1>1, <1>3, <2>1, CreateGoesOn DEF At, Creates
<1> QED BY <1>1, <1>3, <1>6, <1>7, DiskMoved DEF AddRemote, At

LEMMA RemoveCommandFolderInv ==
  ASSUME RepoInv, NEW h \in Handlers, RemoveCommandFolder(h) PROVE RepoInv'
<1> DEFINE r == Own(h)
           idle == [disk[r] EXCEPT !.work = FALSE]
<1>1. /\ At(h, {"remove"}, "command") /\ HandlersInv /\ HandlerOK(h) /\ r \in Repos /\ disk[r] \in Disk
      /\ cut \subseteq Repos /\ disk \in [Repos -> Disk]
  BY OwnDisk DEF RemoveCommandFolder, At
<1>2. PICK pc \in {"threw", "commandRow"} :
        Goto(h, pc) /\ (disk' = disk \/ disk' = [disk EXCEPT ![r].work = FALSE])
  BY DEF RemoveCommandFolder
<1>3. Moved(h) /\ handlers'[h].pc = pc
  BY <1>1, <1>2, WentTo DEF At, Steps, Early, BeforeSweep
<1>4. HandlerOK(h)'
  BY <1>1, <1>3 DEF HandlerOK, Moved, Own, At
<1>5. idle \in Disk /\ idle.clone = disk[r].clone
  BY <1>1 DEF Disk
<1>6. PICK d \in {idle, disk[r]} : disk' = [disk EXCEPT ![r] = d] /\ d \in Disk /\ d.clone = disk[r].clone
  BY <1>1, <1>2, <1>5
<1> HIDE DEF idle
<1>7. cut' = cut /\ forks' = forks /\ ~Cloning(h, r)
  BY <1>1 DEF RemoveCommandFolder, Cloning, At
<1>8. d.clone \in {"part", "bare"} => r \in cut \/ \E g \in Handlers \ {h} : Cloning(g, r)
  BY <1>1, <1>6, <1>7 DEF RepoInv, DiskInv
<1>9. Kept(r) => d.clone # "none" \/ r \in cut
  BY <1>6 DEF Kept
<1>10. KeptStays /\ DiskInv'
  BY <1>1, <1>3, <1>6, <1>7, <1>8, <1>9, OneDisk
<1> QED BY <1>1, <1>3, <1>4, <1>10, DiskMoved DEF RemoveCommandFolder, At

LEMMA RemoveFolderInv == ASSUME RepoInv, NEW h \in Handlers, RemoveFolder(h) PROVE RepoInv'
<1>1. /\ At(h, {"remove"}, "folder") /\ HandlersInv /\ HandlerOK(h) /\ Own(h) \in Repos
      /\ cut \subseteq Repos
  BY OwnDisk DEF RemoveFolder, At
<1>2. Moved(h) /\ handlers'[h].pc = "row"
  BY <1>1, WentTo DEF At, RemoveFolder, Steps, Early, BeforeSweep
<1>3. HandlerOK(h)'
  BY <1>1, <1>2 DEF HandlerOK, Moved, Own, At
<1>4. NoDisk \in Disk /\ NoDisk.clone = "none"
  BY DEF Disk, NoDisk
<1>5. KeptStays /\ DiskInv'
  BY <1>1, <1>2, <1>4, OneDisk DEF RemoveFolder
<1> QED BY <1>1, <1>2, <1>3, <1>5, DiskMoved DEF RemoveFolder, At

-----------------------------------------------------------------------------
(* The steps that change the table.                                        *)

LEMMA TableMoved ==
  ASSUME RepoInv, NEW h \in Handlers, Moved(h), HandlerOK(h)', TableInv', mixed => mixed',
         UNCHANGED <<undo, disk, archives, forks, cut, bounds>>,
         ~mixed' => \A r \in Repos : table'.rows[r].id # 0 => table.rows[r].id # 0 \/ Owes(h, r)',
         handlers[h].pc \notin {"cloning", "addRemote", "zip"}
  PROVE  RepoInv'
<1>1. UNCHANGED <<undo, disk, cut, forks, zips, sweeping, swept, requests>>
  BY DEF archives, bounds
<1>2. KeptStays /\ ZippedStays
  BY <1>1 DEF KeptStays, ZippedStays, Kept, Zipped
<1> QED BY <1>1, <1>2, HandlersStay, RowsStay, ZipsStay, DiskStays DEF RepoInv

LEMMA OwnRow ==
  ASSUME RepoInv, NEW h \in Handlers, handlers[h].pc \notin {"idle", "threw"}
  PROVE  /\ HandlersInv /\ HandlerOK(h) /\ handlers[h] \in Handler /\ Own(h) \in Repos
         /\ table \in TableType /\ table.rows \in [Repos -> RowType] /\ Row(Own(h)) \in RowType
         /\ mixed \in BOOLEAN /\ handlers[h].c \in RowType
<1>1. HandlersInv /\ HandlerOK(h) /\ handlers[h] \in Handler /\ Own(h) \in Repos
  BY DEF RepoInv, HandlersInv, HandlerOK
<1>2. table \in TableType /\ mixed \in BOOLEAN
  BY DEF RepoInv, TableInv
<1> QED BY <1>1, <1>2 DEF Handler, TableType, Row

LEMMA NoRowType == NoRow \in RowType
BY RepoAssumption DEF NoRow, RowType

LEMMA WithoutIdType ==
  ASSUME RepoInv, NEW id
  PROVE  /\ WithoutId(id) \in [Repos -> RowType]
         /\ \A r \in Repos : WithoutId(id)[r].id # 0 => Row(r).id # 0
BY NoRowType DEF RepoInv, TableInv, TableType, WithoutId, Row, NoRow

LEMMA LockOrUnlockInv == ASSUME RepoInv, NEW h \in Handlers, LockOrUnlock(h) PROVE RepoInv'
<1>0. PICK r \in Repos : r = Own(h)
  BY OwnRow DEF LockOrUnlock, At
<1> DEFINE c == handlers[h].c
           wanted == handlers[h].op = "lock"
           row == [Row(r) EXCEPT !.id = c.id, !.locked = wanted]
           rows == [WithoutId(c.id) EXCEPT ![r] = row]
<1>1. /\ At(h, {"lock", "unlock"}, "write") /\ HandlersInv /\ HandlerOK(h) /\ table \in TableType
      /\ table.rows \in [Repos -> RowType] /\ Row(r) \in RowType /\ mixed \in BOOLEAN /\ c \in RowType
  BY <1>0, OwnRow DEF LockOrUnlock, At
<1>2. PICK pc \in {"threw", "returned"} :
        /\ Goto(h, pc)
        /\ \/ pc = "threw" /\ table' = table
           \/ pc = "returned" /\ table' = [table EXCEPT !.rows = rows]
  BY <1>0 DEF LockOrUnlock
<1>3. Moved(h) /\ handlers'[h].pc = pc
  BY <1>1, <1>2, WentTo DEF At, Steps, Early, BeforeSweep
<1>4. HandlerOK(h)'
  BY <1>1, <1>3 DEF HandlerOK, Moved, Own, At
<1>5. mixed' \in BOOLEAN /\ (mixed => mixed') /\ (pc = "returned" /\ ~mixed' => Row(r).id # 0)
  BY <1>0, <1>1, <1>3 DEF LockOrUnlock
<1>6. CASE table' = table
  BY <1>1, <1>3, <1>4, <1>5, <1>6, TableKept, TableMoved DEF LockOrUnlock, At, bounds
<1>7. CASE pc = "returned" /\ table' = [table EXCEPT !.rows = rows]
  <2>1. row \in RowType
    BY <1>1 DEF RowType
  <2> HIDE DEF row
  <2>2. /\ rows \in [Repos -> RowType]
        /\ \A s \in Repos \ {r} : rows[s].id # 0 => Row(s).id # 0
    BY <2>1, WithoutIdType
  <2> HIDE DEF rows
  <2>3. table' \in TableType /\ table'.seq = table.seq /\ table'.rows = rows
    BY <1>1, <1>7, <2>2 DEF TableType
  <2>4. TableInv'
    BY <1>3, <1>5, <2>3, TableKept DEF LockOrUnlock, bounds
  <2>5. ~mixed' => \A s \in Repos : table'.rows[s].id # 0 => table.rows[s].id # 0
    BY <1>5, <1>7, <2>2, <2>3 DEF Row
  <2> QED BY <1>1, <1>3, <1>4, <1>5, <2>4, <2>5, TableMoved DEF LockOrUnlock, At
<1> QED BY <1>2, <1>6, <1>7

LEMMA DeleteCommandInv == ASSUME RepoInv, NEW h \in Handlers, DeleteCommand(h) PROVE RepoInv'
<1>1. /\ At(h, {"remove"}, "commandRow") /\ HandlersInv /\ HandlerOK(h) /\ Own(h) \in Repos
      /\ table \in TableType /\ table.rows \in [Repos -> RowType] /\ mixed \in BOOLEAN
  BY OwnRow DEF DeleteCommand, At
<1>2. Moved(h) /\ handlers'[h].pc = "removal"
  BY <1>1, WentTo DEF DeleteCommand, At, Steps, Early, BeforeSweep
<1>3. HandlerOK(h)'
  BY <1>1, <1>2 DEF HandlerOK, Moved, Own, At
<1>4. table' \in TableType /\ table'.seq = table.seq /\ \A r \in Repos : table'.rows[r].id = table.rows[r].id
  BY <1>1 DEF DeleteCommand, TableType, RowType
<1> QED BY <1>1, <1>2, <1>3, <1>4, TableKept, TableMoved DEF DeleteCommand, At, bounds

LEMMA DeleteRowInv == ASSUME RepoInv, NEW h \in Handlers, DeleteRow(h) PROVE RepoInv'
<1>1. /\ At(h, {"remove"}, "row") /\ HandlersInv /\ HandlerOK(h) /\ Own(h) \in Repos
      /\ table \in TableType /\ mixed \in BOOLEAN
  BY OwnRow DEF DeleteRow, At
<1>2. Moved(h) /\ handlers'[h].pc = "returned"
  BY <1>1, WentTo DEF DeleteRow, At, Steps, Early, BeforeSweep
<1>3. HandlerOK(h)'
  BY <1>1, <1>2 DEF HandlerOK, Moved, Own, At
<1>4. /\ WithoutId(handlers[h].c.id) \in [Repos -> RowType]
      /\ \A r \in Repos : WithoutId(handlers[h].c.id)[r].id # 0 => Row(r).id # 0
  BY WithoutIdType
<1>5. table' = [table EXCEPT !.rows = WithoutId(handlers[h].c.id)]
  BY DEF DeleteRow
<1>6. /\ table' \in TableType /\ table'.seq = table.seq
      /\ \A r \in Repos : table'.rows[r].id # 0 => table.rows[r].id # 0
  BY <1>1, <1>4, <1>5 DEF TableType, Row
<1> QED BY <1>1, <1>2, <1>3, <1>6, TableKept, TableMoved DEF DeleteRow, At, bounds

LEMMA SaveRowInv == ASSUME RepoInv, NEW h \in Handlers, SaveRow(h) PROVE RepoInv'
<1>0. PICK r \in Repos : r = Own(h)
  BY OwnRow DEF SaveRow, At
<1>1. /\ At(h, {"create"}, "save") /\ HandlersInv /\ HandlerOK(h)
      /\ table \in TableType /\ table.rows \in [Repos -> RowType] /\ mixed \in BOOLEAN
  BY OwnRow DEF SaveRow, At
<1>2. CASE table' = table /\ Goto(h, "threw")
  <2>1. Moved(h) /\ handlers'[h].pc = "threw"
    BY <1>1, <1>2, WentTo DEF At, Steps, Early, BeforeSweep
  <2>2. HandlerOK(h)'
    BY <1>1, <2>1, CreateGoesOn DEF At, Creates
  <2> QED BY <1>1, <1>2, <2>1, <2>2, TableKept, TableMoved DEF SaveRow, At, bounds
<1> DEFINE row == [NoRow EXCEPT !.id = table.seq + 1]
           rows == [table.rows EXCEPT ![r] = row]
<1>3. CASE table' = [seq |-> table.seq + 1, rows |-> rows] /\ Goto(h, "upstream")
  <2>1. Moved(h) /\ handlers'[h].pc = "upstream"
    BY <1>1, <1>3, WentTo DEF At, Steps, Early, BeforeSweep
  <2>2. HandlerOK(h)'
    BY <1>1, <2>1, CreateGoesOn DEF At, Creates
  <2>3. h \in Pending /\ Pending' = Pending \ {h}
    BY <1>1, <2>1 DEF Pending, Moved, At, Early
  <2>4. /\ Cardinality(Pending') = Cardinality(Pending) - 1 /\ Cardinality(Pending) \in Nat
        /\ Cardinality(Pending') \in Nat
    BY <2>3, FiniteHandlers, FS_RemoveElement, FS_CardinalityType
  <2>5. /\ table.seq \in Nat /\ requests \in Nat /\ MaxRequests \in Nat /\ requests <= MaxRequests
        /\ table.seq + Cardinality(Pending) <= requests + 1
        /\ \A i \in DOMAIN undo : undo[i].table.seq \in Nat /\ undo[i].table.seq + Cardinality(Pending) <= requests + 1
    BY Numbers DEF RepoInv, TableInv
  <2>6. table.seq + 1 \in 1 .. MaxRequests + 1
    BY <2>4, <2>5
  <2>7. row \in RowType
    BY <2>6, NoRowType DEF RowType
  <2> HIDE DEF row
  <2>8. rows \in [Repos -> RowType] /\ \A s \in Repos \ {r} : rows[s] = table.rows[s]
    BY <1>1, <2>7
  <2> HIDE DEF rows
  <2>9. table' \in TableType /\ table'.seq = table.seq + 1 /\ table'.rows = rows
    BY <1>3, <2>6, <2>8 DEF TableType
  <2>10. TableInv'
    <3>1. Active' = Active
      BY <2>1 DEF Active, Moved
    <3>2. UNCHANGED <<undo, mixed, requests>>
      BY DEF SaveRow, bounds
    <3>3. table'.seq + Cardinality(Pending') <= requests' + 1
      BY <2>4, <2>5, <2>9, <3>2
    <3>4. \A i \in DOMAIN undo' : undo'[i].table.seq + Cardinality(Pending') <= requests' + 1
      BY <2>4, <2>5, <3>2
    <3> QED BY <2>9, <3>1, <3>2, <3>3, <3>4 DEF RepoInv, TableInv
  <2>11. Owes(h, r)'
    BY <1>0, <1>1, <2>1 DEF Owes, Moved, Own, At, Early
  <2>12. \A s \in Repos : table'.rows[s].id # 0 => table.rows[s].id # 0 \/ Owes(h, s)'
    BY <2>8, <2>9, <2>11
  <2> QED BY <1>1, <2>1, <2>2, <2>10, <2>12, TableMoved DEF SaveRow, At
<1> QED BY <1>0, <1>2, <1>3 DEF SaveRow

-----------------------------------------------------------------------------
(* The steps that write an archive.                                        *)

LEMMA ZipMoved ==
  ASSUME RepoInv, NEW h \in Handlers, Moved(h), HandlerOK(h)', ZippedStays, ZipsInv',
         UNCHANGED <<database, disk, forks, cut, bounds>>, handlers[h].pc \notin {"cloning", "addRemote"}
  PROVE  RepoInv'
<1>1. UNCHANGED <<table, undo, mixed, disk, cut, forks, requests>>
  BY DEF database, bounds
<1>2. KeptStays
  BY <1>1 DEF KeptStays, Kept
<1> QED BY <1>1, <1>2, HandlersStay, TableStays, RowsStay, DiskStays DEF RepoInv

LEMMA PrepareArchiveInv == ASSUME RepoInv, NEW h \in Handlers, PrepareArchive(h) PROVE RepoInv'
<1>0. PICK r \in Repos : r = Own(h)
  BY OwnRow DEF PrepareArchive
<1>1. /\ handlers[h].pc = "archive" /\ HandlersInv /\ HandlerOK(h)
      /\ sweeping \in [Repos -> Nat] /\ swept \subseteq Repos /\ zips' = zips /\ requests' = requests
  BY OwnRow DEF PrepareArchive, RepoInv, ZipsInv, bounds
<1>2. Moved(h) /\ handlers'[h].pc = "open"
  BY <1>1, WentTo DEF PrepareArchive, Steps, Archiving, Early, BeforeSweep
<1>3. HandlerOK(h)'
  BY <1>1, <1>2 DEF HandlerOK, Moved, Own, At, Creates
<1>4. /\ sweeping' \in [Repos -> Nat] /\ swept' \subseteq Repos /\ swept \subseteq swept'
      /\ \A s \in Repos \ {r} : sweeping'[s] = sweeping[s]
      /\ sweeping'[r] \in {sweeping[r], sweeping[r] + 1}
      /\ sweeping'[r] = sweeping[r] \/ r \in swept'
  BY <1>0, <1>1 DEF PrepareArchive
<1>5. ZippedStays
  BY <1>1, <1>4 DEF ZippedStays, Zipped
<1>6. \A s \in Repos : ToSweep(s)' \subseteq ToSweep(s) /\ Zipping(s) \subseteq Zipping(s)'
  BY <1>1, <1>2 DEF Moved, ToSweep, Zipping, Own
<1>7. h \in ToSweep(r) /\ ToSweep(r)' = ToSweep(r) \ {h}
  BY <1>0, <1>1, <1>2 DEF Moved, ToSweep, Own, BeforeSweep
<1>8. /\ Cardinality(ToSweep(r)') = Cardinality(ToSweep(r)) - 1
      /\ Cardinality(ToSweep(r)') \in Nat /\ Cardinality(ToSweep(r)) \in Nat
  BY <1>7, FiniteHandlers, FS_RemoveElement, FS_CardinalityType
<1>9. requests \in Nat
  BY Numbers DEF RepoInv
<1>10. ASSUME NEW s \in Repos
       PROVE  sweeping'[s] + Cardinality(ToSweep(s)') <= requests
  <2>1. sweeping[s] + Cardinality(ToSweep(s)) <= requests /\ sweeping[s] \in Nat /\ sweeping'[s] \in Nat
    BY <1>1, <1>4 DEF RepoInv, ZipsInv
  <2>2. CASE s = r
    BY <1>4, <1>8, <1>9, <2>1, <2>2
  <2>3. CASE s # r
    <3>1. Cardinality(ToSweep(s)') <= Cardinality(ToSweep(s)) /\ Cardinality(ToSweep(s)') \in Nat
          /\ Cardinality(ToSweep(s)) \in Nat
      BY <1>6, FiniteHandlers, SmallerSet
    <3> QED BY <1>4, <1>9, <2>1, <2>3, <3>1
  <2> QED BY <2>2, <2>3
<1>11. ZipsInv'
  BY <1>1, <1>4, <1>6, <1>10 DEF RepoInv, ZipsInv
<1> QED BY <1>1, <1>2, <1>3, <1>5, <1>11, ZipMoved DEF PrepareArchive

\* The archive of one repository is opened or written.
LEMMA OneZip ==
  ASSUME RepoInv, NEW h \in Handlers, NEW r \in Repos, NEW z \in Zip, Moved(h), Own(h) = r,
         zips' = [zips EXCEPT ![r] = z], UNCHANGED <<sweeping, swept, requests>>,
         zips[r].there => z.there,
         z.writers \subseteq (zips[r].writers \ {h}) \cup {g \in {h} : handlers'[h].pc = "zip"}
  PROVE  ZippedStays /\ ZipsInv'
<1>1. zips \in [Repos -> Zip] /\ zips' \in [Repos -> Zip] /\ zips'[r] = z
      /\ \A s \in Repos \ {r} : zips'[s] = zips[s]
  BY DEF RepoInv, ZipsInv
<1>2. ZippedStays
  BY <1>1 DEF ZippedStays, Zipped
<1>3. ASSUME NEW s \in Repos
      PROVE  /\ sweeping'[s] + Cardinality(ToSweep(s)') <= requests'
             /\ sweeping'[s] > 0 => s \in swept'
  <2>1. ToSweep(s)' \subseteq ToSweep(s)
    BY DEF Moved, ToSweep, Own
  <2>2. Cardinality(ToSweep(s)') <= Cardinality(ToSweep(s)) /\ Cardinality(ToSweep(s)') \in Nat
        /\ Cardinality(ToSweep(s)) \in Nat
    BY <2>1, FiniteHandlers, SmallerSet
  <2>3. sweeping[s] \in Nat /\ requests \in Nat
    BY Numbers DEF RepoInv, ZipsInv
  <2> QED BY <2>2, <2>3 DEF RepoInv, ZipsInv
<1>4. ASSUME NEW s \in Repos PROVE zips'[s].writers \subseteq {Nobody} \cup Zipping(s)'
  <2>1. zips[s].writers \subseteq {Nobody} \cup Zipping(s)
    BY DEF RepoInv, ZipsInv
  <2>2. \A g \in Zipping(s) : g # h => g \in Zipping(s)'
    BY DEF Zipping, Moved, Own
  <2>3. CASE s = r
    <3>1. handlers'[h].pc = "zip" => h \in Zipping(r)'
      BY DEF Zipping, Moved, Own
    <3> QED BY <1>1, <2>1, <2>2, <2>3, <3>1
  <2>4. CASE s # r
    <3>1. h \notin Zipping(s)
      BY <2>4 DEF Zipping
    <3> QED BY <1>1, <2>1, <2>2, <2>4, <3>1
  <2> QED BY <2>3, <2>4
<1> QED BY <1>1, <1>2, <1>3, <1>4 DEF RepoInv, ZipsInv

LEMMA OpenZipInv == ASSUME RepoInv, NEW h \in Handlers, OpenZip(h) PROVE RepoInv'
<1>0. PICK r \in Repos : r = Own(h)
  BY OwnRow DEF OpenZip
<1> DEFINE z == [there |-> TRUE, writers |-> (zips[r].writers \ {Nobody}) \cup {h}]
<1>1. handlers[h].pc = "open" /\ HandlersInv /\ HandlerOK(h) /\ zips \in [Repos -> Zip]
  BY OwnRow DEF OpenZip, RepoInv, ZipsInv
<1>2. Moved(h) /\ handlers'[h].pc = "zip"
  BY <1>1, WentTo DEF OpenZip, Steps, Archiving, Early, BeforeSweep
<1>3. z \in Zip /\ z.there /\ z.writers \subseteq (zips[r].writers \ {h}) \cup {h}
  BY <1>1 DEF Zip
<1>4. zips' = [zips EXCEPT ![r] = z] /\ zips'[r].there
  BY <1>0, <1>1, <1>3 DEF OpenZip
<1> HIDE DEF z
<1>5. ZippedStays /\ ZipsInv'
  BY <1>0, <1>2, <1>3, <1>4, OneZip DEF OpenZip, bounds
<1>6. HandlerOK(h)'
  <2>1. Zipped(Own(h))'
    BY <1>0, <1>2, <1>4 DEF Zipped, Moved, Own
  <2> QED BY <1>1, <1>2, <2>1 DEF HandlerOK, Moved, Own, At, Creates
<1> QED BY <1>1, <1>2, <1>5, <1>6, ZipMoved DEF OpenZip

LEMMA WriteZipInv == ASSUME RepoInv, NEW h \in Handlers, WriteZip(h) PROVE RepoInv'
<1>0. PICK r \in Repos : r = Own(h)
  BY OwnRow DEF WriteZip
<1> DEFINE z == [zips[r] EXCEPT !.writers = zips[r].writers \ {h}]
<1>1. handlers[h].pc = "zip" /\ HandlersInv /\ HandlerOK(h) /\ zips \in [Repos -> Zip] /\ zips[r] \in Zip
  BY OwnRow DEF WriteZip, RepoInv, ZipsInv
<1>2. Moved(h) /\ handlers'[h].pc = "copy"
  BY <1>1, WentTo DEF WriteZip, Steps, Archiving, Early, BeforeSweep
<1>3. z \in Zip /\ z.there = zips[r].there /\ z.writers \subseteq zips[r].writers \ {h}
  BY <1>1 DEF Zip
<1>4. zips' = [zips EXCEPT ![r] = z]
  BY <1>0, <1>1 DEF WriteZip, Zip
<1> HIDE DEF z
<1>5. ZippedStays /\ ZipsInv'
  <2>1. UNCHANGED <<sweeping, swept, requests>> /\ (zips[r].there => z.there)
    BY <1>3 DEF WriteZip, bounds
  <2>2. z.writers \subseteq (zips[r].writers \ {h}) \cup {g \in {h} : handlers'[h].pc = "zip"}
    BY <1>3
  <2> QED BY <1>0, <1>2, <1>3, <1>4, <2>1, <2>2, OneZip
<1>6. HandlerOK(h)'
  <2>1. Zipped(Own(h))'
    BY <1>0, <1>1, <1>2, <1>5 DEF HandlerOK, ZippedStays, Zipped, Moved, Own
  <2> QED BY <1>1, <1>2, <2>1 DEF HandlerOK, Moved, Own, At, Creates
<1> QED BY <1>1, <1>2, <1>5, <1>6, ZipMoved DEF WriteZip

LEMMA WorkInv ==
  ASSUME RepoInv, NEW h \in Handlers,
         Load(h) \/ LockOrUnlock(h) \/ CreateStep(h) \/ RemoveStep(h) \/ ArchiveStep(h)
  PROVE  RepoInv'
<1>1. CASE Load(h) \/ LockOrUnlock(h)
  BY <1>1, LoadInv, LockOrUnlockInv
<1>2. CASE CreateStep(h)
  BY <1>2, CheckExistsInv, SaveRowInv, CheckUpstreamInv, LookForCloneInv, CheckFoundInv, CreateForkInv,
     PollInv, StartCloneInv, FinishCloneInv, AddRemoteInv DEF CreateStep
<1>3. CASE RemoveStep(h)
  BY <1>3, RemoveCommandFolderInv, DeleteCommandInv, RefuseLockedInv, RemoveFolderInv, DeleteRowInv
     DEF RemoveStep
<1>4. CASE ArchiveStep(h)
  BY <1>4, ResolveInv, PrepareArchiveInv, OpenZipInv, WriteZipInv, CopyZipInv DEF ArchiveStep
<1> QED BY <1>1, <1>2, <1>3, <1>4

-----------------------------------------------------------------------------
(* Requests begin and end.                                                 *)

LEMMA SetPlusOne ==
  ASSUME NEW S, NEW T, NEW h, IsFiniteSet(S), T \subseteq S \cup {h}
  PROVE  IsFiniteSet(T) /\ Cardinality(T) <= Cardinality(S) + 1
         /\ Cardinality(T) \in Nat /\ Cardinality(S) \in Nat
<1>1. IsFiniteSet(S \cup {h}) /\ Cardinality(S) \in Nat
      /\ Cardinality(S \cup {h}) = IF h \in S THEN Cardinality(S) ELSE Cardinality(S) + 1
  BY FS_AddElement, FS_CardinalityType
<1>2. Cardinality(S \cup {h}) <= Cardinality(S) + 1
  BY <1>1
<1>3. IsFiniteSet(T) /\ Cardinality(T) <= Cardinality(S \cup {h}) /\ Cardinality(T) \in Nat
      /\ Cardinality(S \cup {h}) \in Nat
  BY <1>1, SmallerSet
<1> QED BY <1>1, <1>2, <1>3

\* Whose handler alone changes
LEMMA OthersOK ==
  ASSUME HandlersInv, NEW h \in Handlers, handlers' \in [Handlers -> Handler],
         \A g \in Handlers \ {h} : handlers'[g] = handlers[g], HandlerOK(h)',
         UNCHANGED <<disk, cut, zips, swept>>
  PROVE  HandlersInv'
BY DEF HandlersInv, HandlerOK, Own, At, Kept, Zipped

LEMMA RequestInv == ASSUME RepoInv, NEW h \in Handlers, Request(h) PROVE RepoInv'
<1>1. PICK op \in Ops, copy \in BOOLEAN, r \in Repos \cup {<<>>} :
        /\ op # "create" => r \in Repos
        /\ handlers' = [handlers EXCEPT ![h] =
             [Idle EXCEPT !.op = op, !.r = r, !.copy = copy,
                !.pc = IF r = <<>> THEN "threw" ELSE IF op = "create" THEN "exists" ELSE "load"]]
  <2>1. PICK op \in Ops, copy \in BOOLEAN :
          \E r \in IF op = "create" THEN {Parsed(t) : t \in Typed} ELSE Repos :
            handlers' = [handlers EXCEPT ![h] =
              [Idle EXCEPT !.op = op, !.r = r, !.copy = copy,
                 !.pc = IF r = <<>> THEN "threw" ELSE IF op = "create" THEN "exists" ELSE "load"]]
    BY DEF Request
  <2>2. PICK r \in IF op = "create" THEN {Parsed(t) : t \in Typed} ELSE Repos :
            handlers' = [handlers EXCEPT ![h] =
              [Idle EXCEPT !.op = op, !.r = r, !.copy = copy,
                 !.pc = IF r = <<>> THEN "threw" ELSE IF op = "create" THEN "exists" ELSE "load"]]
    BY <2>1
  <2>3. r \in Repos \cup {<<>>} /\ (op # "create" => r \in Repos)
    BY <2>2, TypedAssumption
  <2> QED BY <2>2, <2>3
<1> DEFINE pc == IF r = <<>> THEN "threw" ELSE IF op = "create" THEN "exists" ELSE "load"
           new == [Idle EXCEPT !.op = op, !.r = r, !.copy = copy, !.pc = pc]
<1>2. /\ handlers[h].pc = "idle" /\ HandlersInv /\ HandlerOK(h) /\ requests < MaxRequests
      /\ requests' = requests + 1 /\ undo' = Append(undo, [table |-> table, by |-> h])
      /\ UNCHANGED <<table, mixed, disk, cut, forks, zips, sweeping, swept>>
  BY DEF Request, RepoInv, HandlersInv, archives
<1>3. op \in AllOps /\ pc \in {"threw", "exists", "load"} /\ (pc # "threw" => r \in Repos)
      /\ (pc = "exists" => op = "create") /\ (pc = "load" => op # "create")
  BY RepoAssumption, <1>1
<1>4. /\ new \in Handler /\ new.op = op /\ new.pc = pc /\ new.r = r /\ handlers' = [handlers EXCEPT ![h] = new]
  <2>1. Idle.c \in RowType /\ 0 \in 0 .. MaxPolls - 1
    BY NoRowType, RepoAssumption DEF Idle
  <2> QED BY <1>1, <1>3, <2>1 DEF Handler, Idle, Steps
<1> HIDE DEF pc, new
<1>5. /\ handlers' \in [Handlers -> Handler] /\ handlers'[h] = new
      /\ \A g \in Handlers \ {h} : handlers'[g] = handlers[g]
  BY <1>2, <1>4 DEF HandlersInv
<1>6. HandlerOK(h)'
  BY <1>3, <1>4, <1>5 DEF HandlerOK, Own, At, AllOps, Creates
<1>7. HandlersInv'
  BY <1>2, <1>5, <1>6, OthersOK
<1>8. \A g \in Handlers, r0 \in Repos : Owes(g, r0) => g # h /\ Owes(g, r0)'
  BY <1>2, <1>5 DEF Owes, Own, HandlerOK
<1>9. /\ undo' \in Seq(Entry) /\ Len(undo') = Len(undo) + 1 /\ Len(undo) \in Nat
      /\ \A i \in 1 .. Len(undo) : undo'[i] = undo[i]
      /\ undo'[Len(undo) + 1] = [table |-> table, by |-> h]
  <2>1. undo \in Seq(Entry) /\ [table |-> table, by |-> h] \in Entry
    BY DEF RepoInv, TableInv, Entry
  <2> QED BY <1>2, <2>1, AppendProperties
<1>10. DOMAIN undo' = 1 .. Len(undo) + 1 /\ DOMAIN undo = 1 .. Len(undo)
  BY <1>9 DEF RepoInv, TableInv
<1>11. h \notin Active /\ Active' = Active \cup {h}
  BY <1>2, <1>3, <1>4, <1>5 DEF Active
<1>12. Cardinality(Active') = Cardinality(Active) + 1
  BY <1>11, FiniteHandlers, FS_AddElement
<1>13. TableInv'
  <2>1. Pending' \subseteq Pending \cup {h}
    BY <1>5 DEF Pending
  <2>2. Cardinality(Pending') <= Cardinality(Pending) + 1 /\ Cardinality(Pending') \in Nat
        /\ Cardinality(Pending) \in Nat
    BY <2>1, FiniteHandlers, SetPlusOne
  <2>3. /\ table.seq \in Nat /\ requests \in Nat /\ MaxRequests \in Nat
        /\ table.seq + Cardinality(Pending) <= requests + 1
        /\ \A i \in 1 .. Len(undo) : undo[i].table.seq \in Nat /\ undo[i].table.seq + Cardinality(Pending) <= requests + 1
    BY <1>10, Numbers DEF RepoInv, TableInv
  <2>4. requests' \in 0 .. MaxRequests /\ table'.seq + Cardinality(Pending') <= requests' + 1
    BY <1>2, <2>2, <2>3
  <2>5. ASSUME NEW i \in DOMAIN undo' PROVE undo'[i].table.seq + Cardinality(Pending') <= requests' + 1
    <3>1. CASE i = Len(undo) + 1
      BY <1>2, <1>9, <2>4, <3>1
    <3>2. CASE i \in 1 .. Len(undo)
      <4>1. undo'[i] = undo[i]
        BY <1>9, <3>2
      <4>2. undo[i].table.seq \in Nat /\ undo[i].table.seq + Cardinality(Pending) <= requests + 1
        BY <2>3, <3>2
      <4>3. undo'[i].table.seq + Cardinality(Pending') <= undo[i].table.seq + Cardinality(Pending) + 1
        BY <2>2, <4>1, <4>2
      <4>4. requests' = requests + 1 /\ requests \in Nat
        BY <1>2, <2>3
      <4> QED BY <2>2, <4>1, <4>2, <4>3, <4>4
    <3> QED BY <1>9, <1>10, <3>1, <3>2
  <2> QED BY <1>2, <1>9, <1>12, <2>4, <2>5 DEF RepoInv, TableInv
<1>14. RowsInv'
  <2> SUFFICES ASSUME ~mixed', NEW s \in Repos
               PROVE  RowOK(table.rows, s)' /\ \A i \in DOMAIN undo' : UndoOK(i, s)'
    BY DEF RowsInv
  <2>1. RowOK(table.rows, s) /\ \A i \in DOMAIN undo : UndoOK(i, s)
    BY <1>2 DEF RepoInv, RowsInv
  <2>2. Kept(s)' = Kept(s)
    BY <1>2 DEF Kept
  <2>3. RowOK(table.rows, s)'
    BY <1>2, <1>8, <2>1, <2>2 DEF RowOK
  <2>4. ASSUME NEW i \in 1 .. Len(undo) PROVE UndoOK(i, s)'
    <3>1. ASSUME NEW g \in Handlers, Owes(g, s), \A j \in i .. Len(undo) : undo[j].by # g
          PROVE  Owes(g, s)' /\ \A j \in i .. Len(undo') : undo'[j].by # g
      BY <1>8, <1>9, <3>1
    <3> QED BY <1>9, <1>10, <2>1, <2>2, <3>1 DEF UndoOK
  <2>5. PICK n \in Nat : n = Len(undo) + 1
    BY <1>9
  <2>6. UndoOK(n, s)'
    <3> SUFFICES ASSUME table.rows[s].id # 0, ~Kept(s)
                 PROVE  /\ n > 1
                        /\ \E g \in Handlers : Owes(g, s)' /\ \A j \in n .. Len(undo') : undo'[j].by # g
      BY <1>9, <2>2, <2>5 DEF UndoOK
    <3>1. PICK g \in Handlers : Owes(g, s)
      BY <2>1 DEF RowOK
    <3>2. g # h /\ Owes(g, s)' /\ g \in Active
      BY <1>8, <3>1 DEF Owes, Active, HandlerOK, RepoInv, HandlersInv, Creates
    <3>3. Cardinality(Active) # 0 /\ Len(undo) = Cardinality(Active)
      BY <3>2, FiniteHandlers, FS_EmptySet DEF RepoInv, TableInv
    <3>4. \A j \in n .. Len(undo') : undo'[j].by # g
      BY <1>9, <2>5, <3>2
    <3> QED BY <1>9, <2>5, <3>2, <3>3, <3>4
  <2>7. \A i \in DOMAIN undo' : i \in 1 .. Len(undo) \/ i = n
    BY <1>9, <1>10, <2>5
  <2> QED BY <2>3, <2>4, <2>6, <2>7
<1>15. DiskInv'
  <2>1. \A g \in Handlers, s \in Repos : Cloning(g, s) => Cloning(g, s)'
    BY <1>2, <1>5 DEF Cloning, Own, HandlerOK
  <2> QED BY <1>2, <2>1 DEF RepoInv, DiskInv
<1>16. ZipsInv'
  <2> SUFFICES ASSUME NEW s \in Repos
               PROVE  /\ sweeping[s] + Cardinality(ToSweep(s)') <= requests + 1
                      /\ zips[s].writers \subseteq {Nobody} \cup Zipping(s)'
    BY <1>2 DEF RepoInv, ZipsInv
  <2>1. ToSweep(s)' \subseteq ToSweep(s) \cup {h} /\ Zipping(s) \subseteq Zipping(s)'
    BY <1>2, <1>5 DEF ToSweep, Zipping, Own
  <2>2. Cardinality(ToSweep(s)') <= Cardinality(ToSweep(s)) + 1 /\ Cardinality(ToSweep(s)') \in Nat
        /\ Cardinality(ToSweep(s)) \in Nat
    BY <2>1, FiniteHandlers, SetPlusOne
  <2>3. sweeping[s] \in Nat /\ requests \in Nat /\ sweeping[s] + Cardinality(ToSweep(s)) <= requests
    BY Numbers DEF RepoInv, ZipsInv
  <2> QED BY <2>1, <2>2, <2>3 DEF RepoInv, ZipsInv
<1> QED BY <1>7, <1>13, <1>14, <1>15, <1>16 DEF RepoInv

LEMMA IdleOK == Idle \in Handler
<1>1. NoRow \in RowType /\ 0 \in 0 .. MaxPolls - 1
  BY NoRowType, RepoAssumption
<1> QED BY <1>1 DEF Idle, Handler, Steps

\* The stack without its innermost transaction
LEMMA UndoCut ==
  ASSUME undo \in Seq(Entry), Len(undo) > 0, undo' = SubSeq(undo, 1, Len(undo) - 1)
  PROVE  /\ undo' \in Seq(Entry) /\ DOMAIN undo' = 1 .. Len(undo')
         /\ Len(undo') = Len(undo) - 1 /\ Len(undo) \in DOMAIN undo
         /\ \A k \in DOMAIN undo' : k \in DOMAIN undo /\ k < Len(undo) /\ undo'[k] = undo[k]
<1>1. Len(undo) \in Nat /\ DOMAIN undo = 1 .. Len(undo)
  OBVIOUS
<1> DEFINE n == Len(undo) - 1
<1>2. n \in Nat /\ \A i \in 1 .. n : undo[i] \in Entry
  BY <1>1
<1>3. /\ SubSeq(undo, 1, n) \in Seq(Entry)
      /\ Len(SubSeq(undo, 1, n)) = IF 1 <= n THEN n - 1 + 1 ELSE 0
      /\ \A i \in 1 .. n - 1 + 1 : SubSeq(undo, 1, n)[i] = undo[1 + i - 1]
  BY <1>2, SubSeqProperties
<1>4. undo' = SubSeq(undo, 1, n) /\ Len(undo) = n + 1
  BY <1>1
<1> HIDE DEF n
<1>5. undo' \in Seq(Entry) /\ Len(undo') = n
  BY <1>2, <1>3, <1>4
<1>6. \A i \in 1 .. n : undo'[i] = undo[i]
  BY <1>2, <1>3, <1>4
<1>7. DOMAIN undo' = 1 .. n
  BY <1>5
<1> QED BY <1>1, <1>2, <1>4, <1>5, <1>6, <1>7

LEMMA Ended ==
  ASSUME RepoInv, NEW h \in Handlers, handlers[h].pc # "idle", End(h), mixed' \in BOOLEAN,
         table' = table \/ table' = Innermost.table
  PROVE  /\ HandlersInv' /\ TableInv'
         /\ handlers[h].pc \notin {"cloning", "addRemote"} => DiskInv'
         /\ handlers[h].pc # "zip" => ZipsInv'
         /\ \A r \in Repos : Kept(r)' = Kept(r)
         /\ \A g \in Handlers \ {h}, r \in Repos : Owes(g, r) => Owes(g, r)'
         /\ undo \in Seq(Entry) /\ DOMAIN undo' = 1 .. Len(undo') /\ Len(undo') = Len(undo) - 1
         /\ Len(undo) \in DOMAIN undo
         /\ \A k \in DOMAIN undo' : k \in DOMAIN undo /\ k < Len(undo) /\ undo'[k] = undo[k]
<1>1. /\ handlers' = [handlers EXCEPT ![h] = Idle] /\ undo' = SubSeq(undo, 1, Len(undo) - 1)
      /\ UNCHANGED <<disk, cut, forks, zips, sweeping, swept, requests>>
      /\ HandlersInv /\ handlers \in [Handlers -> Handler]
  BY DEF End, archives, bounds, RepoInv, HandlersInv
<1>2. /\ handlers' \in [Handlers -> Handler] /\ handlers'[h] = Idle
      /\ \A g \in Handlers \ {h} : handlers'[g] = handlers[g]
  BY <1>1, IdleOK
<1>3. HandlerOK(h)'
  BY <1>2 DEF HandlerOK, Idle, At
<1>4. HandlersInv'
  BY <1>1, <1>2, <1>3, OthersOK
<1>5. h \in Active /\ Active' = Active \ {h}
  BY <1>2 DEF Active, Idle
<1>6. Cardinality(Active') = Cardinality(Active) - 1 /\ Cardinality(Active) \in Nat /\ Cardinality(Active) # 0
  BY <1>5, FiniteHandlers, FS_RemoveElement, FS_EmptySet
<1>7. undo \in Seq(Entry) /\ Len(undo) = Cardinality(Active) /\ Len(undo) > 0
  BY <1>6 DEF RepoInv, TableInv
<1>8. /\ undo' \in Seq(Entry) /\ Len(undo') = Len(undo) - 1 /\ Len(undo) \in DOMAIN undo
      /\ DOMAIN undo' = 1 .. Len(undo')
      /\ \A k \in DOMAIN undo' : k \in DOMAIN undo /\ k < Len(undo) /\ undo'[k] = undo[k]
  BY <1>1, <1>7, UndoCut
<1>9. TableInv'
  <2>1. Pending' \subseteq Pending
    BY <1>2 DEF Pending, Idle
  <2>2. Cardinality(Pending') <= Cardinality(Pending) /\ Cardinality(Pending') \in Nat
        /\ Cardinality(Pending) \in Nat
    BY <2>1, FiniteHandlers, SmallerSet
  <2>3. /\ table.seq \in Nat /\ requests \in Nat /\ table.seq + Cardinality(Pending) <= requests + 1
        /\ \A i \in DOMAIN undo : undo[i].table.seq \in Nat /\ undo[i].table.seq + Cardinality(Pending) <= requests + 1
    BY Numbers DEF RepoInv, TableInv
  <2>4. Innermost = undo[Len(undo)] /\ Innermost \in Entry /\ table \in TableType
    BY <1>7, <1>8, Numbers DEF Innermost, RepoInv, TableInv
  <2>5. table' \in TableType /\ table'.seq \in Nat /\ table'.seq + Cardinality(Pending) <= requests + 1
    BY <1>8, <2>3, <2>4 DEF Entry
  <2>6. table'.seq + Cardinality(Pending') <= requests' + 1
    BY <1>1, <2>2, <2>3, <2>5
  <2>7. ASSUME NEW i \in DOMAIN undo' PROVE undo'[i].table.seq + Cardinality(Pending') <= requests' + 1
    <3>1. undo'[i].table.seq \in Nat /\ undo'[i].table.seq + Cardinality(Pending) <= requests + 1
      BY <1>8, <2>3
    <3> QED BY <1>1, <2>2, <2>3, <3>1
  <2> QED BY <1>1, <1>6, <1>7, <1>8, <2>5, <2>6, <2>7 DEF RepoInv, TableInv
<1>10. (\A r \in Repos : Kept(r)' = Kept(r)) /\ \A g \in Handlers \ {h}, r \in Repos : Owes(g, r) => Owes(g, r)'
  BY <1>1, <1>2 DEF Kept, Owes, Own
<1>11. handlers[h].pc \notin {"cloning", "addRemote"} => DiskInv'
  <2>1. handlers[h].pc \notin {"cloning", "addRemote"} =>
          \A g \in Handlers, s \in Repos : Cloning(g, s) => Cloning(g, s)'
    BY <1>2 DEF Cloning, Own
  <2> QED BY <1>1, <2>1 DEF RepoInv, DiskInv
<1>12. handlers[h].pc # "zip" => ZipsInv'
  <2> SUFFICES ASSUME handlers[h].pc # "zip", NEW s \in Repos
               PROVE  /\ sweeping[s] + Cardinality(ToSweep(s)') <= requests
                      /\ zips[s].writers \subseteq {Nobody} \cup Zipping(s)'
    BY <1>1 DEF RepoInv, ZipsInv
  <2>1. ToSweep(s)' \subseteq ToSweep(s) /\ Zipping(s) \subseteq Zipping(s)'
    BY <1>2 DEF ToSweep, Zipping, Own, Idle, BeforeSweep
  <2>2. Cardinality(ToSweep(s)') <= Cardinality(ToSweep(s)) /\ Cardinality(ToSweep(s)') \in Nat
        /\ Cardinality(ToSweep(s)) \in Nat
    BY <2>1, FiniteHandlers, SmallerSet
  <2>3. sweeping[s] \in Nat /\ requests \in Nat /\ sweeping[s] + Cardinality(ToSweep(s)) <= requests
    BY Numbers DEF RepoInv, ZipsInv
  <2> QED BY <2>1, <2>2, <2>3 DEF RepoInv, ZipsInv
<1> QED BY <1>4, <1>7, <1>8, <1>9, <1>10, <1>11, <1>12

LEMMA CommitInv == ASSUME RepoInv, NEW h \in Handlers, Commit(h) PROVE RepoInv'
<1>1. End(h) /\ handlers[h].pc = "returned" /\ table' = table /\ mixed' = mixed /\ mixed \in BOOLEAN
  BY DEF Commit, RepoInv, TableInv
<1>2. /\ HandlersInv' /\ TableInv' /\ DiskInv' /\ ZipsInv'
      /\ \A r \in Repos : Kept(r)' = Kept(r)
      /\ \A g \in Handlers \ {h}, r \in Repos : Owes(g, r) => Owes(g, r)'
      /\ undo \in Seq(Entry) /\ DOMAIN undo' = 1 .. Len(undo') /\ Len(undo') = Len(undo) - 1
      /\ Len(undo) \in DOMAIN undo
      /\ \A k \in DOMAIN undo' : k \in DOMAIN undo /\ k < Len(undo) /\ undo'[k] = undo[k]
  BY <1>1, Ended
<1>3. \A g \in Handlers, r \in Repos : Owes(g, r) => Owes(g, r)'
  BY <1>1, <1>2 DEF Owes
<1>4. RowsInv'
  <2> SUFFICES ASSUME ~mixed', NEW r \in Repos
               PROVE  RowOK(table.rows, r)' /\ \A i \in DOMAIN undo' : UndoOK(i, r)'
    BY DEF RowsInv
  <2>1. RowOK(table.rows, r) /\ \A i \in DOMAIN undo : UndoOK(i, r)
    BY <1>1 DEF RepoInv, RowsInv
  <2>2. RowOK(table.rows, r)'
    BY <1>1, <1>2, <1>3, <2>1 DEF RowOK
  <2>3. ASSUME NEW i \in DOMAIN undo' PROVE UndoOK(i, r)'
    <3>1. i \in DOMAIN undo /\ undo'[i] = undo[i] /\ Len(undo) \in Nat /\ i \in Nat
      BY <1>2
    <3>2. \A j \in i .. Len(undo') : j \in DOMAIN undo' /\ j \in i .. Len(undo)
      BY <1>2, <3>1, <2>3
    <3>3. undo[i].table.rows[r].id # 0 =>
            Kept(r)' \/ (i > 1 /\ \E g \in Handlers : Owes(g, r)' /\ \A j \in i .. Len(undo) : undo[j].by # g)
      BY <1>2, <1>3, <2>1, <3>1 DEF UndoOK
    <3> QED BY <1>2, <3>1, <3>2, <3>3 DEF UndoOK
  <2> QED BY <2>2, <2>3
<1> QED BY <1>2, <1>4 DEF RepoInv

LEMMA RollbackInv == ASSUME RepoInv, NEW h \in Handlers, Rollback(h) PROVE RepoInv'
<1>1. /\ End(h) /\ handlers[h].pc = "threw" /\ table' = Innermost.table
      /\ mixed' = (mixed \/ Innermost.by # h) /\ mixed' \in BOOLEAN
  BY DEF Rollback, RepoInv, TableInv
<1>2. /\ HandlersInv' /\ TableInv' /\ DiskInv' /\ ZipsInv'
      /\ \A r \in Repos : Kept(r)' = Kept(r)
      /\ \A g \in Handlers \ {h}, r \in Repos : Owes(g, r) => Owes(g, r)'
      /\ undo \in Seq(Entry) /\ DOMAIN undo' = 1 .. Len(undo') /\ Len(undo') = Len(undo) - 1
      /\ Len(undo) \in DOMAIN undo
      /\ \A k \in DOMAIN undo' : k \in DOMAIN undo /\ k < Len(undo) /\ undo'[k] = undo[k]
  BY <1>1, Ended
<1>3. RowsInv'
  <2> SUFFICES ASSUME ~mixed', NEW r \in Repos
               PROVE  RowOK(table.rows, r)' /\ \A i \in DOMAIN undo' : UndoOK(i, r)'
    BY DEF RowsInv
  <2>1. undo[Len(undo)].by = h /\ \A i \in DOMAIN undo : UndoOK(i, r)
    BY <1>1 DEF RepoInv, RowsInv, Innermost
  <2>2. ASSUME NEW i \in DOMAIN undo, undo[i].table.rows[r].id # 0
        PROVE  Kept(r)' \/ (i > 1 /\ \E g \in Handlers : Owes(g, r)' /\ \A j \in i .. Len(undo) : undo[j].by # g)
    <3>1. Len(undo) \in i .. Len(undo)
      BY <1>2
    <3>2. \A g \in Handlers : Owes(g, r) /\ (\A j \in i .. Len(undo) : undo[j].by # g) => Owes(g, r)'
      BY <1>2, <2>1, <3>1
    <3> QED BY <1>2, <2>1, <2>2, <3>2 DEF UndoOK
  <2>3. RowOK(table.rows, r)'
    BY <1>1, <1>2, <2>2 DEF RowOK, Innermost
  <2>4. ASSUME NEW i \in DOMAIN undo' PROVE UndoOK(i, r)'
    <3>1. i \in DOMAIN undo /\ undo'[i] = undo[i] /\ Len(undo) \in Nat /\ i \in Nat
      BY <1>2
    <3>2. \A j \in i .. Len(undo') : j \in i .. Len(undo) /\ undo'[j] = undo[j]
      BY <1>2, <3>1, <2>4
    <3>3. SUFFICES ASSUME undo[i].table.rows[r].id # 0 PROVE UndoOK(i, r)'
      BY <3>1 DEF UndoOK
    <3>4. CASE Kept(r)'
      BY <3>4 DEF UndoOK
    <3>5. CASE ~Kept(r)'
      <4>1. PICK g \in Handlers : i > 1 /\ Owes(g, r)' /\ \A j \in i .. Len(undo) : undo[j].by # g
        BY <2>2, <3>1, <3>3, <3>5
      <4>2. \A j \in i .. Len(undo') : undo'[j].by # g
        BY <3>2, <4>1
      <4> QED BY <4>1, <4>2 DEF UndoOK
    <3> QED BY <3>4, <3>5
  <2> QED BY <2>3, <2>4
<1> QED BY <1>2, <1>3 DEF RepoInv

-----------------------------------------------------------------------------
(* The removal of an old archive, GitHub, and the crash of the server.     *)

LEMMA SameHandlers ==
  ASSUME handlers' = handlers
  PROVE  /\ Active' = Active /\ Pending' = Pending
         /\ \A r : ToSweep(r)' = ToSweep(r) /\ Zipping(r)' = Zipping(r)
         /\ \A h, r : Owes(h, r)' = Owes(h, r) /\ Cloning(h, r)' = Cloning(h, r)
BY DEF Active, Pending, ToSweep, Zipping, Owes, Cloning, Own

LEMMA SameTable ==
  ASSUME RepoInv, UNCHANGED <<table, undo, mixed, handlers, requests, disk, cut>>
  PROVE  TableInv' /\ RowsInv'
<1>1. TableInv'
  BY SameHandlers DEF RepoInv, TableInv
<1>2. RowsInv'
  <2> SUFFICES ASSUME ~mixed', NEW r \in Repos
               PROVE  RowOK(table.rows, r)' /\ \A i \in DOMAIN undo' : UndoOK(i, r)'
    BY DEF RowsInv
  <2>1. RowOK(table.rows, r) /\ \A i \in DOMAIN undo : UndoOK(i, r)
    BY DEF RepoInv, RowsInv
  <2>2. Kept(r)' = Kept(r)
    BY DEF Kept
  <2> QED BY <2>1, <2>2, SameHandlers DEF RowOK, UndoOK
<1> QED BY <1>1, <1>2

LEMMA SameFiles ==
  ASSUME RepoInv, UNCHANGED <<handlers, requests, disk, cut, zips, sweeping, swept>>, forks' \in [Names -> ForkType]
  PROVE  HandlersInv' /\ DiskInv' /\ ZipsInv'
<1>1. HandlersInv'
  BY DEF RepoInv, HandlersInv, HandlerOK, At, Own, Kept, Zipped
<1>2. DiskInv' /\ ZipsInv'
  BY SameHandlers DEF RepoInv, DiskInv, ZipsInv
<1> QED BY <1>1, <1>2

LEMMA SweepInv == ASSUME RepoInv, NEW r \in Repos, Sweep(r) PROVE RepoInv'
<1>1. /\ sweeping \in [Repos -> Nat] /\ zips \in [Repos -> Zip] /\ r \in swept
      /\ UNCHANGED <<table, undo, mixed, disk, swept, forks, handlers, cut, requests>>
  BY DEF Sweep, RepoInv, ZipsInv, database, bounds
<1>2. /\ sweeping' \in [Repos -> Nat] /\ sweeping'[r] = sweeping[r] - 1
      /\ \A s \in Repos \ {r} : sweeping'[s] = sweeping[s]
  BY <1>1 DEF Sweep
<1>3. NoZip \in Zip /\ NoZip.writers = {} /\ zips' \in [Repos -> Zip] /\ zips'[r] = NoZip
      /\ \A s \in Repos \ {r} : zips'[s] = zips[s]
  BY <1>1 DEF Sweep, Zip, NoZip
<1>4. \A s \in Repos : Zipped(s) => Zipped(s)'
  BY <1>1, <1>3 DEF Zipped
<1>5. HandlersInv'
  <2>1. ASSUME NEW h \in Handlers PROVE HandlerOK(h)'
    <3>1. HandlerOK(h) /\ handlers[h] \in Handler
      BY DEF RepoInv, HandlersInv
    <3>2. handlers[h].pc \notin {"idle", "threw"} => (Zipped(Own(h)) => Zipped(Own(h))')
      BY <1>1, <1>4, <3>1 DEF HandlerOK, Own
    <3> QED BY <1>1, <3>1, <3>2 DEF HandlerOK, Own, At, Kept
  <2> QED BY <1>1, <2>1 DEF RepoInv, HandlersInv
<1>6. TableInv' /\ RowsInv' /\ DiskInv'
  BY <1>1, SameTable, SameHandlers DEF RepoInv, DiskInv
<1>7. ASSUME NEW s \in Repos
      PROVE  /\ sweeping'[s] + Cardinality(ToSweep(s)) <= requests
             /\ sweeping'[s] > 0 => s \in swept
             /\ zips'[s].writers \subseteq {Nobody} \cup Zipping(s)
  <2>1. Cardinality(ToSweep(s)) \in Nat /\ requests \in Nat /\ sweeping[s] \in Nat
    BY <1>1, FiniteHandlers, Numbers DEF RepoInv
  <2>2. /\ sweeping[s] + Cardinality(ToSweep(s)) <= requests /\ (sweeping[s] > 0 => s \in swept)
        /\ zips[s].writers \subseteq {Nobody} \cup Zipping(s)
    BY DEF RepoInv, ZipsInv
  <2>3. CASE s = r
    BY <1>1, <1>2, <1>3, <2>1, <2>2, <2>3
  <2>4. CASE s # r
    BY <1>1, <1>2, <1>3, <2>1, <2>2, <2>4
  <2> QED BY <2>3, <2>4
<1>8. ZipsInv'
  <2>1. /\ \A s : ToSweep(s)' = ToSweep(s) /\ Zipping(s)' = Zipping(s)
        /\ requests' = requests /\ swept' = swept /\ swept \subseteq Repos
    BY <1>1, SameHandlers DEF RepoInv, ZipsInv
  <2> QED BY <1>2, <1>3, <1>7, <2>1 DEF ZipsInv
<1> QED BY <1>5, <1>6, <1>8 DEF RepoInv

LEMMA GitHubInv ==
  ASSUME RepoInv, NEW n \in Names, ForkAppears(n) \/ ForkIsDeleted(n)
  PROVE  RepoInv'
<1>1. /\ UNCHANGED <<table, undo, mixed, disk, zips, sweeping, swept, handlers, cut, requests>>
      /\ forks \in [Names -> ForkType]
  BY DEF ForkAppears, ForkIsDeleted, RepoInv, DiskInv, database, archives, bounds
<1>2. NoFork \in ForkType
  BY DEF NoFork, ForkType
<1>3. forks' \in [Names -> ForkType]
  <2>1. [forks[n] EXCEPT !.there = TRUE] \in ForkType
    BY <1>1 DEF ForkType
  <2> QED BY <1>1, <1>2, <2>1 DEF ForkAppears, ForkIsDeleted
<1> QED BY <1>1, <1>3, SameTable, SameFiles DEF RepoInv

\* Nobody is left, and with them goes what was being made.
LEMMA NobodyLeft ==
  ASSUME handlers' = [h \in Handlers |-> Idle]
  PROVE  /\ Active' = {} /\ Pending' = {} /\ \A r : ToSweep(r)' = {}
         /\ handlers' \in [Handlers -> Handler] /\ \A h \in Handlers : HandlerOK(h)'
<1>1. handlers' \in [Handlers -> Handler] /\ \A h \in Handlers : handlers'[h] = Idle
  BY IdleOK
<1>2. Active' = {} /\ Pending' = {} /\ \A r : ToSweep(r)' = {}
  BY <1>1 DEF Active, Pending, ToSweep, Idle, Early, BeforeSweep
<1>3. \A h \in Handlers : HandlerOK(h)'
  BY <1>1 DEF HandlerOK, Idle, At
<1> QED BY <1>1, <1>2, <1>3

LEMMA CrashInv == ASSUME RepoInv, Crash PROVE RepoInv'
<1>1. /\ Active' = {} /\ Pending' = {} /\ (\A r : ToSweep(r)' = {}) /\ HandlersInv'
      /\ Cardinality({}) = 0
  BY NobodyLeft, FS_EmptySet DEF Crash, HandlersInv
<1>2. /\ disk \in [Repos -> Disk] /\ cut \subseteq Repos /\ forks \in [Names -> ForkType] /\ forks' = forks
      /\ mixed' = mixed /\ undo' = <<>> /\ requests' = requests /\ undo \in Seq(Entry)
  BY DEF RepoInv, DiskInv, TableInv, Crash
<1>3. PICK finish \in SUBSET {r \in Repos : disk[r].clone = "part"} :
        disk' = [r \in Repos |-> IF r \in finish THEN [disk[r] EXCEPT !.clone = "bare"] ELSE disk[r]]
  BY DEF Crash
<1>4. cut' = cut \cup {r \in Repos : disk[r].clone \in {"part", "bare"}}
  BY DEF Crash
<1>5. disk' \in [Repos -> Disk] /\ \A r \in Repos : disk'[r].clone = disk[r].clone \/ disk[r].clone = "part"
  BY <1>2, <1>3 DEF Disk
<1>6. /\ cut' \subseteq Repos /\ \A r \in Repos : disk'[r].clone \in {"part", "bare"} => r \in cut'
      /\ \A r \in Repos : Kept(r) => Kept(r)'
  BY <1>2, <1>4, <1>5 DEF Kept
<1>7. DiskInv'
  BY <1>2, <1>5, <1>6 DEF DiskInv
<1>8. undo # <<>> => Len(undo) >= 1 /\ 1 \in DOMAIN undo /\ undo[1] \in Entry
  BY <1>2
<1>9. TableInv'
  <2>1. /\ table.seq \in Nat /\ requests \in Nat /\ Cardinality(Pending) \in Nat
        /\ table.seq + Cardinality(Pending) <= requests + 1
        /\ \A i \in DOMAIN undo : undo[i].table.seq \in Nat /\ undo[i].table.seq + Cardinality(Pending) <= requests + 1
    BY Numbers, FiniteHandlers DEF RepoInv, TableInv
  <2>2. table' \in TableType /\ table'.seq \in Nat /\ table'.seq + Cardinality(Pending) <= requests + 1
    <3>1. CASE undo = <<>>
      BY <2>1, <3>1 DEF Crash, RepoInv, TableInv
    <3>2. CASE undo # <<>>
      BY <1>8, <2>1, <3>2 DEF Crash, Entry
    <3> QED BY <3>1, <3>2
  <2>3. table'.seq + 0 <= requests' + 1
    BY <1>2, <2>1, <2>2
  <2>4. undo' \in Seq(Entry) /\ Len(undo') = 0 /\ DOMAIN undo' = {}
    BY <1>2
  <2> QED BY <1>1, <1>2, <2>2, <2>3, <2>4 DEF RepoInv, TableInv
<1>10. RowsInv'
  <2> SUFFICES ASSUME ~mixed', NEW r \in Repos PROVE RowOK(table.rows, r)'
    <3>1. DOMAIN undo' = {}
      BY <1>2
    <3> QED BY <3>1 DEF RowsInv
  <2>1. RowOK(table.rows, r) /\ \A i \in DOMAIN undo : UndoOK(i, r)
    BY <1>2 DEF RepoInv, RowsInv
  <2>2. CASE undo = <<>>
    <3>1. Cardinality(Active) = 0
      BY <2>2 DEF RepoInv, TableInv
    <3>2. Active = {}
      BY <3>1, FiniteHandlers, FS_EmptySet
    <3>3. \A h \in Handlers : ~Owes(h, r)
      BY <3>2 DEF Active, Owes, RepoInv, HandlersInv, HandlerOK
    <3> QED BY <1>6, <2>1, <2>2, <3>3 DEF RowOK, Crash
  <2>3. CASE undo # <<>>
    <3>1. UndoOK(1, r)
      BY <1>8, <2>1, <2>3
    <3>2. undo[1].table.rows[r].id # 0 => Kept(r)
      BY <3>1 DEF UndoOK
    <3> QED BY <1>6, <2>3, <3>2 DEF RowOK, Crash
  <2> QED BY <2>2, <2>3
<1>11. ZipsInv'
  <2>1. /\ zips \in [Repos -> Zip] /\ swept \subseteq Repos /\ swept' = swept /\ requests \in Nat
    BY Numbers DEF RepoInv, ZipsInv, Crash
  <2>2. zips' \in [Repos -> Zip] /\ \A r \in Repos : zips'[r].writers \subseteq {Nobody}
    BY <2>1 DEF Crash, Zip
  <2>3. sweeping' \in [Repos -> Nat] /\ \A r \in Repos : sweeping'[r] = 0
    BY DEF Crash
  <2>4. ASSUME NEW r \in Repos PROVE sweeping'[r] + Cardinality(ToSweep(r)') <= requests'
    <3>1. ToSweep(r)' = {}
      BY <1>1
    <3>2. Cardinality(ToSweep(r)') = 0
      BY <1>1, <3>1
    <3> QED BY <1>2, <2>1, <2>3, <3>2
  <2> QED BY <1>1, <1>2, <2>1, <2>2, <2>3, <2>4 DEF ZipsInv
<1> QED BY <1>1, <1>7, <1>9, <1>10, <1>11 DEF RepoInv

-----------------------------------------------------------------------------

LEMMA InitInv == Init => RepoInv
<1> SUFFICES ASSUME Init PROVE RepoInv
  OBVIOUS
<1>1. handlers = [h \in Handlers |-> Idle] /\ undo = <<>> /\ requests = 0 /\ cut = {} /\ swept = {} /\ mixed = FALSE
  BY DEF Init
<1>2. handlers \in [Handlers -> Handler] /\ \A h \in Handlers : handlers[h] = Idle
  BY <1>1, IdleOK
<1>3. Active = {} /\ Pending = {} /\ (\A r : ToSweep(r) = {}) /\ Cardinality({}) = 0
  BY <1>2, FS_EmptySet DEF Active, Pending, ToSweep, Idle, Early, BeforeSweep
<1>4. HandlersInv
  BY <1>2 DEF HandlersInv, HandlerOK, Idle, At
<1>5. PICK old \in SUBSET Upstream, cmd \in {"none", "open", "locked"}, locked \in BOOLEAN :
       /\ \A r, s \in old : r[2] = s[2] => r = s
       /\ table = [seq |-> 1,
                   rows |-> [r \in Repos |-> IF r \in old THEN [id |-> 1, locked |-> locked, cmd |-> cmd]
                                                          ELSE NoRow]]
       /\ disk = [r \in Repos |-> IF r \in old THEN [clone |-> "ready", of |-> r, work |-> cmd # "none"]
                                                ELSE NoDisk]
       /\ forks = [n \in Names |-> IF \E r \in old : r[2] = n
                                     THEN [of |-> CHOOSE r \in old : r[2] = n, there |-> TRUE]
                                     ELSE NoFork]
  BY DEF Init
<1>6. old \subseteq Repos /\ MaxRequests \in Nat
  BY RepoAssumption
<1>7. table \in TableType /\ table.seq = 1 /\ \A r \in Repos : table.rows[r].id # 0 => r \in old
  BY <1>5, <1>6, NoRowType DEF TableType, RowType, NoRow
<1>8. disk \in [Repos -> Disk] /\ \A r \in Repos : disk[r].clone = IF r \in old THEN "ready" ELSE "none"
  BY <1>5 DEF Disk, NoDisk
<1>9. forks \in [Names -> ForkType]
  <2>1. \A n \in Names : (\E r \in old : r[2] = n) => (CHOOSE r \in old : r[2] = n) \in Repos
    BY <1>6
  <2> QED BY <1>5, <2>1 DEF ForkType, NoFork
<1>10. TableInv
  <2>1. undo \in Seq(Entry) /\ Len(undo) = 0 /\ DOMAIN undo = {}
    BY <1>1
  <2>2. table.seq + Cardinality(Pending) <= requests + 1 /\ Len(undo) = Cardinality(Active)
    BY <1>1, <1>3, <1>7, <2>1
  <2>3. mixed \in BOOLEAN /\ requests \in 0 .. MaxRequests
    <3>1. mixed \in BOOLEAN
      BY <1>1
    <3>2. requests \in 0 .. MaxRequests
      BY <1>1, <1>6
    <3> QED BY <3>1, <3>2
  <2>4. \A i \in DOMAIN undo : undo[i].table.seq + Cardinality(Pending) <= requests + 1
    BY <2>1
  <2> QED BY <1>1, <1>7, <2>1, <2>2, <2>3, <2>4 DEF TableInv
<1>11. RowsInv
  BY <1>1, <1>7, <1>8 DEF RowsInv, RowOK, Kept
<1>12. DiskInv
  BY <1>1, <1>8, <1>9 DEF DiskInv
<1>13. ZipsInv
  <2>1. zips \in [Repos -> Zip] /\ \A r \in Repos : zips[r].writers = {}
    <3>1. NoZip \in Zip /\ NoZip.writers = {}
      BY DEF Zip, NoZip
    <3> QED BY <3>1 DEF Init
  <2>2. sweeping \in [Repos -> Nat] /\ \A r \in Repos : sweeping[r] = 0
    BY DEF Init
  <2>3. swept \subseteq Repos /\ \A r \in Repos : sweeping[r] + Cardinality(ToSweep(r)) <= requests
    <3>1. \A r \in Repos : Cardinality(ToSweep(r)) = 0
      BY <1>3
    <3> QED BY <1>1, <2>2, <3>1
  <2> QED BY <2>1, <2>2, <2>3 DEF ZipsInv
<1> QED BY <1>4, <1>10, <1>11, <1>12, <1>13 DEF RepoInv

LEMMA NextInv == RepoInv /\ [Next]_vars => RepoInv'
<1> SUFFICES ASSUME RepoInv, [Next]_vars PROVE RepoInv'
  OBVIOUS
<1>1. ASSUME NEW h \in Handlers, Request(h) \/ HandlerStep(h) PROVE RepoInv'
  BY <1>1, RequestInv, CommitInv, RollbackInv, WorkInv DEF HandlerStep
<1>2. CASE \E r \in Repos : Sweep(r)
  BY <1>2, SweepInv
<1>3. CASE \E n \in Names : ForkAppears(n) \/ ForkIsDeleted(n)
  BY <1>3, GitHubInv
<1>4. CASE Crash
  BY <1>4, CrashInv
<1>5. CASE UNCHANGED vars
  <2>1. forks' \in [Names -> ForkType]
    BY <1>5 DEF vars, RepoInv, DiskInv
  <2> QED BY <1>5, <2>1, SameTable, SameFiles DEF vars, RepoInv
<1> QED BY <1>1, <1>2, <1>3, <1>4, <1>5 DEF Next

LEMMA Invariance == Spec => []RepoInv
BY InitInv, NextInv, PTL DEF Spec

LEMMA TypeFollows == RepoInv => TypeOK
<1> SUFFICES ASSUME RepoInv PROVE TypeOK
  OBVIOUS
<1>1. sweeping \in [Repos -> 0 .. MaxRequests]
  <2>1. ASSUME NEW r \in Repos PROVE sweeping[r] \in 0 .. MaxRequests
    <3>1. /\ sweeping[r] \in Nat /\ Cardinality(ToSweep(r)) \in Nat /\ requests \in Nat /\ MaxRequests \in Nat
          /\ requests <= MaxRequests /\ sweeping[r] + Cardinality(ToSweep(r)) <= requests
      BY FiniteHandlers, Numbers DEF RepoInv, ZipsInv, TableInv
    <3> QED BY <3>1
  <2> QED BY <2>1 DEF RepoInv, ZipsInv
<1>2. /\ table \in TableType /\ undo \in Seq([table : TableType, by : Handlers]) /\ mixed \in BOOLEAN
  BY DEF RepoInv, TableInv, Entry
<1>3. /\ disk \in [Repos -> [clone : {"none", "part", "bare", "ready"}, of : Repos \cup {<<>>}, work : BOOLEAN]]
      /\ forks \in [Names -> [of : Repos \cup {<<>>}, there : BOOLEAN]] /\ cut \subseteq Repos
  BY DEF RepoInv, DiskInv, Disk, ForkType
<1>4. /\ zips \in [Repos -> [there : BOOLEAN, writers : SUBSET (Handlers \cup {Nobody})]] /\ swept \subseteq Repos
  BY DEF RepoInv, ZipsInv, Zip
<1>5. handlers \in [Handlers -> [pc : Steps, op : Ops \cup {"none"}, r : Repos \cup {<<>>},
                               copy : BOOLEAN, c : RowType, polls : 0 .. MaxPolls - 1]]
  BY DEF RepoInv, HandlersInv, Handler
<1> QED BY <1>1, <1>2, <1>3, <1>4, <1>5 DEF TypeOK

\* The table, the folders, the archives and what a request knows of them keep
\* their types; no request takes more than one number for a row.
THEOREM RepoTypeCorrect == Spec => []TypeOK
BY TypeFollows, Invariance, PTL

\* However creations and removals of any number of requests interleave, nest
\* their transactions, fail and are cut short: a row in the table has a clone,
\* unless it is known what has kept it from having one.
THEOREM RowsHaveClones == Spec => []RowHasClone
<1>1. ASSUME RepoInv, ~mixed, NEW r \in Repos, Row(r).id # 0
      PROVE  disk[r].clone = "ready" \/ r \in cut \/ Creating(r)
  <2>1. Kept(r) \/ \E h \in Handlers : Owes(h, r)
    BY <1>1 DEF RepoInv, RowsInv, RowOK, Row
  <2>2. disk[r].clone \in {"none", "part", "bare", "ready"}
    BY <1>1 DEF RepoInv, DiskInv, Disk
  <2>3. disk[r].clone \in {"part", "bare"} => r \in cut \/ \E h \in Handlers : Cloning(h, r)
    BY <1>1 DEF RepoInv, DiskInv
  <2> QED BY <2>1, <2>2, <2>3 DEF Kept, Owes, Cloning, Creating
<1>2. RepoInv => RowHasClone
  BY <1>1 DEF RowHasClone
<1> QED BY <1>2, Invariance, PTL

\* Nobody is given half an archive, for any number of downloads and removals of
\* the same repository; what is excepted is all there is.
THEOREM ArchivesAreWhole == Spec => []ArchiveIsWhole
<1>1. ASSUME RepoInv, NEW h \in Handlers, handlers[h].pc = "copy" \/ At(h, {"download"}, "returned"),
             Own(h) \notin swept, Nobody \notin zips[Own(h)].writers,
             ~ \E g \in Handlers \ {h} : Own(g) = Own(h) /\ handlers[g].pc \in Archiving
      PROVE  zips[Own(h)] = [there |-> TRUE, writers |-> {}]
  <2>1. HandlerOK(h) /\ Own(h) \in Repos /\ handlers[h].pc # "zip"
    BY <1>1 DEF RepoInv, HandlersInv, HandlerOK, At
  <2>2. zips[Own(h)].there
    BY <1>1, <2>1 DEF HandlerOK, Zipped
  <2>3. zips[Own(h)] \in Zip /\ zips[Own(h)].writers \subseteq {Nobody} \cup Zipping(Own(h))
    BY <1>1, <2>1 DEF RepoInv, ZipsInv
  <2>4. Zipping(Own(h)) = {}
    BY <1>1, <2>1 DEF Zipping, Archiving
  <2>5. zips[Own(h)].writers = {}
    BY <1>1, <2>3, <2>4
  <2> QED BY <2>2, <2>3, <2>5 DEF Zip
<1>2. RepoInv => ArchiveIsWhole
  BY <1>1 DEF ArchiveIsWhole
<1> QED BY <1>2, Invariance, PTL
=============================================================================
