---------------------------- MODULE RepoService ----------------------------
(***************************************************************************)
(* The repositories of the demo server (service/repo.service.ts behind     *)
(* repo.facade.ts, with helper/github.ts and the repository half of        *)
(* artifact.files.ts).  Creating one saves a row, forks the repository on  *)
(* GitHub into the organisation of the examples, waits for the fork, which *)
(* GitHub makes in its own time, clones it and adds a remote; removing one *)
(* removes its commands, archives the folder and deletes the row.  Only    *)
(* the row is in the transaction of the request: fork, clone and archive   *)
(* stay when it is rolled back, and the transactions of requests that      *)
(* overlap nest as in CommandFacade.                                       *)
(***************************************************************************)
EXTENDS Naturals, Sequences, FiniteSets

CONSTANTS
  Repos,          \* <<owner, name>>; a fork keeps only the name
  Upstream,       \* those that exist on GitHub
  Typed,          \* what users type for a repository: its parts between slashes
  Handlers,       \* the requests that may be in flight together
  Ops,            \* the operations of this instance
  Faults,         \* what may fail: "github", "git"
  Nobody,         \* the writer of an archive that a crash has left half written
  MaxPolls,       \* 10 in the code
  MaxRequests, MaxCrashes, MaxForkLosses   \* bound a behaviour

AllOps == {"create", "remove", "lock", "unlock", "view", "download"}
Names == {r[2] : r \in Repos}

ASSUME RepoAssumption ==
  /\ Upstream \subseteq Repos
  /\ Ops \subseteq AllOps
  /\ IsFiniteSet(Handlers) /\ Nobody \notin Handlers
  /\ MaxPolls \in Nat \ {0}
  /\ MaxRequests \in Nat /\ MaxCrashes \in Nat /\ MaxForkLosses \in Nat

VARIABLES
  table,      \* the repository rows, with their commands, and the id sequence
  undo,       \* the open transactions: the table at the BEGIN, who began it
  disk,       \* the working folder of each repository
  zips,       \* its archive file, and who has not finished writing it
  sweeping,   \* the removals of an old archive nobody waits for
  forks,      \* the forks of the organisation, by name
  handlers,
  cut,        \* history: whose clone a failure or a removal has taken away
  swept,      \* history: whose old archive was removed
  mixed,      \* history: a request has undone or redone what another one wrote
  requests, crashes, losses

vars == <<table, undo, disk, zips, sweeping, forks, handlers, cut, swept, mixed,
          requests, crashes, losses>>
database == <<table, undo, mixed>>
archives == <<zips, sweeping, swept>>
bounds == <<requests, crashes, losses>>

NoRow == [id |-> 0, locked |-> FALSE, cmd |-> "none"]
NoDisk == [clone |-> "none", of |-> <<>>, work |-> FALSE]
NoFork == [of |-> <<>>, there |-> FALSE]
NoZip == [there |-> FALSE, writers |-> {}]
Idle == [pc |-> "idle", op |-> "none", r |-> <<>>, copy |-> FALSE, c |-> NoRow, polls |-> 0]

Row(r) == table.rows[r]
WithoutId(id) == [r \in Repos |-> IF Row(r).id = id THEN NoRow ELSE Row(r)]
Own(h) == handlers[h].r
Fork(r) == forks[r[2]]

\* A server that has been in use: each repository has no row, or a row, with a
\* command or without, and the clone and fork that its creation made.
Init ==
  /\ \E old \in SUBSET Upstream, cmd \in {"none", "open", "locked"}, locked \in BOOLEAN :
       /\ \A r, s \in old : r[2] = s[2] => r = s
       /\ table = [seq |-> 1,
                   rows |-> [r \in Repos |-> IF r \in old THEN [id |-> 1, locked |-> locked, cmd |-> cmd]
                                                          ELSE NoRow]]
       /\ disk = [r \in Repos |-> IF r \in old THEN [clone |-> "ready", of |-> r, work |-> cmd # "none"]
                                                ELSE NoDisk]
       /\ forks = [n \in Names |-> IF \E r \in old : r[2] = n
                                     THEN [of |-> CHOOSE r \in old : r[2] = n, there |-> TRUE]
                                     ELSE NoFork]
  /\ undo = <<>>
  /\ zips = [r \in Repos |-> NoZip]
  /\ sweeping = [r \in Repos |-> 0]
  /\ handlers = [h \in Handlers |-> Idle]
  /\ cut = {} /\ swept = {} /\ mixed = FALSE
  /\ requests = 0 /\ crashes = 0 /\ losses = 0

-----------------------------------------------------------------------------
(* Requests and their transactions.                                        *)

\* ParsedRepoPath.parse: the scheme is gone, an `@' refused; one host, one
\* leading and one trailing slash are dropped; what follows owner/name is not
\* looked at. The page parses what was typed before it sends it.
Parsed(typed) ==
  LET first == IF Len(typed) > 1 /\ typed[1] = "github.com" THEN Tail(typed) ELSE typed
      second == IF Len(first) > 1 /\ first[1] = "" THEN Tail(first) ELSE first
      third == IF Len(second) > 1 /\ second[Len(second)] = ""
                 THEN SubSeq(second, 1, Len(second) - 1) ELSE second IN
  IF Len(third) < 2 \/ "" \in {third[1], third[2]} THEN <<>> ELSE <<third[1], third[2]>>

\* Repos has every repository that is typed.
ASSUME TypedAssumption == \A typed \in Typed : Parsed(typed) \in Repos \cup {<<>>}

At(h, ops, pc) == handlers[h].op \in ops /\ handlers[h].pc = pc
Goto(h, pc) == handlers' = [handlers EXCEPT ![h].pc = pc]

\* the method and its BEGIN or SAVEPOINT; an admin's remove may ask for the
\* working copy to go as well
Request(h) ==
  /\ handlers[h].pc = "idle" /\ requests < MaxRequests
  /\ requests' = requests + 1
  /\ \E op \in Ops, copy \in BOOLEAN :
       /\ copy => op = "remove"
       /\ \E r \in IF op = "create" THEN {Parsed(t) : t \in Typed} ELSE Repos :
            handlers' = [handlers EXCEPT ![h] =
              [Idle EXCEPT !.op = op, !.r = r, !.copy = copy,
                 !.pc = IF r = <<>> THEN "threw" ELSE IF op = "create" THEN "exists" ELSE "load"]]
  /\ undo' = Append(undo, [table |-> table, by |-> h])
  /\ UNCHANGED <<table, mixed, disk, archives, forks, cut, crashes, losses>>

Innermost == undo[Len(undo)]

End(h) ==
  /\ undo' = SubSeq(undo, 1, Len(undo) - 1)
  /\ handlers' = [handlers EXCEPT ![h] = Idle]
  /\ UNCHANGED <<disk, archives, forks, cut, bounds>>

Commit(h) ==
  /\ handlers[h].pc = "returned"
  /\ End(h)
  /\ UNCHANGED <<table, mixed>>

\* Mutant: the method is not @Transactional().
RollbackNothing(h) ==
  /\ handlers[h].pc = "threw"
  /\ End(h)
  /\ UNCHANGED <<table, mixed>>

\* The rollback is of the innermost transaction, whoever began it.
Rollback(h) ==
  /\ handlers[h].pc = "threw"
  /\ End(h)
  /\ table' = Innermost.table
  /\ mixed' = (mixed \/ Innermost.by # h)

\* load(id): 404, or a copy of the row with its commands
Load(h) ==
  /\ handlers[h].pc = "load"
  /\ handlers' = [handlers EXCEPT ![h].c = Row(Own(h)), ![h].pc =
       IF Row(Own(h)).id = 0 THEN "threw"
       ELSE CASE handlers[h].op = "remove" -> IF Row(Own(h)).cmd = "none" THEN "removal" ELSE "command"
              [] handlers[h].op \in {"lock", "unlock"} -> "write"
              [] handlers[h].op = "download" -> "resolve"
              [] OTHER -> "returned"]
  /\ UNCHANGED <<database, disk, archives, forks, cut, bounds>>

\* lock and unlock save the copy by its id. A row that is gone meanwhile is
\* inserted again, and one that has got the id since (the sequence is rolled
\* back as well) is overwritten, unless the repository has a new row (@Unique).
LockOrUnlock(h) ==
  LET c == handlers[h].c
      r == Own(h)
      wanted == handlers[h].op = "lock" IN
  /\ At(h, {"lock", "unlock"}, "write")
  /\ IF c.locked = wanted \/ Row(r).id \notin {0, c.id}
       THEN Goto(h, "threw") /\ UNCHANGED table
       ELSE /\ table' = [table EXCEPT !.rows = [WithoutId(c.id) EXCEPT ![r] =
                 [Row(r) EXCEPT !.id = c.id, !.locked = wanted]]]
            /\ Goto(h, "returned")
  /\ mixed' = (mixed \/ (Row(r).id = 0 /\ handlers'[h].pc = "returned"))
  /\ UNCHANGED <<undo, disk, archives, forks, cut, bounds>>

-----------------------------------------------------------------------------
(* create, await by await.                                                 *)

CheckExists(h) ==
  /\ At(h, {"create"}, "exists")
  /\ Goto(h, IF Row(Own(h)).id # 0 THEN "threw" ELSE "save")
  /\ UNCHANGED <<database, disk, archives, forks, cut, bounds>>

SaveRow(h) ==
  LET r == Own(h) IN
  /\ At(h, {"create"}, "save")
  /\ IF Row(r).id # 0
       THEN Goto(h, "threw") /\ UNCHANGED table
       ELSE /\ table' = [seq |-> table.seq + 1,
                         rows |-> [table.rows EXCEPT ![r] = [NoRow EXCEPT !.id = table.seq + 1]]]
            /\ Goto(h, "upstream")
  /\ UNCHANGED <<undo, mixed, disk, archives, forks, cut, bounds>>

\* checkRemote: a 404 is FALSE, any other error is thrown
Asked(answer) == {answer} \cup (IF "github" \in Faults THEN {"error"} ELSE {})
CheckRemote(r) == Asked(IF Fork(r).there THEN "yes" ELSE "no")

CheckUpstream(h) ==
  /\ At(h, {"create"}, "upstream")
  /\ \E answer \in Asked(IF Own(h) \in Upstream THEN "yes" ELSE "no") :
       Goto(h, IF answer = "yes" THEN "look" ELSE "threw")
  /\ UNCHANGED <<database, disk, archives, forks, cut, bounds>>

\* A .git folder is taken for a finished clone.
LookForClone(h) ==
  /\ At(h, {"create"}, "look")
  /\ Goto(h, IF disk[Own(h)].clone # "none" THEN "found" ELSE "fork")
  /\ UNCHANGED <<database, disk, archives, forks, cut, bounds>>

\* The fork of a clone that was found may be gone: then the clone goes too.
CheckFound(h) ==
  /\ At(h, {"create"}, "found")
  /\ \E answer \in CheckRemote(Own(h)) :
       /\ Goto(h, CASE answer = "yes" -> "returned" [] answer = "no" -> "fork" [] OTHER -> "threw")
       /\ IF answer = "no"
            THEN /\ disk' = [disk EXCEPT ![Own(h)].clone = "none", ![Own(h)].of = <<>>]
                 /\ cut' = cut \cup {Own(h)}
            ELSE UNCHANGED <<disk, cut>>
  /\ UNCHANGED <<database, archives, forks, bounds>>

\* fork: "already forked" looks at the name only; createFork returns before
\* there is a fork
CreateFork(h) ==
  LET r == Own(h) IN
  /\ At(h, {"create"}, "fork")
  /\ \E answer \in CheckRemote(r) :
       /\ Goto(h, CASE answer = "yes" -> "clone" [] answer = "no" -> "poll" [] OTHER -> "threw")
       /\ forks' = IF answer = "no" /\ Fork(r) = NoFork THEN [forks EXCEPT ![r[2]].of = r] ELSE forks
  /\ UNCHANGED <<database, disk, archives, cut, bounds>>

\* Mutant: the loop waits until the fork is there.
PollForever(h) ==
  /\ At(h, {"create"}, "poll")
  /\ \E answer \in CheckRemote(Own(h)) :
       Goto(h, IF answer = "yes" THEN "clone" ELSE "poll")
  /\ UNCHANGED <<database, disk, archives, forks, cut, bounds>>

\* Mutant: one time too often.
PollOnceMore(h) ==
  LET polls == handlers[h].polls + 1 IN
  /\ At(h, {"create"}, "poll")
  /\ \E answer \in CheckRemote(Own(h)) :
       handlers' = [handlers EXCEPT ![h].polls = IF answer = "yes" \/ polls > MaxPolls THEN 0 ELSE polls,
                                    ![h].pc = IF answer = "yes" \/ polls > MaxPolls THEN "clone" ELSE "poll"]
  /\ UNCHANGED <<database, disk, archives, forks, cut, bounds>>

\* MaxPolls times, errors swallowed; then it goes on, fork or no fork
Poll(h) ==
  LET polls == handlers[h].polls + 1 IN
  /\ At(h, {"create"}, "poll")
  /\ \E answer \in CheckRemote(Own(h)) :
       handlers' = [handlers EXCEPT ![h].polls = IF answer = "yes" \/ polls = MaxPolls THEN 0 ELSE polls,
                                    ![h].pc = IF answer = "yes" \/ polls = MaxPolls THEN "clone" ELSE "poll"]
  /\ UNCHANGED <<database, disk, archives, forks, cut, bounds>>

\* git clone: fails when there is no fork, or the folder is not empty
StartClone(h) ==
  LET r == Own(h) IN
  /\ At(h, {"create"}, "clone")
  /\ IF Fork(r).there /\ disk[r].clone = "none"
       THEN /\ disk' = [disk EXCEPT ![r].clone = "part", ![r].of = Fork(r).of]
            /\ cut' = cut \ {r}
            /\ Goto(h, "cloning")
       ELSE Goto(h, "threw") /\ UNCHANGED <<disk, cut>>
  /\ UNCHANGED <<database, archives, forks, bounds>>

\* A clone that fails takes its folder away.
FinishClone(h) ==
  LET r == Own(h) IN
  /\ At(h, {"create"}, "cloning")
  /\ \/ /\ disk[r].clone = "part"
        /\ disk' = [disk EXCEPT ![r].clone = "bare"]
        /\ Goto(h, "addRemote")
     \/ /\ disk[r].clone # "part" \/ "git" \in Faults
        /\ disk' = [disk EXCEPT ![r].clone = "none", ![r].of = <<>>]
        /\ Goto(h, "threw")
  /\ cut' = cut \cup (IF disk'[r].clone = "none" THEN {r} ELSE {})
  /\ UNCHANGED <<database, archives, forks, bounds>>

\* The remote forked_from, which every run of a command pulls; when this fails
\* the clone stays without it.
AddRemote(h) ==
  LET r == Own(h) IN
  /\ At(h, {"create"}, "addRemote")
  /\ \/ /\ disk[r].clone = "bare"
        /\ disk' = [disk EXCEPT ![r].clone = "ready"]
        /\ Goto(h, "returned")
        /\ UNCHANGED cut
     \/ /\ disk[r].clone # "bare" \/ "git" \in Faults
        /\ cut' = cut \cup {r}
        /\ Goto(h, "threw")
        /\ UNCHANGED disk
  /\ UNCHANGED <<database, archives, forks, bounds>>

CreateStep(h) ==
  \/ CheckExists(h) \/ SaveRow(h) \/ CheckUpstream(h) \/ LookForClone(h) \/ CheckFound(h)
  \/ CreateFork(h) \/ Poll(h) \/ StartClone(h) \/ FinishClone(h) \/ AddRemote(h)

-----------------------------------------------------------------------------
(* removeRepo: the commands, the archive, the folder, the row.             *)

\* CommandService.remove deletes the folder of the command at once, before it
\* is known whether the repository is locked; its row is deleted afterwards.
RemoveCommandFolder(h) ==
  /\ At(h, {"remove"}, "command")
  /\ IF handlers[h].c.cmd = "locked"
       THEN Goto(h, "threw") /\ UNCHANGED disk
       ELSE Goto(h, "commandRow") /\ disk' = [disk EXCEPT ![Own(h)].work = FALSE]
  /\ UNCHANGED <<database, archives, forks, cut, bounds>>

DeleteCommand(h) ==
  /\ At(h, {"remove"}, "commandRow")
  /\ table' = IF Row(Own(h)).id = handlers[h].c.id
                THEN [table EXCEPT !.rows[Own(h)].cmd = "none"] ELSE table
  /\ Goto(h, "removal")
  /\ UNCHANGED <<undo, mixed, disk, archives, forks, cut, bounds>>

RefuseLocked(h) ==
  /\ At(h, {"remove"}, "removal")
  /\ Goto(h, IF handlers[h].c.locked THEN "threw" ELSE "archive")
  /\ UNCHANGED <<database, disk, archives, forks, cut, bounds>>

\* removeRepo of the artifact files: clone, commands and logs
RemoveFolder(h) ==
  /\ At(h, {"remove"}, "folder")
  /\ disk' = [disk EXCEPT ![Own(h)] = NoDisk]
  /\ cut' = cut \cup {Own(h)}
  /\ Goto(h, "row")
  /\ UNCHANGED <<database, archives, forks, bounds>>

DeleteRow(h) ==
  /\ At(h, {"remove"}, "row")
  /\ table' = [table EXCEPT !.rows = WithoutId(handlers[h].c.id)]
  /\ Goto(h, "returned")
  /\ UNCHANGED <<undo, mixed, disk, archives, forks, cut, bounds>>

RemoveStep(h) ==
  \/ RemoveCommandFolder(h) \/ DeleteCommand(h) \/ RefuseLocked(h) \/ RemoveFolder(h) \/ DeleteRow(h)

-----------------------------------------------------------------------------
(* archiveRepo, which remove and a download without an archive call.       *)

Archiving == {"archive", "open", "zip", "copy"}

\* resolveRepoArchive: any file under the name of the archive will do
Resolve(h) ==
  /\ At(h, {"download"}, "resolve")
  /\ Goto(h, IF zips[Own(h)].there THEN "returned" ELSE "archive")
  /\ UNCHANGED <<database, disk, archives, forks, cut, bounds>>

\* The folder is made when it is not there, so there is always one to archive;
\* an old archive is removed, and nothing waits for that.
PrepareArchive(h) ==
  LET r == Own(h) IN
  /\ handlers[h].pc = "archive"
  /\ IF zips[r].there
       THEN sweeping' = [sweeping EXCEPT ![r] = @ + 1] /\ swept' = swept \cup {r}
       ELSE UNCHANGED <<sweeping, swept>>
  /\ Goto(h, "open")
  /\ UNCHANGED <<database, disk, zips, forks, cut, bounds>>

Sweep(r) ==
  /\ sweeping[r] > 0
  /\ sweeping' = [sweeping EXCEPT ![r] = @ - 1]
  /\ zips' = [zips EXCEPT ![r] = NoZip]
  /\ UNCHANGED <<database, disk, swept, forks, handlers, cut, bounds>>

\* Mutant: writeZipPromise is not awaited.
OpenZipAndGoOn(h) ==
  LET r == Own(h) IN
  /\ handlers[h].pc = "open"
  /\ zips' = [zips EXCEPT ![r] = [there |-> TRUE, writers |-> (@.writers \ {Nobody}) \cup {h}]]
  /\ Goto(h, "copy")
  /\ UNCHANGED <<database, disk, sweeping, swept, forks, cut, bounds>>

\* writeZipPromise opens the file, truncated...
OpenZip(h) ==
  LET r == Own(h) IN
  /\ handlers[h].pc = "open"
  /\ zips' = [zips EXCEPT ![r] = [there |-> TRUE, writers |-> (@.writers \ {Nobody}) \cup {h}]]
  /\ Goto(h, "zip")
  /\ UNCHANGED <<database, disk, sweeping, swept, forks, cut, bounds>>

\* ... and has written it, if the name is still there.
WriteZip(h) ==
  LET r == Own(h) IN
  /\ handlers[h].pc = "zip"
  /\ zips' = [zips EXCEPT ![r].writers = @ \ {h}]
  /\ Goto(h, "copy")
  /\ UNCHANGED <<database, disk, sweeping, swept, forks, cut, bounds>>

\* The copy with a timestamp fails when the archive is gone.
CopyZip(h) ==
  /\ handlers[h].pc = "copy"
  /\ Goto(h, IF ~zips[Own(h)].there THEN "threw"
             ELSE CASE handlers[h].op = "download" -> "returned"
                    [] handlers[h].copy -> "folder"
                    [] OTHER -> "row")
  /\ UNCHANGED <<database, disk, archives, forks, cut, bounds>>

ArchiveStep(h) == Resolve(h) \/ PrepareArchive(h) \/ OpenZip(h) \/ WriteZip(h) \/ CopyZip(h)

-----------------------------------------------------------------------------
(* GitHub, and the crash of the server.                                    *)

\* A fork that was asked for is there at some time; one may be deleted.
ForkAppears(n) ==
  /\ forks[n].of # <<>> /\ ~forks[n].there
  /\ forks' = [forks EXCEPT ![n].there = TRUE]
  /\ UNCHANGED <<database, disk, archives, handlers, cut, bounds>>

ForkIsDeleted(n) ==
  /\ losses < MaxForkLosses /\ forks[n].there
  /\ forks' = [forks EXCEPT ![n] = NoFork]
  /\ losses' = losses + 1
  /\ UNCHANGED <<database, disk, archives, handlers, cut, requests, crashes>>

\* SQLite undoes what is open; a git that is running may still finish.
Crash ==
  /\ crashes < MaxCrashes
  /\ crashes' = crashes + 1
  /\ \E finish \in SUBSET {r \in Repos : disk[r].clone = "part"} :
       disk' = [r \in Repos |-> IF r \in finish THEN [disk[r] EXCEPT !.clone = "bare"] ELSE disk[r]]
  /\ cut' = cut \cup {r \in Repos : disk[r].clone \in {"part", "bare"}}
  /\ table' = IF undo = <<>> THEN table ELSE undo[1].table
  /\ undo' = <<>>
  /\ zips' = [r \in Repos |-> IF zips[r].writers = {} THEN zips[r] ELSE [there |-> TRUE, writers |-> {Nobody}]]
  /\ sweeping' = [r \in Repos |-> 0]
  /\ handlers' = [h \in Handlers |-> Idle]
  /\ UNCHANGED <<forks, swept, mixed, requests, losses>>

HandlerStep(h) ==
  \/ Commit(h) \/ Rollback(h) \/ Load(h) \/ LockOrUnlock(h)
  \/ CreateStep(h) \/ RemoveStep(h) \/ ArchiveStep(h)

Next ==
  \/ \E h \in Handlers : Request(h) \/ HandlerStep(h)
  \/ \E r \in Repos : Sweep(r)
  \/ \E n \in Names : ForkAppears(n) \/ ForkIsDeleted(n)
  \/ Crash

Spec == Init /\ [][Next]_vars

\* Database, git and GitHub answer; that a fork ever appears is not assumed.
FairSpec == Spec /\ \A h \in Handlers : WF_vars(HandlerStep(h))

-----------------------------------------------------------------------------
(* Properties.                                                             *)

RowType == [id : 0 .. MaxRequests + 1, locked : BOOLEAN, cmd : {"none", "open", "locked"}]
TableType == [seq : 1 .. MaxRequests + 1, rows : [Repos -> RowType]]
Steps == {"idle", "load", "write", "exists", "save", "upstream", "look", "found", "fork", "poll",
          "clone", "cloning", "addRemote", "command", "commandRow", "removal", "folder", "row",
          "resolve", "returned", "threw"} \cup Archiving

TypeOK ==
  /\ table \in TableType
  /\ undo \in Seq([table : TableType, by : Handlers])
  /\ disk \in [Repos -> [clone : {"none", "part", "bare", "ready"}, of : Repos \cup {<<>>}, work : BOOLEAN]]
  /\ zips \in [Repos -> [there : BOOLEAN, writers : SUBSET (Handlers \cup {Nobody})]]
  /\ sweeping \in [Repos -> 0 .. MaxRequests]
  /\ forks \in [Names -> [of : Repos \cup {<<>>}, there : BOOLEAN]]
  /\ handlers \in [Handlers -> [pc : Steps, op : Ops \cup {"none"}, r : Repos \cup {<<>>},
                               copy : BOOLEAN, c : RowType, polls : 0 .. MaxPolls - 1]]
  /\ cut \subseteq Repos /\ swept \subseteq Repos /\ mixed \in BOOLEAN

Creating(r) == \E h \in Handlers : handlers[h].op = "create" /\ Own(h) = r

\* A repository that is in the table can be worked on: its clone is whole and
\* has the remote its commands pull from, unless a creation of it was cut short
\* by a failure or a crash, or its folder was removed, and nothing has cloned it
\* since. (What a request writes or rolls back in a transaction of another one
\* is excepted: then a row stays whose creation was refused.)
RowHasClone ==
  ~mixed => \A r \in Repos : Row(r).id # 0 =>
    disk[r].clone = "ready" \/ r \in cut \/ Creating(r)

\* What archiveRepo copies and a download is given is a whole archive, unless a
\* crash tore it, another request is writing it, or the removal of the one
\* before it, which nobody waits for, may have taken this one.
ArchiveIsWhole ==
  \A h \in Handlers : handlers[h].pc = "copy" \/ At(h, {"download"}, "returned") =>
    \/ zips[Own(h)] = [there |-> TRUE, writers |-> {}]
    \/ Nobody \in zips[Own(h)].writers
    \/ \E g \in Handlers \ {h} : Own(g) = Own(h) /\ handlers[g].pc \in Archiving
    \/ Own(h) \in swept

\* Every request is answered, also when the fork it asked for never appears.
RequestsEnd == \A h \in Handlers : handlers[h].pc # "idle" ~> handlers[h].pc = "idle"
=============================================================================
