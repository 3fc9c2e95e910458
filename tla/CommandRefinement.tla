-------------------------- MODULE CommandRefinement --------------------------
(***************************************************************************)
(* The command service implements CommandLifecycle: the status is the one  *)
(* in the row, the drafts are the copies that handlers hold and may save   *)
(* with the status they loaded, the queue is the queue of closures.        *)
(***************************************************************************)
EXTENDS CommandService

\* A run may end unrecorded when a step outside the try fails, when a message
\* cannot be rendered, or when the row the worker would save has been removed.
Lossy == "remove" \in Ops \/ "prepare" \in Faults \/ "render" \in Faults

Statuses == [id \in Cmds |-> IF id \in present THEN rows[id].status ELSE "Absent"]

HoldsDraft(h) == handlers[h].pc = "write" /\ handlers[h].op \notin Creates
Drafts == {<<handlers[h].id, handlers[h].c.status>> : h \in {g \in Handlers : HoldsDraft(g)}}

Ids(jobs) == [i \in DOMAIN jobs |-> jobs[i].id]

RunOf(w) ==
  [phase |-> CASE w.pc = "idle" -> "none"
               [] w.pc = "start" -> "taken"
               [] OTHER -> "running",
   id |-> IF w.pc = "idle" THEN 0 ELSE w.id]

Interrupted == {job.id : job \in boot.failing}

RecoveryAt(pc) ==
  CASE pc = "listRunning" -> "find"
    [] pc = "listQueued" -> "refill"
    [] OTHER -> "none"

Lifecycle == INSTANCE CommandLifecycle WITH
  status <- Statuses, drafts <- Drafts, waiting <- Ids(queue), active <- RunOf(worker),
  interrupted <- Interrupted, recovery <- RecoveryAt(boot.pc)

\* Whatever the requests do to their stale copies and wherever the server dies,
\* the runs are one at a time and in the order of their jobs, a run that was
\* taken up is recorded Running and then Succeeded or Failed, and nothing but a
\* run or the recovery makes a command so, except a save of a copy read before.
LifecycleHolds == Lifecycle!Spec

=============================================================================
