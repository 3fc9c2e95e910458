-------------------------- MODULE CommandLifecycle --------------------------
(***************************************************************************)
(* What the command service promises of a command's status, and nothing    *)
(* else of it: jobs wait in one queue and are run one at a time, first     *)
(* come first served; a command becomes Running when its job is taken up,  *)
(* Succeeded or Failed when that run ends, and Failed when the server      *)
(* boots after a crash; a request only submits a job, makes a command      *)
(* Pending or Queued, or writes back a status that it read before.         *)
(*                                                                         *)
(* CommandService implements this specification: CommandRefinement has the *)
(* mapping and LifecycleHolds.  The stages of a run, working copies, locks,*)
(* settings and repositories are the detailed one's.  Cmds is a finite set *)
(* of natural numbers, as CommandService assumes of its own.               *)
(***************************************************************************)
EXTENDS Naturals, Sequences, FiniteSets

CONSTANTS
  Cmds,     \* the commands: their ids, which grow with the time of creation
  Lossy     \* may a run end without having recorded what became of it?

VARIABLES
  status,       \* the status in each row, "Absent" when there is none
  drafts,       \* what requests in flight have read: pairs of command and status
  waiting,      \* the queue
  active,       \* the run: its command, and whether it has been made Running
  interrupted,  \* after a boot: who is to be marked Failed
  recovery      \* what the boot does next: "find", "refill" or, when over, "none"

lifecycleVars == <<status, drafts, waiting, active, interrupted, recovery>>

NoRun == [phase |-> "none", id |-> 0]

Init ==
  /\ status \in [Cmds -> {"Absent", "Pending"}]
  /\ drafts = {}
  /\ waiting = <<>>
  /\ active = NoRun
  /\ interrupted = {}
  /\ recovery = "find"

Set(id, s) == status' = [status EXCEPT ![id] = s]

-----------------------------------------------------------------------------
(* Requests.  At any of its steps a request may forget what it has read.   *)

KeepService == UNCHANGED <<active, interrupted, recovery>>

Read(id) ==
  /\ status[id] # "Absent"
  /\ drafts' \subseteq drafts \cup {<<id, status[id]>>}
  /\ UNCHANGED <<status, waiting>> /\ KeepService

Forget ==
  /\ drafts' \subseteq drafts
  /\ UNCHANGED <<status, waiting>> /\ KeepService

Reset(id) ==
  /\ \E s \in {"Pending", "Queued"} : Set(id, s)
  /\ drafts' \subseteq drafts
  /\ UNCHANGED waiting /\ KeepService

\* The lost update of a save of a whole row: the status is the one read then.
WriteBack(id) ==
  /\ \E draft \in drafts : draft[1] = id /\ Set(id, draft[2])
  /\ drafts' \subseteq drafts
  /\ UNCHANGED waiting /\ KeepService

Remove(id) ==
  /\ Set(id, "Absent")
  /\ drafts' \subseteq drafts
  /\ UNCHANGED waiting /\ KeepService

Submit(id) ==
  /\ waiting' = Append(waiting, id)
  /\ drafts' \subseteq drafts
  /\ UNCHANGED status /\ KeepService

-----------------------------------------------------------------------------
(* The run.                                                                *)

KeepRecovery == UNCHANGED <<drafts, interrupted, recovery>>

Take ==
  /\ active = NoRun /\ waiting # <<>>
  /\ active' = [phase |-> "taken", id |-> Head(waiting)]
  /\ waiting' = Tail(waiting)
  /\ UNCHANGED status /\ KeepRecovery

\* At the start of the run, and again with each stage that is recorded.
Progress ==
  /\ active # NoRun
  /\ active' = [active EXCEPT !.phase = "running"]
  /\ Set(active.id, "Running")
  /\ UNCHANGED waiting /\ KeepRecovery

Conclude ==
  /\ active.phase = "running"
  /\ active' = NoRun
  /\ \E s \in {"Succeeded", "Failed"} : Set(active.id, s)
  /\ UNCHANGED waiting /\ KeepRecovery

\* What a run that is disturbed while it records its status may leave.
Falter ==
  /\ Lossy /\ active # NoRun
  /\ active' \in {active, [active EXCEPT !.phase = "running"], NoRun}
  /\ \E s \in {status[active.id], "Running", "Succeeded", "Failed"} : Set(active.id, s)
  /\ UNCHANGED waiting /\ KeepRecovery

-----------------------------------------------------------------------------
(* A crash and the recovery after it, in which requests are served already. *)

LoseMemory ==
  /\ drafts' = {}
  /\ waiting' = <<>>
  /\ active' = NoRun
  /\ interrupted' = {}
  /\ recovery' = "find"

Die == LoseMemory /\ UNCHANGED status

DieMarking(id) == Lossy /\ id \in interrupted /\ LoseMemory /\ Set(id, "Failed")

FindInterrupted ==
  /\ recovery = "find"
  /\ recovery' = "refill"
  /\ interrupted' = {id \in Cmds : status[id] = "Running"}
  /\ UNCHANGED <<status, drafts, waiting, active>>

MarkInterrupted(id) ==
  /\ id \in interrupted
  /\ interrupted' = interrupted \ {id}
  /\ Set(id, "Failed")
  /\ UNCHANGED <<drafts, waiting, active, recovery>>

\* Each Queued command waits again, the oldest first.
RefillQueue ==
  /\ recovery = "refill"
  /\ recovery' = "none"
  /\ \E n \in 0 .. Cardinality(Cmds) : \E again \in [1 .. n -> Cmds] :
       /\ \A id \in Cmds : status[id] = "Queued" <=> \E i \in DOMAIN again : again[i] = id
       /\ \A i, j \in DOMAIN again : i < j => again[i] < again[j]
       /\ waiting' = waiting \o again
  /\ UNCHANGED <<status, drafts, active, interrupted>>

-----------------------------------------------------------------------------

Next ==
  \/ \E id \in Cmds : Read(id) \/ Reset(id) \/ WriteBack(id) \/ Remove(id) \/ Submit(id)
  \/ Forget
  \/ Take \/ Progress \/ Conclude \/ Falter
  \/ Die \/ FindInterrupted \/ RefillQueue
  \/ \E id \in Cmds : MarkInterrupted(id) \/ DieMarking(id)

Spec == Init /\ [][Next]_lifecycleVars

=============================================================================
