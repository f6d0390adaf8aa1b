----------------------------- MODULE GpuSchedule -----------------------------
(***************************************************************************)
(* A worker's ready queue over its devices, remote/gpu_schedule.py: jobs    *)
(* with dependencies and bounded attempts, one thread and one process per   *)
(* started job, a durable claim before each start, and a main loop that     *)
(* fills free devices, waits for an end and looks again.  The schedule may  *)
(* be killed at any point; the processes of its jobs have sessions of their *)
(* own and outlive it.                                                     *)
(*                                                                         *)
(* The receipt in memory and the file differ only while a claim is being    *)
(* made or an end is not yet written down, which are steps here.            *)
(***************************************************************************)
EXTENDS Sums, Sequences, FiniteSets, FiniteSetsExt

CONSTANTS
  Jobs,            \* names of tasks in the plans
  MaxDeaths,       \* bound: how often the schedule or its worker is killed
  MaxRuns          \* bound: how often the schedule or its worker is run

ASSUME JobsAssumption == IsFiniteSet(Jobs)

VARIABLES
  batch,           \* the plan and what happens beside it, fixed at the start
  scheduler,       \* where the main loop stands; "down" when no run is alive
  turn, stop,      \* its place in the plan, and what it read at the loop's top
  receipt,         \* entries of schedule-receipt.json
  outcome,         \* its status
  archive,         \* the packed batch: the receipt and the files that differ
  folders,         \* work directories of <<job, attempt>>
  process,         \* the command of <<job, attempt>> and the devices it holds
  active,          \* jobs whose future the main loop holds
  hot, late,       \* memory_stop, and the passed deadline of this run
  marks,           \* the files "pause" and "cancel"
  changed,         \* jobs whose accepted files were changed afterwards
  deaths, runs

scheduleVars == <<scheduler, turn, stop, receipt, outcome, archive, folders,
                  process, active, hot, late>>
besideVars == <<marks, changed>>

Claims == Jobs \X (1..3)
Listed == {batch.tasks[k] : k \in DOMAIN batch.tasks}
Absence == [status |-> "none", attempt |-> 0, on |-> {}]
NoProcess == [is |-> "none", on |-> {}]
NoArchive == [of |-> <<>>, bad |-> {}]

\* validate_schedule: what a plan is, whatever may happen beside it.
BatchPlans ==
  [tasks: Seq(Jobs), deps: [Jobs -> SUBSET Jobs], count: [Jobs -> Nat], vram: [Jobs -> Nat],
   tries: [Jobs -> 1..3], devices: SUBSET Nat, slots: Nat, budget: Nat,
   by: {"none", "worker", "operator"},
   beside: SUBSET {"pause", "cancel", "cut", "store", "change", "memory", "late"}]

ScheduleInit ==
  /\ scheduler = "down" /\ turn = 1 /\ stop = FALSE
  /\ receipt = [j \in Jobs |-> Absence]
  /\ outcome = "running" /\ archive = NoArchive /\ folders = {}
  /\ process = [c \in Claims |-> NoProcess]
  /\ active = {} /\ hot = FALSE /\ late = FALSE
  /\ marks = {} /\ changed = {} /\ deaths = 0 /\ runs = 0

Accepted == {j \in Listed : receipt[j].status = "accepted"}

\* A claim that was never settled is unknown, a changed result is refused.
RunnableOverClaims == Accepted \cap changed = {}
Runnable ==
  /\ \A j \in Listed : receipt[j].status # "running"
  /\ Accepted \cap changed = {}

OpenSchedule ==
  /\ scheduler = "down" /\ Runnable
  /\ scheduler' = "look" /\ outcome' = "running" /\ hot' = FALSE /\ late' = FALSE
  /\ UNCHANGED <<turn, stop, receipt, archive, folders, process, active>>

----------------------------------------------------------------------------
(* The main loop.                                                          *)

\* The memory is sampled and the reasons to stop are read once per round.
Look ==
  /\ scheduler = "look"
  /\ hot' \in IF batch.budget > 0 /\ "memory" \in batch.beside THEN {hot, TRUE} ELSE {hot}
  /\ stop' = (marks # {} \/ hot' \/ late)
  /\ turn' = 1 /\ scheduler' = "fill"
  /\ UNCHANGED <<receipt, outcome, archive, folders, process, active, late>>

Reserved(d) == {j \in active : d \in receipt[j].on}

Available(j) ==
  {d \in batch.devices :
     /\ Cardinality(Reserved(d)) < batch.slots
     /\ batch.budget > 0 =>
          SumOver(batch.vram, Reserved(d)) + batch.vram[j] <= batch.budget}

Lost(j) == \E d \in batch.deps[j] : receipt[d].status \in {"failed", "blocked"}

Startable(j) ==
  /\ batch.deps[j] \subseteq Accepted
  /\ Cardinality(Available(j)) >= batch.count[j]

\* Tasks of the plan, from this round's place on, that the loop acts upon.
Due ==
  {k \in turn .. Len(batch.tasks) :
     LET j == batch.tasks[k] IN
     /\ ~stop /\ j \notin active
     /\ receipt[j].status \in {"none", "redo"}
     /\ Lost(j) \/ Startable(j)}

DueJob == batch.tasks[Min(Due)]
DueClaim == <<DueJob, receipt[DueJob].attempt + 1>>

Block ==
  /\ scheduler = "fill" /\ Due # {} /\ Lost(DueJob)
  /\ receipt' = [receipt EXCEPT ![DueJob] = [Absence EXCEPT !.status = "blocked"]]
  /\ turn' = Min(Due) + 1
  /\ UNCHANGED <<scheduler, stop, outcome, archive, folders, process, active, hot, late>>

\* The work directory comes first; one that is there already ends the run.
MakeFolder ==
  /\ scheduler = "fill" /\ Due # {} /\ ~Lost(DueJob)
  /\ scheduler' = IF DueClaim \in folders THEN "raise" ELSE "claim"
  /\ folders' = folders \cup {DueClaim}
  /\ turn' = Min(Due)
  /\ UNCHANGED <<stop, receipt, outcome, archive, process, active, hot, late>>

\* The first devices that fit are taken.
FirstDevices(available, n) ==
  {d \in available : Cardinality({i \in available : i < d}) < n}

SaveClaim ==
  /\ scheduler = "claim"
  /\ LET on == FirstDevices(Available(DueJob), batch.count[DueJob]) IN
     /\ receipt' = [receipt EXCEPT ![DueJob] =
                      [status |-> "running", attempt |-> DueClaim[2], on |-> on]]
     /\ process' = [process EXCEPT ![DueClaim] = [is |-> "queued", on |-> on]]
  /\ active' = active \cup {DueJob}
  /\ scheduler' = "fill" /\ turn' = turn + 1
  /\ UNCHANGED <<stop, outcome, archive, folders, hot, late>>

Filled ==
  /\ scheduler = "fill" /\ Due = {}
  /\ scheduler' = IF active = {} THEN "close" ELSE "wait"
  /\ UNCHANGED <<turn, stop, receipt, outcome, archive, folders, process, active, hot, late>>

\* One finished future is written down.
Collect(j) ==
  /\ scheduler = "wait" /\ j \in active
  /\ LET c == <<j, receipt[j].attempt>> IN
     /\ process[c].is \in {"passed", "failed"}
     /\ receipt' = [receipt EXCEPT ![j].status =
                      IF process[c].is = "passed" THEN "accepted"
                      ELSE IF c[2] >= batch.tries[j] THEN "failed" ELSE "redo"]
  /\ active' = active \ {j}
  /\ UNCHANGED <<scheduler, turn, stop, outcome, archive, folders, process, hot, late>>

LookAgain ==
  /\ scheduler = "wait" /\ scheduler' = "look"
  /\ UNCHANGED <<turn, stop, receipt, outcome, archive, folders, process, active, hot, late>>

\* The marks are read again, and only entries that exist are looked at.
FinalStatus ==
  IF hot THEN "failed" ELSE IF marks # {} THEN "paused"
  ELSE IF late \/ \E j \in Listed : receipt[j].status \notin {"none", "accepted"}
  THEN "failed" ELSE "completed"

Close ==
  /\ scheduler = "close" /\ outcome' = FinalStatus
  /\ scheduler' = IF outcome' = "completed" THEN "pack" ELSE "down"
  /\ UNCHANGED <<turn, stop, receipt, archive, folders, process, active, hot, late>>

Pack ==
  /\ scheduler = "pack" /\ scheduler' = "down"
  /\ archive' = [of |-> receipt, bad |-> changed \cap Accepted]
  /\ UNCHANGED <<turn, stop, receipt, outcome, folders, process, active, hot, late>>

\* An exception leaves the pool only after every submitted job has ended.
Raise ==
  /\ scheduler = "raise"
  /\ \A j \in active : process[<<j, receipt[j].attempt>>].is \in {"passed", "failed"}
  /\ scheduler' = "down" /\ active' = {}
  /\ UNCHANGED <<turn, stop, receipt, outcome, archive, folders, process, hot, late>>

LoopStep ==
  \/ Look \/ Block \/ MakeFolder \/ SaveClaim \/ Filled \/ LookAgain \/ Close \/ Pack
  \/ Raise \/ \E j \in Listed : Collect(j)

----------------------------------------------------------------------------
(* Threads, processes and what happens beside them.                        *)

StartProcess(c) ==
  /\ scheduler # "down" /\ process[c].is = "queued"
  /\ process' = [process EXCEPT ![c].is = "running"]
  /\ UNCHANGED <<scheduler, turn, stop, receipt, outcome, archive, folders, active, hot, late>>

\* It ends by itself, or is stopped by a cancellation, the deadline or memory.
EndProcess(c) ==
  /\ process[c].is = "running"
  /\ \E how \in {"passed", "failed"} : process' = [process EXCEPT ![c].is = how]
  /\ UNCHANGED <<scheduler, turn, stop, receipt, outcome, archive, folders, active, hot, late>>

\* Killing the schedule ends its threads, not the processes they started.
Killed ==
  /\ scheduler # "down" /\ scheduler' = "down" /\ active' = {}
  /\ process' = [c \in Claims |->
                   IF process[c].is = "queued" THEN NoProcess ELSE process[c]]
  /\ UNCHANGED <<turn, stop, receipt, outcome, archive, folders, hot, late>>

Mark ==
  /\ \/ "pause" \in batch.beside
        /\ marks' \in {marks \cup {"pause"}, marks \ {"pause"}}
     \/ "cancel" \in batch.beside /\ marks' = marks \cup {"cancel"}
  /\ UNCHANGED <<scheduleVars, changed>>

DeadlinePasses ==
  /\ "late" \in batch.beside /\ scheduler # "down" /\ ~late /\ late' = TRUE
  /\ UNCHANGED <<scheduler, turn, stop, receipt, outcome, archive, folders, process,
                 active, hot, besideVars>>

ChangeFile(j) ==
  /\ "change" \in batch.beside /\ j \in Accepted /\ changed = {} /\ changed' = {j}
  /\ UNCHANGED <<scheduleVars, marks>>

----------------------------------------------------------------------------
(* Verification of a packed batch, remote/gpu_batch.py.                    *)

CheckedEntries(packed) ==   \* the entries of the receipt, not the tasks of the plan
  {j \in Listed : packed.of[j].status # "none"}
Checked(packed) == Listed

WholeBatch(packed) ==
  /\ packed # NoArchive
  /\ \A j \in Checked(packed) :
       /\ packed.of[j].status = "accepted" /\ packed.of[j].attempt \in 1..batch.tries[j]
       /\ Cardinality(packed.of[j].on) = batch.count[j]
  /\ packed.bad = {}

----------------------------------------------------------------------------
(* Properties.                                                             *)

PromisedTo == [c \in Claims |-> batch.vram[c[1]]]
Holding(d) == {c \in Claims : process[c].is = "running" /\ d \in process[c].on}

\* No device ever carries more jobs, or more promised memory, than the plan
\* allows, the processes included that outlived a killed schedule while a
\* later run fills the devices again.
DevicesNotOvercommitted ==
  \A d \in batch.devices :
    /\ Cardinality(Holding(d)) <= batch.slots
    /\ batch.budget > 0 => SumOver(PromisedTo, Holding(d)) <= batch.budget
=============================================================================
