------------------------------- MODULE GpuJob -------------------------------
(***************************************************************************)
(* A sealed v2 request whose recipe has one step, a GPU schedule: the       *)
(* worker's program (remote/v2.py, _run_worker) with its journal, its       *)
(* sealed result and the object store, and the parent that collects.  The   *)
(* worker may be run again, killed, cancelled or cut off from the store at  *)
(* any point; a worker that is killed leaves its schedule running.          *)
(***************************************************************************)
EXTENDS GpuSchedule

VARIABLES
  worker,          \* where the worker stands; "down" when none runs
  journal,         \* the step's status in child-journal.json
  verdict,         \* the status the worker is about to seal
  sealed,          \* the status in result.json, "none" before
  stored,          \* the batch and the result in the object store
  collected        \* the batch the parent accepted

workerVars == <<worker, journal, verdict, sealed, stored, collected>>
gpuVars == <<batch, scheduleVars, besideVars, deaths, runs, workerVars>>

GpuJobInit ==
  /\ ScheduleInit
  /\ worker = "down" /\ journal = "none" /\ verdict = "none" /\ sealed = "none"
  /\ stored = [batch |-> NoArchive, result |-> "none"] /\ collected = NoArchive

Run == runs < MaxRuns /\ runs' = runs + 1
Death == deaths < MaxDeaths /\ deaths' = deaths + 1

\* A sealed result is only published again.
OpenWorker ==
  /\ worker = "down" /\ Run
  /\ worker' = IF sealed # "none" THEN "publish" ELSE "open"
  /\ UNCHANGED <<scheduleVars, journal, verdict, sealed, stored, collected>>

ClaimStep ==
  /\ worker = "open" /\ journal = "none"
  /\ journal' = "running" /\ worker' = "start"
  /\ UNCHANGED <<scheduleVars, verdict, sealed, stored, collected, runs>>

StartSchedule ==
  /\ worker = "start" /\ worker' = "step" /\ OpenSchedule
  /\ UNCHANGED <<journal, verdict, sealed, stored, collected, runs>>

Gives(status) == worker' = "seal" /\ verdict' = status

\* Outside the step's own handler nothing is sealed.
OpenFails ==
  /\ worker = "open" /\ "store" \in batch.beside /\ worker' = "down"
  /\ UNCHANGED <<scheduleVars, journal, verdict, sealed, stored, collected, runs>>

\* Setup may fail, a kept output may differ, and a step that was claimed by an
\* earlier run is not known to have ended.
StopsEarly ==
  /\ worker = "open" /\ Gives("failed")
  /\ UNCHANGED <<scheduleVars, journal, sealed, stored, collected, runs>>

StepKept ==
  /\ worker = "open" /\ journal = "completed" /\ worker' = "put"
  /\ UNCHANGED <<scheduleVars, journal, verdict, sealed, stored, collected, runs>>

StepReturns ==
  /\ worker = "step" /\ scheduler = "down"
  /\ IF archive # NoArchive
     THEN journal' = "completed" /\ worker' = "put" /\ UNCHANGED verdict
     ELSE Gives("failed") /\ UNCHANGED journal
  /\ UNCHANGED <<scheduleVars, sealed, stored, collected, runs>>

\* Cancellation and the deadline end the schedule with its process group.
StepCut ==
  /\ worker = "step" /\ "cut" \in batch.beside /\ Killed
  /\ Gives("cancelled") \/ Gives("failed")
  /\ UNCHANGED <<journal, sealed, stored, collected, runs>>

\* Outputs are stored before the batch is verified.
PutOutputs ==
  /\ worker = "put"
  /\ \/ /\ stored' = [stored EXCEPT !.batch = archive]
        /\ Gives(IF WholeBatch(archive) THEN "completed" ELSE "failed")
     \/ "store" \in batch.beside /\ Gives("failed") /\ UNCHANGED stored
  /\ UNCHANGED <<scheduleVars, journal, sealed, collected, runs>>

\* The evidence is stored first; without the store the result is not sealed.
Seal ==
  /\ worker = "seal"
  /\ \/ sealed' = verdict /\ worker' = "publish"
     \/ "store" \in batch.beside /\ worker' = "down" /\ UNCHANGED sealed
  /\ UNCHANGED <<scheduleVars, journal, verdict, stored, collected, runs>>

Publish ==
  /\ worker = "publish" /\ worker' = "down"
  /\ \/ stored' = [stored EXCEPT !.result = sealed]
     \/ "store" \in batch.beside /\ UNCHANGED stored
  /\ UNCHANGED <<scheduleVars, journal, verdict, sealed, collected, runs>>

\* collect_result verifies everything again before it publishes once.
CollectBatch ==
  /\ stored.result = "completed" /\ WholeBatch(stored.batch) /\ collected = NoArchive
  /\ collected' = stored.batch
  /\ UNCHANGED <<scheduleVars, worker, journal, verdict, sealed, stored, runs>>

WorkerDies ==
  /\ worker # "down" /\ Death /\ worker' = "down"
  /\ UNCHANGED <<scheduleVars, journal, verdict, sealed, stored, collected, runs, besideVars>>

ScheduleDies == Killed /\ Death /\ UNCHANGED <<workerVars, runs, besideVars>>

\* Outside a worker an operator runs the same schedule again and again.
OperatorRuns == batch.by = "operator" /\ Run /\ OpenSchedule /\ UNCHANGED workerVars

WorkerStep ==
  \/ OpenWorker \/ ClaimStep \/ StartSchedule \/ OpenFails \/ StopsEarly \/ StepKept \/ StepReturns
  \/ StepCut \/ PutOutputs \/ Seal \/ Publish \/ CollectBatch

ScheduleStep == LoopStep \/ \E c \in Claims : StartProcess(c) \/ EndProcess(c)

GpuNext ==
  /\ UNCHANGED batch
  /\ \/ batch.by = "worker" /\ WorkerStep /\ UNCHANGED <<besideVars, deaths>>
     \/ OperatorRuns /\ UNCHANGED <<besideVars, deaths>>
     \/ ScheduleStep /\ UNCHANGED <<workerVars, besideVars, deaths, runs>>
     \/ (Mark \/ DeadlinePasses \/ \E j \in Jobs : ChangeFile(j))
        /\ UNCHANGED <<workerVars, deaths, runs>>
     \/ WorkerDies \/ ScheduleDies

GpuSpec == batch \in BatchPlans /\ GpuJobInit /\ [][GpuNext]_gpuVars

----------------------------------------------------------------------------
\* What the parent accepts holds every task of the plan, each produced by an
\* attempt that passed and unchanged since, whatever was killed, paused, run
\* again or packed early on the worker.
CollectedIsWhole ==
  collected # NoArchive =>
    \A j \in Listed :
      /\ collected.of[j].status = "accepted" /\ j \notin collected.bad
      /\ process[<<j, collected.of[j].attempt>>].is = "passed"
=============================================================================
