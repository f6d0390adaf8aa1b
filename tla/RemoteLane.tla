----------------------------- MODULE RemoteLane -----------------------------
(***************************************************************************)
(* The first dispatch protocol: the parent's durable intent and verified    *)
(* collection (remote/dispatch.py), the four transports that carry it       *)
(* (transports.py, the HTTP server of reference.py, the bootstrap), and the *)
(* approved recipe runner at the other end (worker.py).                     *)
(*                                                                         *)
(* Every command of the parent holds its request's lock and the worker its  *)
(* own, so each side of a request is one process at a time; either may be   *)
(* killed between any two steps and be run again.                           *)
(***************************************************************************)
EXTENDS Integers, FiniteSets, FiniteSetsExt

CONSTANTS
  Bundles,         \* request digests; all are attempts of one parent step
  MaxLaneDeaths,   \* bound: killed commands and workers
  MaxReruns        \* bound: "remote worker" run again by hand

VARIABLES
  lane,            \* transport, bundles used, recipe steps, events beside
  intent,          \* the dispatch directory with its ledger.json
  kept,            \* the result in "accepted"
  dispatcher,      \* where the command that holds the request's lock stands
  fetched,         \* the archive it downloaded
  coming,          \* uploads that the HTTP server has yet to handle
  claimed,         \* requests the other end has a directory for
  workerAt, ending,        \* the worker's place, and the status it will seal
  childJournal, started,   \* of each step: its entry, and how often it was started
  resultJson, resultZip,   \* the sealed result
  workerStatus, cancelFile,
  overdue,         \* requests past the deadline of their policy
  laneDeaths, reruns

parentVars == <<intent, kept, dispatcher, fetched>>
workVars == <<workerAt, ending, childJournal, started, resultJson, resultZip, workerStatus>>
laneVars == <<lane, parentVars, coming, claimed, workVars, cancelFile, overdue, laneDeaths, reruns>>

StepsOf == 1 .. lane.steps
NoResult == [n |-> 0, status |-> "none", steps |-> {}]
Over(kind) == lane.transport = kind
Allows(event) == event \in lane.beside

\* What the operator's profile and the sealed recipe fix.
LaneKinds ==
  [transport: {"local", "http", "ssh", "kaggle"}, bundles: SUBSET Bundles, steps: Nat,
   beside: SUBSET {"cancel", "late", "reconcile", "early"}]

LaneInit ==
  /\ intent = [r \in Bundles |-> [is |-> "none", status |-> "none", accepted |-> 0]]
  /\ kept = [r \in Bundles |-> NoResult] /\ fetched = [r \in Bundles |-> NoResult]
  /\ dispatcher = [r \in Bundles |-> "off"]
  /\ coming = {} /\ claimed = {} /\ cancelFile = {} /\ overdue = {}
  /\ workerAt = [r \in Bundles |-> "off"] /\ ending = [r \in Bundles |-> "none"]
  /\ childJournal = [r \in Bundles |-> [s \in StepsOf |-> "none"]]
  /\ started = [r \in Bundles |-> [s \in StepsOf |-> 0]]
  /\ resultJson = [r \in Bundles |-> NoResult] /\ resultZip = [r \in Bundles |-> NoResult]
  /\ workerStatus = [r \in Bundles |-> "none"]
  /\ laneDeaths = 0 /\ reruns = 0

Saves(r, status) == intent' = [intent EXCEPT ![r].status = status]
Moves(r, step) == dispatcher' = [dispatcher EXCEPT ![r] = step]

----------------------------------------------------------------------------
(* submit_bundle.  A whole submission holds the lock of the state root too. *)

Submitting == {"write", "prepare", "submit"}

SiblingUnknown(r) ==
  \E q \in Bundles \ {r} : intent[q].is = "kept" /\ intent[q].status = "submission_unknown"

SubmitBundle(r) ==
  /\ dispatcher[r] = "off" /\ \A q \in Bundles : dispatcher[q] \notin Submitting
  /\ \/ /\ intent[r].is = "none" /\ ~SiblingUnknown(r)
        /\ intent' = [intent EXCEPT ![r].is = "torn"] /\ Moves(r, "write")
     \/ /\ intent[r].is = "kept" /\ intent[r].status = "prepared"
        /\ Moves(r, "prepare") /\ UNCHANGED intent
  /\ UNCHANGED <<kept, fetched, coming, claimed, workVars>>

WriteIntent(r) ==
  /\ dispatcher[r] = "write" /\ Moves(r, "prepare")
  /\ intent' = [intent EXCEPT ![r].is = "kept", ![r].status = "prepared"]
  /\ UNCHANGED <<kept, fetched, coming, claimed, workVars>>

\* The doubt is durable before anything is sent.
IntendsFirst(r) == Saves(r, "submission_unknown")

PrepareLane(r) ==
  /\ dispatcher[r] = "prepare"
  /\ \/ Moves(r, "off") /\ UNCHANGED intent
     \/ Moves(r, "submit") /\ IntendsFirst(r)
  /\ UNCHANGED <<kept, fetched, coming, claimed, workVars>>

\* The server and the SSH host start a worker for a directory they create.
Repeated(r) == r \in claimed /\ (Over("http") \/ Over("ssh"))

Spawns(r) ==
  /\ claimed' = claimed \cup {r}
  /\ workerAt' = IF Repeated(r) \/ workerAt[r] # "off" THEN workerAt
                 ELSE [workerAt EXCEPT ![r] = "spawned"]

ClaimsOnly(r) == (Over("ssh") \/ Over("http")) /\ claimed' = claimed \cup {r} /\ UNCHANGED workerAt

AdapterSubmit(r) ==
  /\ dispatcher[r] = "submit" /\ Moves(r, "off")
  /\ \/ Spawns(r) /\ Saves(r, "submitted") /\ UNCHANGED coming
     \/ /\ \/ Spawns(r) /\ UNCHANGED coming
           \/ ClaimsOnly(r) /\ UNCHANGED coming
           \/ UNCHANGED <<claimed, workerAt, coming>>
           \/ Over("http") /\ coming' = coming \cup {r} /\ UNCHANGED <<claimed, workerAt>>
        /\ UNCHANGED intent
  /\ UNCHANGED <<kept, fetched, ending, childJournal, started, resultJson, resultZip, workerStatus>>

\* An upload whose sender gave up is handled all the same.
ServerReceives(r) ==
  /\ r \in coming /\ coming' = coming \ {r}
  /\ Spawns(r) \/ ClaimsOnly(r)
  /\ UNCHANGED <<parentVars, ending, childJournal, started, resultJson, resultZip, workerStatus>>

----------------------------------------------------------------------------
(* update_dispatch.                                                        *)

Held(r) == dispatcher[r] = "off" /\ intent[r].is = "kept"
Open(r) == Held(r) /\ r \notin overdue

\* Whatever the command, and whatever the status was.
Expire(r) ==
  /\ Held(r) /\ r \in overdue /\ Saves(r, "expired")
  /\ UNCHANGED <<kept, dispatcher, fetched, coming, claimed, workVars, cancelFile>>

\* What the transport says of the job.
Reported(r) ==
  IF Over("kaggle")
  THEN IF workerAt[r] # "off" THEN "running" ELSE IF resultZip[r] # NoResult THEN "completed" ELSE "failed"
  ELSE IF resultZip[r] # NoResult THEN resultJson[r].status
  ELSE IF workerStatus[r] = "none" THEN "queued" ELSE workerStatus[r]

Visible(r) == IF Over("local") THEN workerStatus[r] # "none" ELSE r \in claimed

CancelDispatch(r) ==
  /\ Open(r) /\ Allows("cancel") /\ Saves(r, "cancel_requested") /\ Moves(r, "cancel")
  /\ UNCHANGED <<kept, fetched, coming, claimed, workVars, cancelFile>>

AdapterCancel(r) ==
  /\ dispatcher[r] = "cancel" /\ Moves(r, "off")
  /\ \/ Over("kaggle") /\ Saves(r, "cancel_unsupported") /\ UNCHANGED cancelFile
     \/ /\ Over("local") \/ (Over("http") /\ r \in claimed)
        /\ IF Reported(r) \in {"completed", "failed", "cancelled"}
           THEN /\ Saves(r, IF Reported(r) = "cancelled" THEN "cancelled" ELSE "remote_completed")
                /\ UNCHANGED cancelFile
           ELSE cancelFile' = cancelFile \cup {r} /\ UNCHANGED intent
     \/ Over("ssh") /\ cancelFile' = cancelFile \cup {r} /\ UNCHANGED intent
     \/ (Over("ssh") \/ Over("http")) /\ UNCHANGED <<intent, cancelFile>>
  /\ UNCHANGED <<kept, fetched, coming, claimed, workVars>>

\* On command, and instead of any other command while the submission is unknown.
ReconcileDispatch(r) ==
  /\ Open(r) /\ Visible(r) /\ Saves(r, "submitted")
  /\ intent[r].status = "submission_unknown" \/ Allows("reconcile")
  /\ UNCHANGED <<kept, dispatcher, fetched, coming, claimed, workVars, cancelFile>>

StatusDispatch(r) ==
  /\ Open(r)
  /\ intent[r].status \notin {"submission_unknown", "verified", "remote_failed", "cancelled", "expired"}
  /\ intent[r].status = "prepared" => Allows("early") /\ ~Over("http")
  /\ Saves(r, CASE Reported(r) = "completed" -> "remote_completed"
                [] Reported(r) = "failed" -> "remote_failed"
                [] OTHER -> Reported(r))
  /\ UNCHANGED <<kept, dispatcher, fetched, coming, claimed, workVars, cancelFile>>

FetchDispatch(r) ==
  /\ Open(r) /\ intent[r].status \notin {"submission_unknown", "cancelled", "expired"}
  /\ resultZip[r] # NoResult
  /\ fetched' = [fetched EXCEPT ![r] = resultZip[r]]
  /\ Saves(r, "downloaded") /\ Moves(r, "fetched")
  /\ UNCHANGED <<kept, coming, claimed, workVars, cancelFile>>

\* validate_result, the ledger's earlier digest and the published folder.
VerifiesSealed(r) ==   \* a whole archive is taken, whatever it reports
  /\ intent[r].accepted \in {0, fetched[r].n}
  /\ kept[r] \in {NoResult, fetched[r]}

Verifies(r) ==
  /\ fetched[r].status = "completed" /\ fetched[r].steps = StepsOf
  /\ intent[r].accepted \in {0, fetched[r].n}
  /\ kept[r] \in {NoResult, fetched[r]}

ValidateResult(r) ==
  /\ dispatcher[r] = "fetched"
  /\ IF Verifies(r)
     THEN kept' = [kept EXCEPT ![r] = fetched[r]] /\ Moves(r, "moved")
     ELSE Moves(r, "off") /\ UNCHANGED kept
  /\ fetched' = [fetched EXCEPT ![r] = NoResult]
  /\ UNCHANGED <<intent, coming, claimed, workVars, cancelFile>>

SaveVerified(r) ==
  /\ dispatcher[r] = "moved" /\ Moves(r, "off")
  /\ intent' = [intent EXCEPT ![r].status = "verified", ![r].accepted = kept[r].n]
  /\ UNCHANGED <<kept, fetched, coming, claimed, workVars, cancelFile>>

----------------------------------------------------------------------------
(* run_worker.                                                             *)

Turns(r, step) == workerAt' = [workerAt EXCEPT ![r] = step]
Ends(r, status) == Turns(r, "json") /\ ending' = [ending EXCEPT ![r] = status]

\* A sealed result is only reported.
Sealed(r) == resultZip[r] # NoResult

WorkerOpens(r) ==
  /\ \/ workerAt[r] = "spawned" /\ UNCHANGED reruns
     \/ /\ workerAt[r] = "off" /\ r \in claimed /\ ~Over("kaggle")
        /\ reruns < MaxReruns /\ reruns' = reruns + 1
  /\ IF Sealed(r)
     THEN Turns(r, "off") /\ UNCHANGED workerStatus
     ELSE Turns(r, "steps") /\ workerStatus' = [workerStatus EXCEPT ![r] = "running"]
  /\ UNCHANGED <<ending, childJournal, started, resultJson, resultZip>>

Todo(r) == {s \in StepsOf : childJournal[r][s] # "completed"}

\* A step that an earlier run entered is unknown and is not entered again.
EntersStep(entry) == entry = "none"

ClaimsStep(r) ==
  /\ workerAt[r] = "steps" /\ Todo(r) # {} /\ EntersStep(childJournal[r][Min(Todo(r))])
  /\ childJournal' = [childJournal EXCEPT ![r][Min(Todo(r))] = "running"] /\ Turns(r, "exec")
  /\ UNCHANGED <<ending, started, resultJson, resultZip, workerStatus, reruns>>

\* A step that an earlier run entered is unknown; setting the environment up,
\* checking kept outputs and the deadline may fail as well.
StopsBefore(r) ==
  /\ workerAt[r] = "steps"
  /\ Ends(r, "failed")
  /\ UNCHANGED <<childJournal, started, resultJson, resultZip, workerStatus, reruns>>

Starts(r) ==
  /\ workerAt[r] = "exec" /\ Turns(r, "run")
  /\ started' = [started EXCEPT ![r][Min(Todo(r))] = @ + 1]
  /\ UNCHANGED <<ending, childJournal, resultJson, resultZip, workerStatus, reruns>>

StepEnds(r) ==
  /\ workerAt[r] = "run"
  /\ \/ /\ childJournal' = [childJournal EXCEPT ![r][Min(Todo(r))] = "completed"]
        /\ Turns(r, "steps") /\ UNCHANGED ending
     \/ Ends(r, "failed") /\ UNCHANGED childJournal
     \/ r \in cancelFile /\ Ends(r, "cancelled") /\ UNCHANGED childJournal
  /\ UNCHANGED <<started, resultJson, resultZip, workerStatus, reruns>>

Finishes(r) ==
  /\ workerAt[r] = "steps" /\ Todo(r) = {} /\ Ends(r, "completed")
  /\ UNCHANGED <<childJournal, started, resultJson, resultZip, workerStatus, reruns>>

\* Timings make every manifest a new one.
SealsJson(r) ==
  /\ workerAt[r] = "json" /\ Turns(r, "zip")
  /\ resultJson' = [resultJson EXCEPT ![r] =
       [n |-> @.n + 1, status |-> ending[r], steps |-> StepsOf \ Todo(r)]]
  /\ UNCHANGED <<ending, childJournal, started, resultZip, workerStatus, reruns>>

SealsZip(r) ==
  /\ workerAt[r] = "zip" /\ Turns(r, "status")
  /\ resultZip' = [resultZip EXCEPT ![r] = resultJson[r]]
  /\ UNCHANGED <<ending, childJournal, started, resultJson, workerStatus, reruns>>

SealsStatus(r) ==
  /\ workerAt[r] = "status" /\ Turns(r, "off")
  /\ workerStatus' = [workerStatus EXCEPT ![r] = ending[r]]
  /\ UNCHANGED <<ending, childJournal, started, resultJson, resultZip, reruns>>

\* The bootstrap on SSH and Kaggle ends the worker on a cancellation, and
\* writes down what the worker did not.
Bootstraps(r) ==
  /\ Over("ssh") \/ Over("kaggle")
  /\ workerAt[r] # "off" /\ Turns(r, "off")
  /\ \/ workerAt[r] = "spawned" /\ workerStatus' = [workerStatus EXCEPT ![r] = "failed"]
     \/ r \in cancelFile /\ workerAt[r] # "status"
        /\ workerStatus' = [workerStatus EXCEPT ![r] = "cancelled"]
  /\ UNCHANGED <<ending, childJournal, started, resultJson, resultZip, reruns>>

----------------------------------------------------------------------------
(* Deaths and the deadline.                                                *)

Kill == laneDeaths < MaxLaneDeaths /\ laneDeaths' = laneDeaths + 1

DispatcherDies(r) ==
  /\ dispatcher[r] # "off" /\ Kill /\ Moves(r, "off")
  /\ fetched' = [fetched EXCEPT ![r] = NoResult]
  /\ UNCHANGED <<intent, kept, workVars>>

WorkerKilled(r) ==
  /\ workerAt[r] # "off" /\ Kill /\ Turns(r, "off")
  /\ \/ UNCHANGED workerStatus
     \/ /\ (Over("ssh") \/ Over("kaggle")) /\ workerStatus[r] \notin {"completed", "cancelled", "failed"}
        /\ workerStatus' = [workerStatus EXCEPT ![r] = "failed"]
  /\ UNCHANGED <<parentVars, ending, childJournal, started, resultJson, resultZip>>

Overdue(r) ==
  /\ Allows("late") /\ intent[r].is = "kept" /\ overdue' = overdue \cup {r}

SubmitStep(r) ==
  SubmitBundle(r) \/ WriteIntent(r) \/ PrepareLane(r) \/ AdapterSubmit(r) \/ ServerReceives(r)

UpdateStep(r) ==
  \/ Expire(r) \/ CancelDispatch(r) \/ AdapterCancel(r) \/ ReconcileDispatch(r)
  \/ StatusDispatch(r) \/ FetchDispatch(r) \/ ValidateResult(r) \/ SaveVerified(r)

WorkerMoves(r) ==
  \/ WorkerOpens(r) \/ ClaimsStep(r) \/ StopsBefore(r) \/ Starts(r) \/ StepEnds(r)
  \/ Finishes(r) \/ SealsJson(r) \/ SealsZip(r) \/ SealsStatus(r) \/ Bootstraps(r)

LaneNext ==
  /\ UNCHANGED lane
  /\ \E r \in lane.bundles :
       \/ SubmitStep(r) /\ UNCHANGED <<cancelFile, overdue, laneDeaths, reruns>>
       \/ UpdateStep(r) /\ UNCHANGED <<overdue, laneDeaths, reruns>>
       \/ WorkerMoves(r)
          /\ UNCHANGED <<parentVars, coming, claimed, cancelFile, overdue, laneDeaths>>
       \/ (DispatcherDies(r) \/ WorkerKilled(r))
          /\ UNCHANGED <<coming, claimed, cancelFile, overdue, reruns>>
       \/ Overdue(r)
          /\ UNCHANGED <<parentVars, coming, claimed, workVars, cancelFile, laneDeaths, reruns>>

LaneSpec == lane \in LaneKinds /\ LaneInit /\ [][LaneNext]_laneVars

----------------------------------------------------------------------------
(* Properties.                                                             *)

\* However replies get lost, uploads arrive late, commands and workers are
\* killed and the worker is run again by hand, no command of a request's recipe
\* is started twice, so that no render or model call is paid for twice
\* (dispatch.py "submit_bundle", reference.py "do_PUT", worker.py "run_worker").
ExecutedOnce == \A r \in Bundles, s \in StepsOf : started[r][s] <= 1

\* What the parent published is the worker's one sealed archive of a complete
\* run, and stays the one its ledger names, through repeated fetches, kills
\* between publication and ledger, and workers that are run again and seal anew
\* (dispatch.py "update_dispatch", "accepted_result", worker.py "run_worker").
AcceptedIsSealed ==
  \A r \in Bundles :
    /\ kept[r] # NoResult =>
         /\ kept[r] = resultZip[r] /\ kept[r].status = "completed"
         /\ \A s \in StepsOf : started[r][s] > 0
    /\ intent[r].accepted # 0 => intent[r].accepted = kept[r].n

\* Every command of an accepted run was started exactly once, and what is
\* accepted is what that one run sealed.
AcceptedRanOnce == ExecutedOnce /\ AcceptedIsSealed
=============================================================================
