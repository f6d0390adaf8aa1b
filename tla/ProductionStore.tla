-------------------------- MODULE ProductionStore --------------------------
(***************************************************************************)
(* The indexed production store (src/fsf/production/store.py): one SQLite  *)
(* database that holds the task rows of the authorized executions, their   *)
(* funded attempts and the money ledger.  Every public operation is one    *)
(* BEGIN IMMEDIATE transaction, so it is one action here; a transaction    *)
(* that raises rolls back, so a refused call is a disabled action.  The    *)
(* callers (the batch runner, and the cancel, pause, revoke and invalidate *)
(* commands, which are processes of their own) may issue any operation in  *)
(* any order.                                                              *)
(*                                                                         *)
(* A request identifier is a digest of the task and its epoch.  Here the   *)
(* k-th attempt of task t is the pair <<t, k>>, and request[t] is the      *)
(* number of the latest one (0 stands for NULL), hence also their count.   *)
(***************************************************************************)
EXTENDS Integers, FiniteSets, Sums

CONSTANTS
  Executions,       \* rows of table executions
  Tasks,            \* primary keys (execution, id) of table tasks
  ExecutionOf,      \* [Tasks -> Executions]
  Parents,          \* [Tasks -> SUBSET Tasks], table dependencies
  Shots,            \* keys (execution, shot) of table rounds
  ShotOf,           \* [Tasks -> Shots]
  SegmentOf,        \* the segment a task generates
  Routes,           \* routes of the authorization
  RouteOf,          \* [Tasks -> Routes]
  Worst,            \* [Tasks -> Nat], worst-case units of one attempt
  FramesOf,         \* [Tasks -> Nat], generated frames of one attempt
  Essential,        \* the tasks a plan marks as essential
  TotalUnits, CleanupUnits, MaxFrames,   \* limits of the authorization
  RouteLimit,       \* [Routes -> Nat]
  MaxRepairRounds,  \* authorization max_repair_rounds
  ForecastRule,     \* TRUE for a version 2 authorization
  MaxAttempts,      \* attempts of one task, 3 in the code
  MaxInvalidations, \* bound: invalidations of one task
  ForecastInputs,   \* bound: the forecasts a caller records
  Explored          \* bound: which of the optional steps a run explores

ASSUME PlanAssumption ==
  /\ IsFiniteSet(Tasks)
  /\ ExecutionOf \in [Tasks -> Executions]
  /\ Parents \in [Tasks -> SUBSET Tasks]
  /\ ShotOf \in [Tasks -> Shots]
  /\ RouteOf \in [Tasks -> Routes]
  /\ Worst \in [Tasks -> Nat]
  /\ FramesOf \in [Tasks -> Nat]
  /\ \A t \in Tasks : \A p \in Parents[t] : ExecutionOf[p] = ExecutionOf[t]
  /\ \A t, u \in Tasks : ShotOf[t] = ShotOf[u] => ExecutionOf[t] = ExecutionOf[u]

ASSUME AuthorizationAssumption ==
  /\ TotalUnits \in Nat
  /\ CleanupUnits \in Nat
  /\ MaxFrames \in Nat
  /\ RouteLimit \in [Routes -> Nat]
  /\ 10 * CleanupUnits >= TotalUnits
  /\ CleanupUnits <= TotalUnits
  /\ MaxRepairRounds \in 1..3
  /\ ForecastRule \in BOOLEAN
  /\ MaxAttempts \in 1..3
  /\ MaxInvalidations \in Nat
  /\ ForecastInputs \subseteq 0..TotalUnits

VARIABLES
  taskStatus,    \* tasks.status
  epoch,         \* tasks.epoch
  request,       \* tasks.request
  accepted,      \* tasks.accepted: the attempt whose report is accepted, or 0
  remaining,     \* tasks.remaining: the parents not accepted yet
  attempt,       \* table attempts with its inline charge and outbox columns
  round,         \* table rounds: the current repair round of a shot
  used, frames, costRevision,   \* the totals in table meta
  routeUsed,     \* table route_totals
  forecast,      \* authorization.forecast
  paused,        \* executions.paused
  revoked,       \* authorization.revoked
  lapsed,        \* the authorization's expiry time has passed
  held           \* submit-hold.json exists beside the database

rowVars == <<taskStatus, epoch, request, accepted, remaining>>
moneyVars == <<used, frames, costRevision, routeUsed>>
authorityVars == <<paused, revoked, lapsed, held>>
vars == <<rowVars, attempt, round, moneyVars, forecast, authorityVars>>

----------------------------------------------------------------------------
(* Values.                                                                 *)

Requests == Tasks \X (1..MaxAttempts)

Live == {"reserved", "submitted", "running", "unknown", "produced"}
Retryable == {"rejected", "failed", "cancelled"}
Final == Retryable \cup {"machine_accepted"}
Reports == {"running", "produced", "failed", "cancelled", "unknown"}

AttemptRecord ==
  [status: Live \cup Final \cup {"none"}, epoch: Nat, expired: BOOLEAN,
   invalidated: BOOLEAN, outbox: {"none", "prepared", "sending", "observed"},
   charge: {"none", "active", "unknown", "settled"}, billed: Nat, round: 0..3]

NoAttempt ==
  [status |-> "none", epoch |-> 0, expired |-> FALSE, invalidated |-> FALSE,
   outbox |-> "none", charge |-> "none", billed |-> 0, round |-> 0]

ForecastRecord ==
  [known: BOOLEAN, basis: Nat, remaining: Nat, affordable: BOOLEAN]

NoForecast ==
  [known |-> FALSE, basis |-> 0, remaining |-> 0, affordable |-> FALSE]

TypeOK ==
  /\ taskStatus \in [Tasks -> Live \cup Final \cup {"ready", "repair_wait"}]
  /\ epoch \in [Tasks -> Nat]
  /\ request \in [Tasks -> 0..MaxAttempts]
  /\ accepted \in [Tasks -> 0..MaxAttempts]
  /\ remaining \in [Tasks -> Nat]
  /\ attempt \in [Requests -> AttemptRecord]
  /\ round \in [Shots -> 1..MaxRepairRounds]
  /\ used \in Nat /\ frames \in Nat /\ costRevision \in Nat
  /\ routeUsed \in [Routes -> Nat]
  /\ forecast \in ForecastRecord
  /\ paused \in [Executions -> BOOLEAN]
  /\ revoked \in BOOLEAN /\ lapsed \in BOOLEAN /\ held \in BOOLEAN

Init ==
  /\ taskStatus = [t \in Tasks |-> "ready"]
  /\ epoch = [t \in Tasks |-> 0]
  /\ request = [t \in Tasks |-> 0]
  /\ accepted = [t \in Tasks |-> 0]
  /\ remaining = [t \in Tasks |-> Cardinality(Parents[t])]
  /\ attempt = [r \in Requests |-> NoAttempt]
  /\ round = [s \in Shots |-> 1]
  /\ used = 0 /\ frames = 0 /\ costRevision = 0
  /\ routeUsed = [rt \in Routes |-> 0]
  /\ forecast = NoForecast
  /\ paused = [e \in Executions |-> FALSE]
  /\ revoked = FALSE /\ lapsed = FALSE /\ held = FALSE

----------------------------------------------------------------------------
(* Helpers of several operations.                                          *)

Active(e) == ~paused[e] /\ ~revoked /\ ~lapsed /\ ~held

Latest(t) == attempt[<<t, request[t]>>]

\* The caller's request and epoch are still the current ones of the task.
Fence(r) == request[r[1]] = r[2] /\ attempt[r].epoch = epoch[r[1]]

Unaccepted(t) == {p \in Parents[t] : accepted[p] = 0}

\* An attempt of another task of t's shot holds the shot's current round.
SiblingLive(t) ==
  \E r \in Requests :
    /\ r[1] # t
    /\ FramesOf[r[1]] > 0
    /\ ShotOf[r[1]] = ShotOf[t]
    /\ attempt[r].round = round[ShotOf[t]]
    /\ attempt[r].status \in Live

\* A repeated generation in the shot's current round opens the next round.
OpensRound(t) ==
  /\ request[t] # 0
  /\ FramesOf[t] > 0
  /\ Latest(t).round = round[ShotOf[t]]

ClaimRound(t) ==
  IF OpensRound(t) THEN round[ShotOf[t]] + 1 ELSE round[ShotOf[t]]

\* The unique index generation_slot.
SlotFree(t) ==
  \A r \in Requests :
    ~ /\ FramesOf[t] > 0
      /\ FramesOf[r[1]] > 0
      /\ ShotOf[r[1]] = ShotOf[t]
      /\ SegmentOf[r[1]] = SegmentOf[t]
      /\ attempt[r].round = ClaimRound(t)

WithinBudgetNoRoute(t) ==
  /\ used + Worst[t] + CleanupUnits <= TotalUnits
  /\ frames + FramesOf[t] <= MaxFrames

WithinBudget(t) ==
  /\ used + Worst[t] + CleanupUnits <= TotalUnits
  /\ routeUsed[RouteOf[t]] + Worst[t] <= RouteLimit[RouteOf[t]]
  /\ frames + FramesOf[t] <= MaxFrames

\* From 80 per cent of the budget on, a version 2 authorization pays only for
\* essential work that a current forecast shows to be affordable.
NearLimit(t) == ForecastRule /\ (used + Worst[t]) * 100 >= TotalUnits * 80

ForecastCurrent(t) ==
  forecast.known /\ forecast.basis = costRevision /\ forecast.remaining >= Worst[t]

ForecastAdmits(t) ==
  NearLimit(t) => t \in Essential /\ ForecastCurrent(t) /\ forecast.affordable

\* The task may be tried at all: what claim checks before repair and money.
ClaimableUnreconciled(t) ==
  /\ Active(ExecutionOf[t])
  /\ accepted[t] = 0 /\ remaining[t] = 0
  /\ request[t] < MaxAttempts

ClaimableEarly(t) ==
  /\ Active(ExecutionOf[t])
  /\ accepted[t] = 0
  /\ request[t] # 0 => Latest(t).status \in Retryable \/ Latest(t).invalidated
  /\ request[t] < MaxAttempts

Claimable(t) ==
  /\ Active(ExecutionOf[t])
  /\ accepted[t] = 0 /\ remaining[t] = 0
  /\ request[t] # 0 => Latest(t).status \in Retryable \/ Latest(t).invalidated
  /\ request[t] < MaxAttempts

RepairAdmitsUnbounded(t) == OpensRound(t) => ~SiblingLive(t)

RepairAdmitsBesideLive(t) == OpensRound(t) => round[ShotOf[t]] < MaxRepairRounds

RepairAdmits(t) ==
  OpensRound(t) => ~SiblingLive(t) /\ round[ShotOf[t]] < MaxRepairRounds

Positive(n) == IF n > 0 THEN n ELSE 0

Affordable(spent, rest) == spent + rest + CleanupUnits <= TotalUnits

\* A claim or a bill moves the costs: a recorded forecast follows them.
ReforecastStale(delta, rest) ==
  IF forecast.known
  THEN [known |-> TRUE, basis |-> costRevision + 1, remaining |-> rest,
        affordable |-> forecast.affordable]
  ELSE forecast

Reforecast(delta, rest) ==
  IF forecast.known
  THEN [known |-> TRUE, basis |-> costRevision + 1, remaining |-> rest,
        affordable |-> Affordable(used + delta, rest)]
  ELSE forecast

\* remaining_forecast: attempts of t that may still be claimed.
FutureAttemptsNoPrior(t) ==
  IF FramesOf[t] > 0 THEN MaxRepairRounds - round[ShotOf[t]] + 1 ELSE MaxAttempts - request[t]

FutureAttempts(t) ==
  IF FramesOf[t] > 0
  THEN MaxRepairRounds - round[ShotOf[t]]
         + (IF request[t] # 0 /\ Latest(t).round = round[ShotOf[t]] THEN 0 ELSE 1)
  ELSE MaxAttempts - request[t]

RemainingForecast ==
  SumOver([t \in Tasks |-> Positive(FutureAttempts(t)) * Worst[t]],
          {t \in Tasks : accepted[t] = 0})

\* invalidate walks the dependents of the changed tasks to the end: the least
\* set that contains them and is closed under dependency.
Dependents(S) == {t \in Tasks : Parents[t] \cap S # {}}

AffectedDirectly ==
  [changed \in SUBSET Tasks |-> changed \cup Dependents(changed)]

Affected ==
  [changed \in SUBSET Tasks |->
    {t \in Tasks : \A S \in SUBSET Tasks :
                      changed \subseteq S /\ Dependents(S) \subseteq S => t \in S}]

----------------------------------------------------------------------------
(* The claim of a task: admission, intent and money in one transaction.    *)

Admitted(t) ==
  /\ Claimable(t) /\ RepairAdmits(t) /\ SlotFree(t)
  /\ WithinBudget(t) /\ ForecastAdmits(t)

Claim(t) ==
  LET r == <<t, request[t] + 1>> IN
  /\ Admitted(t)
  /\ taskStatus' = [taskStatus EXCEPT ![t] = "reserved"]
  /\ epoch' = [epoch EXCEPT ![t] = @ + 1]
  /\ request' = [request EXCEPT ![t] = @ + 1]
  /\ attempt' = [attempt EXCEPT ![r] =
       [NoAttempt EXCEPT !.status = "reserved", !.epoch = epoch[t] + 1,
                         !.outbox = "prepared", !.charge = "active",
                         !.round = IF FramesOf[t] > 0 THEN ClaimRound(t) ELSE 0]]
  /\ round' = [round EXCEPT ![ShotOf[t]] = ClaimRound(t)]
  /\ used' = used + Worst[t]
  /\ frames' = frames + FramesOf[t]
  /\ routeUsed' = [routeUsed EXCEPT ![RouteOf[t]] = @ + Worst[t]]
  /\ costRevision' = costRevision + 1
  /\ forecast' = Reforecast(Worst[t], Positive(forecast.remaining - Worst[t]))
  /\ UNCHANGED <<accepted, remaining, authorityVars>>

(* The outbox: at most one sender passes from prepared to sending.         *)

UnsentOrLost(r) == attempt[r].outbox \in {"prepared", "sending"}

Unsent(r) == attempt[r].outbox = "prepared"

MarkSending(r) ==
  /\ Fence(r)
  /\ Active(ExecutionOf[r[1]])
  /\ ~attempt[r].expired
  /\ Unsent(r)
  /\ attempt' = [attempt EXCEPT ![r].outbox = "sending", ![r].status = "submitted"]
  /\ taskStatus' = [taskStatus EXCEPT ![r[1]] = "submitted"]
  /\ UNCHANGED <<epoch, request, accepted, remaining, round, moneyVars, forecast,
                 authorityVars>>

RenewPrepared(r) ==
  /\ Fence(r)
  /\ Active(ExecutionOf[r[1]])
  /\ Unsent(r)
  /\ attempt' = [attempt EXCEPT ![r].expired = FALSE]
  /\ UNCHANGED <<rowVars, round, moneyVars, forecast, authorityVars>>

\* A provider report.  A final attempt refuses every other report.
Reportable(r, s) == attempt[r].status \in Live \ {s}

Observe(r, s) ==
  /\ Fence(r)
  /\ Reportable(r, s)
  /\ attempt' = [attempt EXCEPT ![r].status = s,
                                ![r].outbox = IF s = "unknown" THEN @ ELSE "observed"]
  /\ taskStatus' = [taskStatus EXCEPT ![r[1]] = s]
  /\ UNCHANGED <<epoch, request, accepted, remaining, round, moneyVars, forecast,
                 authorityVars>>

(* Money: a bill may come for every funded attempt, current or not.        *)

BillableAgain(r) == attempt[r].charge # "none"

Billable(r) == attempt[r].charge \in {"active", "unknown"}

SettleUnknown(r) ==
  /\ attempt[r].charge = "active"
  /\ attempt' = [attempt EXCEPT ![r].charge = "unknown"]
  /\ UNCHANGED <<rowVars, round, moneyVars, forecast, authorityVars>>

Settle(r, units) ==
  LET rt == RouteOf[r[1]]
      delta == units - Worst[r[1]]
  IN
  /\ Billable(r)
  /\ units \in 0..Worst[r[1]]
  /\ used + delta >= 0 /\ routeUsed[rt] + delta >= 0
  /\ attempt' = [attempt EXCEPT ![r].charge = "settled", ![r].billed = units]
  /\ used' = used + delta
  /\ routeUsed' = [routeUsed EXCEPT ![rt] = @ + delta]
  /\ costRevision' = costRevision + 1
  /\ forecast' = Reforecast(delta, forecast.remaining)
  /\ UNCHANGED <<rowVars, frames, round, authorityVars>>

\* remaining_forecast refuses a bound the authorization could never pay.
RecordForecast(units) ==
  /\ forecast' = [known |-> TRUE, basis |-> costRevision, remaining |-> units,
                  affordable |-> Affordable(used, units)]
  /\ UNCHANGED <<rowVars, attempt, round, moneyVars, authorityVars>>

(* The verdict on a produced attempt.                                      *)

ParkedWith(t) == {u \in Tasks : ShotOf[u] = ShotOf[t] /\ taskStatus[u] = "repair_wait"}

\* Acceptance releases the tasks of the shot that wait for a repair round.
Accept(r) ==
  LET t == r[1] IN
  /\ Fence(r)
  /\ attempt[r].status = "produced"
  /\ \A u \in Dependents({t}) : remaining[u] > 0
  /\ attempt' = [attempt EXCEPT ![r].status = "machine_accepted"]
  /\ accepted' = [accepted EXCEPT ![t] = r[2]]
  /\ remaining' = [u \in Tasks |-> IF t \in Parents[u] THEN remaining[u] - 1
                                                     ELSE remaining[u]]
  /\ taskStatus' = [u \in Tasks |-> IF u = t THEN "machine_accepted"
                                    ELSE IF u \in ParkedWith(t) THEN "rejected"
                                    ELSE taskStatus[u]]
  /\ UNCHANGED <<epoch, request, round, moneyVars, forecast, authorityVars>>

Reject(r) ==
  /\ Fence(r)
  /\ attempt[r].status = "produced"
  /\ attempt' = [attempt EXCEPT ![r].status = "rejected"]
  /\ taskStatus' = [taskStatus EXCEPT ![r[1]] = "rejected"]
  /\ UNCHANGED <<epoch, request, accepted, remaining, round, moneyVars, forecast,
                 authorityVars>>

(* The batch runner parks a refused repair and releases it with the next   *)
(* batch; both are one UPDATE of the task rows in a transaction.           *)

ParkForRepair(t) ==
  /\ taskStatus[t] \in Retryable \cup {"ready"}
  /\ taskStatus' = [taskStatus EXCEPT ![t] = "repair_wait"]
  /\ UNCHANGED <<epoch, request, accepted, remaining, attempt, round, moneyVars,
                 forecast, authorityVars>>

ReleaseParked(e) ==
  /\ taskStatus' = [t \in Tasks |->
                      IF ExecutionOf[t] = e /\ taskStatus[t] = "repair_wait"
                      THEN "rejected" ELSE taskStatus[t]]
  /\ UNCHANGED <<epoch, request, accepted, remaining, attempt, round, moneyVars,
                 forecast, authorityVars>>

ReconciledAlways(S) == TRUE

Reconciled(S) == \A t \in S : request[t] # 0 => Latest(t).status \in Final

\* Changed inputs: the tasks and all that depends on them start afresh.  The
\* old requests stay in the rows, and with them their repair rounds and fees.
Invalidate(changed) ==
  LET hit == Affected[changed] IN
  /\ Reconciled(hit)
  /\ \A t \in hit : epoch[t] - request[t] < MaxInvalidations
  /\ attempt' = [r \in Requests |->
                   IF r[1] \in hit /\ request[r[1]] = r[2]
                   THEN [attempt[r] EXCEPT !.invalidated = TRUE] ELSE attempt[r]]
  /\ accepted' = [t \in Tasks |-> IF t \in hit THEN 0 ELSE accepted[t]]
  /\ taskStatus' = [t \in Tasks |-> IF t \in hit THEN "ready" ELSE taskStatus[t]]
  /\ epoch' = [t \in Tasks |-> IF t \in hit THEN epoch[t] + 1 ELSE epoch[t]]
  /\ remaining' = [t \in Tasks |->
                     IF t \in hit THEN Cardinality({p \in Parents[t] : accepted'[p] = 0})
                     ELSE remaining[t]]
  /\ forecast' = NoForecast
  /\ UNCHANGED <<request, round, moneyVars, authorityVars>>

(* The operator's switches and the passing of time.                        *)

Pause(e, on) ==
  /\ paused' = [paused EXCEPT ![e] = on]
  /\ UNCHANGED <<rowVars, attempt, round, moneyVars, forecast, revoked, lapsed, held>>

Revoke ==
  /\ revoked' = TRUE
  /\ UNCHANGED <<rowVars, attempt, round, moneyVars, forecast, paused, lapsed, held>>

Hold(on) ==
  /\ held' = on
  /\ UNCHANGED <<rowVars, attempt, round, moneyVars, forecast, paused, revoked, lapsed>>

AuthorizationLapses ==
  /\ ForecastRule
  /\ lapsed' = TRUE
  /\ UNCHANGED <<rowVars, attempt, round, moneyVars, forecast, paused, revoked, held>>

\* Only an unsent intent is asked for its lease.
LeaseExpires(r) ==
  /\ Unsent(r)
  /\ attempt' = [attempt EXCEPT ![r].expired = TRUE]
  /\ UNCHANGED <<rowVars, round, moneyVars, forecast, authorityVars>>

----------------------------------------------------------------------------
(* The specification.                                                      *)

RequestNext(r) ==
  \/ MarkSending(r)
  \/ \E s \in Reports : Observe(r, s)
  \/ Accept(r)
  \/ Reject(r)
  \/ "lease" \in Explored /\ (LeaseExpires(r) \/ RenewPrepared(r))
  \/ "bill" \in Explored /\ SettleUnknown(r)
  \/ "bill" \in Explored /\ \E units \in 0..Worst[r[1]] : Settle(r, units)

OperatorNext ==
  \/ "pause" \in Explored /\ \E e \in Executions, on \in BOOLEAN : Pause(e, on)
  \/ "hold" \in Explored /\ \E on \in BOOLEAN : Hold(on)
  \/ "revoke" \in Explored /\ Revoke
  \/ "lapse" \in Explored /\ AuthorizationLapses

Next ==
  \/ \E t \in Tasks : Claim(t)
  \/ \E r \in Requests : request[r[1]] >= r[2] /\ RequestNext(r)
  \/ \E units \in ForecastInputs : RecordForecast(units)
  \/ \E t \in Tasks : ParkForRepair(t)
  \/ \E e \in Executions : ReleaseParked(e)
  \/ \E e \in Executions : \E changed \in SUBSET {t \in Tasks : ExecutionOf[t] = e} :
       Invalidate(changed)
  \/ OperatorNext

Spec == Init /\ [][Next]_vars

----------------------------------------------------------------------------
(* Properties.                                                             *)

Cost ==
  [r \in Requests |-> IF attempt[r].charge = "settled" THEN attempt[r].billed ELSE Worst[r[1]]]

FramesOfRequest == [r \in Requests |-> FramesOf[r[1]]]

Funded == {r \in Requests : attempt[r].charge # "none"}

\* The running totals are the sums over the funded attempts: a bill counts as
\* billed, an attempt without one at its worst case (store.check).
LedgerBalanced ==
  /\ used = SumOver(Cost, Funded)
  /\ frames = SumOver(FramesOfRequest, Funded)
  /\ \A rt \in Routes :
       routeUsed[rt] = SumOver(Cost, {r \in Funded : RouteOf[r[1]] = rt})

\* Whatever is claimed, retried, billed late or invalidated, the cleanup
\* reserve stays untouched and no route or frame limit is exceeded.
WithinAuthorization ==
  /\ used + CleanupUnits <= TotalUnits
  /\ frames <= MaxFrames
  /\ \A rt \in Routes : routeUsed[rt] <= RouteLimit[rt]

\* tasks.remaining, kept by increments in accept and by recounting in
\* invalidate, is the number of unaccepted parents (store.check).
RemainingCounts ==
  \A t \in Tasks : remaining[t] = Cardinality(Unaccepted(t))

\* Work that is under way or accepted rests on accepted inputs only, also
\* after an invalidation upstream of it.
InputsAccepted ==
  \A t \in Tasks :
    (accepted[t] # 0 \/ (request[t] # 0 /\ Latest(t).status \in Live))
      => \A p \in Parents[t] : accepted[p] # 0

\* The inputs of the work are in step with the graph: the counter of open
\* parents is exact, and nothing runs or stays accepted on open inputs.
InputsInStep == RemainingCounts /\ InputsAccepted

\* The report a row relies on is that of the row's current request, it was
\* not invalidated, and nothing reported later has replaced its verdict.
AcceptedIsCurrent ==
  \A t \in Tasks : accepted[t] # 0 =>
    /\ accepted[t] = request[t]
    /\ Latest(t).status = "machine_accepted" /\ ~Latest(t).invalidated
    /\ Latest(t).epoch = epoch[t]
    /\ taskStatus[t] = "machine_accepted"

\* No work is lost: an attempt whose outcome is open is the current request
\* of its task and shows in the row that the batch scans, so it can still be
\* observed; a task therefore has at most one such attempt.
LiveIsReachable ==
  \A r \in Requests : attempt[r].status \in Live =>
    Fence(r) /\ taskStatus[r[1]] = attempt[r].status

\* The rows follow the requests: nothing reported late, retried or withdrawn
\* parts an accepted row from its request or hides an open attempt.
RowsFollowRequests == AcceptedIsCurrent /\ LiveIsReachable

\* A repair round opens only when the shot has no open generation: every open
\* generation belongs to the shot's current round.
LiveInCurrentRound ==
  \A r \in Requests :
    attempt[r].status \in Live /\ FramesOf[r[1]] > 0 => attempt[r].round = round[ShotOf[r[1]]]

\* A recorded forecast is never stale: claims and bills keep its basis and
\* its verdict in step with the costs.
ForecastInStep ==
  forecast.known =>
    /\ forecast.basis = costRevision
    /\ forecast.affordable = Affordable(used, forecast.remaining)

\* The money is spent inside the authorization and on a current forecast.
Solvent == WithinAuthorization /\ ForecastInStep

\* The store implements the abstract budget: its incremental totals never
\* admit a claim that the exact sum of the commitments would refuse, and no
\* cancellation, failure or invalidation frees money.
Budget ==
  INSTANCE BudgetAuthority WITH
    Charges <- Requests,
    ChargeRoute <- [r \in Requests |-> RouteOf[r[1]]],
    ChargeWorst <- [r \in Requests |-> Worst[r[1]]],
    ChargeFrames <- FramesOfRequest,
    Total <- TotalUnits, Reserve <- CleanupUnits, RouteCap <- RouteLimit,
    FrameCap <- MaxFrames,
    state <- [r \in Requests |->
               CASE attempt[r].charge = "none" -> "open"
                 [] attempt[r].charge = "settled" -> "billed"
                 [] OTHER -> "reserved"],
    bill <- [r \in Requests |-> attempt[r].billed]

ImplementsBudget == Budget!Spec

\* The store implements the abstract order of work: the counter of open
\* parents starts no task early, and an invalidation withdraws all that
\* depends on the change, none of it under way.
Phase(t) ==
  CASE accepted[t] # 0 -> "done"
    [] accepted[t] = 0 /\ request[t] # 0 /\ Latest(t).status \in Live -> "open"
    [] OTHER -> "idle"

Order == INSTANCE DependencyOrder WITH phase <- [t \in Tasks |-> Phase(t)]

ImplementsOrder == Order!Spec
=============================================================================
