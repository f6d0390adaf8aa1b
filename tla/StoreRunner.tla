---------------------------- MODULE StoreRunner ----------------------------
(***************************************************************************)
(* The processes around the production store: the batch runner             *)
(* (run_store_batch), a cancel command (cancel_store_request), the         *)
(* operator's commands and the provider that does the work.                *)
(*                                                                         *)
(* Every process has its own connection to the store.  A step below is one *)
(* transaction, one read outside a transaction, or one call to the         *)
(* provider; between two steps any other process may run, and a process    *)
(* may die.  The lock .parent-run admits one batch at a time; no other     *)
(* command takes it.                                                       *)
(***************************************************************************)
EXTENDS AcceptanceGate

CONSTANTS
  Execution,      \* the execution of the batch's plan
  Ordinal,        \* [Tasks -> Nat], tasks.ordinal
  Receipt,        \* [Tasks -> Nat], the units on the provider's bill
  MaxStops,       \* bound: batches that die or run out of time
  Disturbances    \* bound: which of the optional steps a run explores

ASSUME RunnerAssumption ==
  /\ Execution \in Executions
  /\ \E t \in Tasks : ExecutionOf[t] = Execution
  /\ Ordinal \in [Tasks -> Nat]
  /\ \A t, u \in Tasks : Ordinal[t] = Ordinal[u] => t = u
  /\ Receipt \in [Tasks -> Nat]
  /\ \A t \in Tasks : Receipt[t] <= Worst[t]
  /\ MaxStops \in Nat
  /\ 0..TotalUnits \subseteq ForecastInputs
  /\ {"bill", "lease", "pause", "hold", "revoke", "lapse"} \subseteq Explored

VARIABLES
  pc,            \* where the batch is; "off" when none runs
  cur,           \* the task and the attempt number it works on
  got,           \* the provider's answer it has read
  bound,         \* the forecast it has computed and not recorded yet
  offer,          \* content of the artifact it has verified, and the verdict on it
  position,      \* active_position
  captured,      \* executions.revision has not moved since the batch read it
  stops,         \* batches that died or ran out of time
  cancelPc, cancelReq, cancelGot,   \* a cancel command, its request and its answer
  cancelState,   \* outbox.cancel_state of every request
  sweep,         \* the latest row of verification_runs
  seen,          \* its verification_items: the request observed, or 0
  job,           \* the provider's job of every request
  sends          \* how often the provider received the request

batchVars == <<pc, cur, got, bound, offer, position, stops>>
cancelVars == <<cancelPc, cancelReq, cancelGot>>
sweepVars == <<captured, sweep, seen>>
providerVars == <<job, sends>>
runnerVars == <<vars, gateVars, batchVars, cancelVars, cancelState, sweepVars, providerVars>>

----------------------------------------------------------------------------
(* Values.                                                                 *)

Plan == {t \in Tasks : ExecutionOf[t] = Execution}

BatchPcs == {"off", "scan", "claim", "park", "forecast", "record", "reclaim", "send",
             "submit", "lost", "lostBill", "observe", "report", "bill", "verify",
             "assess", "evaluate", "judged", "publish", "accept",
             "tally", "capture", "open", "sweep"}
CancelPcs == {"off", "intent", "contact", "record", "report", "bill"}
JobStates == {"none", "running", "produced", "failed", "cancelled"}

NoSweep == [phase |-> "none", position |-> 0, fresh |-> FALSE]

Nowhere == <<CHOOSE t \in Plan : TRUE, 0>>
Nothing == [content |-> 0, verdict |-> "none"]

RunnerTypeOK ==
  /\ TypeOK /\ GateTypeOK
  /\ pc \in BatchPcs
  /\ cur \in Tasks \X (0..MaxAttempts)
  /\ got \in Reports
  /\ offer \in [content: 0..MaxReplacements, verdict: Verdicts \cup {"none"}]
  /\ bound \in Nat /\ position \in Int /\ stops \in 0..MaxStops
  /\ captured \in BOOLEAN
  /\ cancelPc \in CancelPcs /\ cancelReq \in Requests
  /\ cancelGot \in {"cancelled", "unconfirmed"}
  /\ cancelState \in [Requests -> {"none", "requested", "cancelled", "unconfirmed"}]
  /\ sweep \in [phase: {"none", "verify", "complete"}, position: Nat, fresh: BOOLEAN]
  /\ seen \in [Tasks -> 0..MaxAttempts]
  /\ job \in [Requests -> JobStates]
  /\ sends \in [Requests -> Nat]

RunnerInit ==
  /\ Init /\ GateInit /\ offer = Nothing
  /\ pc = "off" /\ got = "unknown" /\ bound = 0 /\ position = -1 /\ stops = 0
  /\ cur = Nowhere
  /\ captured = FALSE
  /\ cancelPc = "off" /\ cancelGot = "unconfirmed"
  /\ cancelReq = CHOOSE r \in Requests : TRUE
  /\ cancelState = [r \in Requests |-> "none"]
  /\ sweep = NoSweep
  /\ seen = [t \in Tasks |-> 0]
  /\ job = [r \in Requests |-> "none"]
  /\ sends = [r \in Requests |-> 0]

----------------------------------------------------------------------------
(* Shared pieces.                                                          *)

First(S) == CHOOSE t \in S : \A u \in S : Ordinal[t] <= Ordinal[u]

\* next_ready, and the scan for the rows that are under way.
ReadyRows == {t \in Plan : taskStatus[t] \in {"ready"} \cup Retryable /\ remaining[t] = 0}
ActiveRows == {t \in Plan : taskStatus[t] \in Live /\ Ordinal[t] > position}

TouchSweepOnly ==
  /\ UNCHANGED <<captured, seen>>
  /\ sweep' = [sweep EXCEPT !.fresh = FALSE]

\* An event of the execution moves its revision and voids an open sweep.
Touch ==
  /\ captured' = FALSE
  /\ sweep' = [sweep EXCEPT !.fresh = FALSE,
                            !.phase = IF @ = "verify" THEN "none" ELSE @]
  /\ UNCHANGED seen

Calm == UNCHANGED sweepVars

Elsewhere == UNCHANGED <<cancelVars, cancelState, providerVars>>
Others == Elsewhere /\ UNCHANGED gateVars

Goes(p) == pc' = p /\ UNCHANGED <<cur, got, bound, offer, position, stops>>

EndsHere == pc' = "off" /\ cur' = Nowhere /\ got' = "unknown" /\ bound' = 0 /\ offer' = Nothing /\ position' = position

Ends == pc' = "off" /\ cur' = Nowhere /\ got' = "unknown" /\ bound' = 0 /\ offer' = Nothing /\ position' = -1

BackToScan ==
  /\ pc' = "scan" /\ cur' = Nowhere /\ got' = "unknown" /\ offer' = Nothing
  /\ UNCHANGED <<bound, position, stops>>

\* store.observe as its callers see it: recorded, known already, or refused.
ReportCall(r, s) ==
  \/ Observe(r, s) /\ Touch
  \/ Fence(r) /\ attempt[r].status = s /\ UNCHANGED vars /\ Calm

ReportRefused(r, s) ==
  /\ ~Fence(r) \/ attempt[r].status \in Final \ {s}
  /\ UNCHANGED vars /\ Calm

\* store.settle without and with a receipt.
LeaveUnknown(r) ==
  \/ SettleUnknown(r)
  \/ attempt[r].charge # "active" /\ UNCHANGED vars

BillCall(r) ==
  \/ Settle(r, Receipt[r[1]])
  \/ attempt[r].charge = "settled" /\ UNCHANGED vars

----------------------------------------------------------------------------
(* The batch: run_store_batch.                                             *)

BatchStarts ==
  /\ pc = "off"
  /\ ReleaseParked(Execution)
  /\ Goes("scan") /\ Calm /\ Others

Intended(r) == intent[r] # {} /\ attempt[r].status = "produced"

\* The next row is read here; what is done with it is decided later.
Scan ==
  /\ pc = "scan"
  /\ \/ paused[Execution] /\ Ends /\ UNCHANGED stops
     \/ /\ ~paused[Execution] /\ ReadyRows # {}
        /\ pc' = "claim" /\ cur' = <<First(ReadyRows), 0>>
        /\ UNCHANGED <<got, bound, offer, position, stops>>
     \/ /\ ~paused[Execution] /\ ReadyRows = {} /\ ActiveRows # {}
        /\ cur' = <<First(ActiveRows), request[First(ActiveRows)]>>
        /\ pc' = IF Intended(cur') THEN "publish" ELSE "send"
        /\ position' = Ordinal[First(ActiveRows)]
        /\ UNCHANGED <<got, bound, offer, stops>>
     \/ /\ ~paused[Execution] /\ ReadyRows = {} /\ ActiveRows = {}
        /\ Goes("tally")
  /\ UNCHANGED vars /\ Calm /\ Others

WaitsForRepair(t) == Claimable(t) /\ OpensRound(t) /\ SiblingLive(t)

NeedsForecast(t) ==
  /\ Claimable(t) /\ RepairAdmits(t) /\ WithinBudget(t)
  /\ NearLimit(t) /\ t \in Essential /\ ~ForecastCurrent(t)

BatchClaims ==
  /\ pc \in {"claim", "reclaim"}
  /\ Claim(cur[1])
  /\ pc' = "send" /\ cur' = <<cur[1], request'[cur[1]]>>
  /\ UNCHANGED <<got, bound, offer, position, stops>>
  /\ Touch /\ Others

\* Only the first claim of a row may wait for a repair or for a forecast;
\* every other refusal ends the batch.
ClaimRefused ==
  /\ pc \in {"claim", "reclaim"}
  /\ ~Admitted(cur[1])
  /\ \/ pc = "claim" /\ WaitsForRepair(cur[1]) /\ Goes("park")
     \/ pc = "claim" /\ NeedsForecast(cur[1]) /\ Goes("forecast")
     \/ /\ pc = "claim" => ~WaitsForRepair(cur[1]) /\ ~NeedsForecast(cur[1])
        /\ Ends /\ UNCHANGED stops
  /\ UNCHANGED vars /\ Calm /\ Others

ParkShot ==
  /\ pc = "park"
  /\ taskStatus' = [t \in Tasks |->
                      IF ShotOf[t] = ShotOf[cur[1]] THEN "repair_wait" ELSE taskStatus[t]]
  /\ UNCHANGED <<epoch, request, accepted, remaining, attempt, round, moneyVars,
                 forecast, authorityVars>>
  /\ Goes("scan") /\ Calm /\ Others

\* The UPDATE names the row and asks nothing of its status.
Park ==
  /\ pc = "park"
  /\ taskStatus' = [taskStatus EXCEPT ![cur[1]] = "repair_wait"]
  /\ UNCHANGED <<epoch, request, accepted, remaining, attempt, round, moneyVars,
                 forecast, authorityVars>>
  /\ Goes("scan") /\ Calm /\ Others

\* remaining_forecast reads outside any transaction.
ComputeForecast ==
  /\ pc = "forecast"
  /\ \/ RemainingForecast > TotalUnits /\ Ends /\ UNCHANGED stops
     \/ /\ RemainingForecast <= TotalUnits
        /\ pc' = "record" /\ bound' = RemainingForecast
        /\ UNCHANGED <<cur, got, offer, position, stops>>
  /\ UNCHANGED vars /\ Calm /\ Others

RecordBound ==
  /\ pc = "record"
  /\ RecordForecast(bound)
  /\ pc' = "reclaim" /\ bound' = 0 /\ UNCHANGED <<cur, got, offer, position, stops>>
  /\ Calm /\ Others

Send ==
  /\ pc = "send"
  /\ \/ /\ ~Unsent(cur)
        /\ UNCHANGED vars /\ Goes("observe") /\ Calm
     \/ /\ Unsent(cur) /\ ~(Fence(cur) /\ Active(Execution))
        /\ UNCHANGED <<vars, stops>> /\ Ends /\ Calm
     \/ attempt[cur].expired /\ RenewPrepared(cur) /\ Goes("send") /\ Calm
     \/ MarkSending(cur) /\ Goes("submit") /\ Touch
  /\ Others

\* The call may fail before or after the provider has the request.
Submit ==
  /\ pc = "submit"
  /\ \/ /\ sends' = [sends EXCEPT ![cur] = @ + 1]
        /\ job' = [job EXCEPT ![cur] = "running"]
        /\ Goes("observe") \/ Goes("lost")
     \/ UNCHANGED providerVars /\ Goes("lost")
  /\ UNCHANGED <<vars, gateVars, cancelVars, cancelState>> /\ Calm

Lost ==
  /\ pc = "lost"
  /\ \/ ReportCall(cur, "unknown") /\ Goes("lostBill")
     \/ ReportRefused(cur, "unknown") /\ Ends /\ UNCHANGED stops
  /\ Others

LostBill ==
  /\ pc = "lostBill"
  /\ LeaveUnknown(cur) /\ Ends /\ UNCHANGED stops
  /\ Calm /\ Others

\* The driver knows only requests the provider has received.
Answers(r) ==
  (IF job[r] = "none" THEN {"unknown"} ELSE {job[r]})
    \cup (IF "silent" \in Disturbances THEN {"unknown"} ELSE {})

ObserveProvider ==
  /\ pc = "observe"
  /\ got' \in Answers(cur)
  /\ pc' = "report" /\ UNCHANGED <<cur, bound, offer, position, stops>>
  /\ UNCHANGED vars /\ Calm /\ Others

Report ==
  /\ pc = "report"
  /\ \/ ReportCall(cur, got) /\ Goes("bill")
     \/ ReportRefused(cur, got) /\ Ends /\ UNCHANGED stops
  /\ Others

\* A receipt comes only with a finished job, and it may come later.
Bill ==
  /\ pc = "bill"
  /\ LeaveUnknown(cur) \/ (got \in {"produced", "failed", "cancelled"} /\ BillCall(cur))
  /\ \/ got = "unknown" /\ Ends /\ UNCHANGED stops
     \/ got = "produced" /\ Goes("verify")
     \/ got \notin {"unknown", "produced"} /\ BackToScan
  /\ Calm /\ Others

\* The technical verdict; under a gate an acceptance is only the first half.
Verify ==
  /\ pc = "verify"
  /\ \/ /\ (~Gated /\ Accept(cur)) \/ Reject(cur)
        /\ BackToScan /\ Touch
     \/ /\ Gated /\ pc' = "assess" /\ offer' = [content |-> file[cur], verdict |-> "none"]
        /\ UNCHANGED <<vars, cur, got, bound, position, stops>> /\ Calm
     \/ /\ ~(Fence(cur) /\ attempt[cur].status = "produced") \/ "silent" \in Disturbances
        /\ Ends /\ UNCHANGED <<vars, stops>> /\ Calm
  /\ Others

----------------------------------------------------------------------------
(* The quality gate and the publication behind it.                         *)

Holds(p, verdict) ==
  pc' = p /\ offer' = [offer EXCEPT !.verdict = verdict] /\ UNCHANGED <<cur, got, bound, position, stops>>

\* A conclusive result is taken as it is; an exhausted one ends the batch.
Assess ==
  /\ pc = "assess"
  /\ \/ StartEvaluation(cur, offer.content) /\ Goes("evaluate")
     \/ /\ file[cur] = offer.content /\ Comparable(cur, offer.content) /\ Conclusive(cur)
        /\ Holds("judged", quality[cur].verdict) /\ UNCHANGED gateVars
     \/ /\ \/ file[cur] # offer.content \/ ~Comparable(cur, offer.content)
           \/ ~Conclusive(cur) /\ ~Evaluable(cur)
        /\ Ends /\ UNCHANGED <<stops, gateVars>>
  /\ UNCHANGED vars /\ Calm /\ Elsewhere

\* The evaluator sees the artifact; one that changed meanwhile is no evidence,
\* and nothing else happens before the result is recorded.
Evaluate ==
  /\ pc = "evaluate"
  /\ \/ \E verdict \in Verdicts :
          /\ file[cur] = offer.content /\ RecordResult(cur, offer.content, verdict)
          /\ IF verdict = "unknown" THEN Ends /\ UNCHANGED stops ELSE Holds("judged", verdict)
     \/ /\ file[cur] # offer.content \/ ~Fence(cur)
        /\ Ends /\ UNCHANGED <<stops, gateVars>>
  /\ UNCHANGED vars /\ Calm /\ Elsewhere

\* A rejection is recorded at once, an acceptance is intended first.
Decide ==
  /\ pc = "judged"
  /\ \/ /\ offer.verdict = "reject" /\ file[cur] = offer.content
        /\ Reject(cur) /\ BackToScan /\ Touch /\ UNCHANGED gateVars
     \/ /\ offer.verdict = "accept" /\ RecordIntent(cur, offer.content)
        /\ Goes("publish") /\ UNCHANGED vars /\ Calm
     \/ /\ \/ ~(Fence(cur) /\ attempt[cur].status = "produced")
           \/ offer.verdict = "reject" /\ file[cur] # offer.content
        /\ Ends /\ UNCHANGED <<vars, stops, gateVars>> /\ Calm
  /\ Elsewhere

PublishArtifact ==
  /\ pc = "publish"
  /\ \/ Publish(cur) /\ Goes("accept")
     \/ published[cur] = {} /\ file[cur] \notin intent[cur] /\ Ends /\ UNCHANGED <<stops, gateVars>>
  /\ UNCHANGED vars /\ Calm /\ Elsewhere

AcceptPublished ==
  /\ pc = "accept"
  /\ \/ Acceptable(cur) /\ Accept(cur) /\ BackToScan /\ Touch
     \/ /\ ~(Acceptable(cur) /\ Fence(cur) /\ attempt[cur].status = "produced")
        /\ Ends /\ UNCHANGED <<vars, stops>> /\ Calm
  /\ Others

----------------------------------------------------------------------------
(* The verification sweep at the end of a batch.                           *)

Tally ==
  /\ pc = "tally"
  /\ IF \A t \in Plan : taskStatus[t] = "machine_accepted"
     THEN Goes("capture") ELSE Ends /\ UNCHANGED stops
  /\ UNCHANGED vars /\ Calm /\ Others

Capture ==
  /\ pc = "capture"
  /\ captured' = TRUE
  /\ Goes("open") /\ UNCHANGED <<vars, sweep, seen>> /\ Others

\* An observation sweep goes on across batches; a delivery starts a new one.
OpenSweep ==
  /\ pc = "open"
  /\ \/ sweep.phase = "verify" /\ sweep.fresh /\ Calm
     \/ /\ sweep' = [phase |-> "verify", position |-> 0, fresh |-> captured]
        /\ seen' = [t \in Tasks |-> 0]
        /\ UNCHANGED captured
  /\ Goes("sweep") /\ UNCHANGED vars /\ Others

Unswept == {t \in Plan : Ordinal[t] >= sweep.position}

SweepRow ==
  LET t == First(Unswept) IN
  /\ pc = "sweep" /\ Unswept # {}
  /\ \/ /\ captured /\ accepted[t] # 0
        /\ seen' = [seen EXCEPT ![t] = request[t]]
        /\ sweep' = [sweep EXCEPT !.position = Ordinal[t] + 1]
        /\ UNCHANGED captured /\ Goes("sweep")
     \/ ~(captured /\ accepted[t] # 0) /\ Calm /\ Ends /\ UNCHANGED stops
  /\ UNCHANGED vars /\ Others

SweepEnds ==
  /\ pc = "sweep" /\ Unswept = {}
  /\ IF captured THEN sweep' = [sweep EXCEPT !.phase = "complete"] /\ UNCHANGED <<captured, seen>>
                 ELSE Calm
  /\ Ends /\ UNCHANGED <<vars, stops>> /\ Others

\* The process dies, or its deadline passes.
BatchStops ==
  /\ pc # "off" /\ stops < MaxStops
  /\ Ends /\ stops' = stops + 1
  /\ UNCHANGED vars /\ Calm /\ Others

----------------------------------------------------------------------------
(* The cancel command: cancel_store_request.                               *)

CancelGoes(p) == cancelPc' = p /\ UNCHANGED <<cancelReq, cancelGot>>

CancelEnds ==
  cancelPc' = "off" /\ cancelGot' = "unconfirmed" /\ cancelReq' = CHOOSE r \in Requests : TRUE

Batch == UNCHANGED <<gateVars, batchVars>>

CancelStarts(r) ==
  /\ cancelPc = "off"
  /\ attempt[r].status \in Live
  /\ cancelPc' = "intent" /\ cancelReq' = r
  /\ UNCHANGED <<vars, cancelGot, cancelState, providerVars>> /\ Batch /\ Calm

CancelIntentEager ==
  /\ cancelPc = "intent" /\ Fence(cancelReq)
  /\ cancelState' = [cancelState EXCEPT ![cancelReq] = "cancelled"]
  /\ CancelGoes("contact")
  /\ UNCHANGED <<vars, providerVars>> /\ Batch /\ Calm

CancelIntent ==
  /\ cancelPc = "intent"
  /\ \/ /\ Fence(cancelReq)
        /\ cancelState' = [cancelState EXCEPT ![cancelReq] = "requested"]
        /\ CancelGoes("contact")
     \/ ~Fence(cancelReq) /\ CancelEnds /\ UNCHANGED cancelState
  /\ UNCHANGED <<vars, providerVars>> /\ Batch /\ Calm

\* Only a job that has stopped is reported as cancelled; the reply may be lost.
CancelContact ==
  /\ cancelPc = "contact"
  /\ \/ /\ job[cancelReq] = "running"
        /\ job' = [job EXCEPT ![cancelReq] = "cancelled"]
        /\ cancelGot' \in {"cancelled", "unconfirmed"}
     \/ /\ job[cancelReq] = "cancelled" /\ cancelGot' = "cancelled" /\ UNCHANGED job
     \/ cancelGot' = "unconfirmed" /\ UNCHANGED job
  /\ cancelPc' = "record"
  /\ UNCHANGED <<vars, cancelReq, cancelState, sends>> /\ Batch /\ Calm

CancelRecord ==
  /\ cancelPc = "record"
  /\ \/ /\ Fence(cancelReq)
        /\ cancelState' = [cancelState EXCEPT ![cancelReq] = cancelGot]
        /\ IF cancelGot = "cancelled" THEN CancelGoes("report") ELSE CancelEnds
     \/ ~Fence(cancelReq) /\ CancelEnds /\ UNCHANGED cancelState
  /\ UNCHANGED <<vars, providerVars>> /\ Batch /\ Calm

CancelReport ==
  /\ cancelPc = "report"
  /\ \/ ReportCall(cancelReq, "cancelled") /\ CancelGoes("bill")
     \/ ReportRefused(cancelReq, "cancelled") /\ CancelEnds
  /\ UNCHANGED <<cancelState, providerVars>> /\ Batch

CancelBill ==
  /\ cancelPc = "bill"
  /\ LeaveUnknown(cancelReq) /\ CancelEnds
  /\ UNCHANGED <<cancelState, providerVars>> /\ Batch /\ Calm

CancelDies ==
  /\ cancelPc # "off" /\ CancelEnds
  /\ UNCHANGED <<vars, cancelState, providerVars>> /\ Batch /\ Calm

----------------------------------------------------------------------------
(* The provider, the operator and time.                                    *)

JobMoves(r) ==
  /\ job[r] = "running"
  /\ \E s \in {"produced", "failed"} : job' = [job EXCEPT ![r] = s]
  /\ UNCHANGED <<vars, cancelVars, cancelState, sends>> /\ Batch /\ Calm

\* Before it is looked at and after it is copied nobody can tell.
ProviderReplaces ==
  /\ \E r \in Requests :
       /\ started[r] > 0 \/ (pc = "assess" /\ cur = r)
       /\ published[r] = {} /\ Replace(r)
  /\ UNCHANGED <<vars, batchVars>> /\ Calm /\ Elsewhere

OperatorInvalidates ==
  /\ \E changed \in SUBSET Plan : Invalidate(changed)
  /\ Touch /\ Batch /\ Others

OperatorPauses ==
  /\ \E on \in BOOLEAN : Pause(Execution, on)
  /\ Touch /\ Batch /\ Others

\* Revocation and the hold file are no events of an execution.
OperatorWithholds ==
  /\ Revoke \/ \E on \in BOOLEAN : Hold(on)
  /\ Calm /\ Batch /\ Others

TimePasses ==
  /\ AuthorizationLapses \/ \E r \in Requests : LeaseExpires(r)
  /\ Calm /\ Batch /\ Others

BatchStep ==
  \/ BatchStarts \/ Scan \/ BatchClaims \/ ClaimRefused \/ Park \/ ComputeForecast
  \/ RecordBound \/ Send \/ Submit \/ Lost \/ LostBill \/ ObserveProvider \/ Report
  \/ Bill \/ Verify \/ Assess \/ Evaluate \/ Decide \/ PublishArtifact
  \/ AcceptPublished \/ Tally \/ Capture \/ OpenSweep \/ SweepRow \/ SweepEnds

CancelStep ==
  \/ "cancel" \in Disturbances /\ \E r \in Requests : CancelStarts(r)
  \/ CancelIntent \/ CancelContact \/ CancelRecord \/ CancelReport \/ CancelBill
  \/ "cancel" \in Disturbances /\ CancelDies

RunnerNext ==
  \/ BatchStep
  \/ BatchStops
  \/ CancelStep
  \/ \E r \in Requests : JobMoves(r)
  \/ Gated /\ ProviderReplaces
  \/ "invalidate" \in Disturbances /\ OperatorInvalidates
  \/ "pause" \in Disturbances /\ OperatorPauses
  \/ "withhold" \in Disturbances /\ OperatorWithholds
  \/ "time" \in Disturbances /\ TimePasses

RunnerSpec == RunnerInit /\ [][RunnerNext]_runnerVars

\* The operator runs the batch again and again, and the provider ends its jobs.
FairRunnerSpec ==
  /\ RunnerSpec
  /\ WF_runnerVars(BatchStep)
  /\ WF_runnerVars(\E r \in Requests : JobMoves(r))

----------------------------------------------------------------------------
(* Properties.                                                             *)

\* The provider receives a request at most once, whoever dies when: a lost
\* submission reply is reconciled and never sent again.
SubmittedOnce == \A r \in Requests : sends[r] <= 1

\* Work the provider is still doing is work the store still tracks: its
\* request is open and current, so no retry, invalidation or late report goes
\* past it, and no second job of the same task runs beside it.
RunningIsTracked ==
  \A r \in Requests : job[r] = "running" => attempt[r].status \in Live /\ Fence(r)

\* What is accepted behind a quality gate is the published copy of the very
\* content a conclusive evaluation accepted, and crashes do not buy further
\* evaluations (segment_quality.py "assess", publication.py "stage_acceptance").
PublishedIsJudged ==
  Gated => \A r \in Requests :
    /\ started[r] <= MaxEvaluations
    /\ attempt[r].status = "machine_accepted" =>
         quality[r].verdict = "accept" /\ published[r] = {quality[r].content}

\* A cancellation the provider has confirmed is never followed by an
\* acceptance, although it is recorded in three transactions and the batch
\* may read the job before, between and after them.
ConfirmedStaysCancelled ==
  \A r \in Requests : cancelState[r] = "cancelled" => attempt[r].status # "machine_accepted"

\* The recorded forecast bounds the attempts that may still be claimed.
ForecastIsBound == forecast.known => forecast.remaining >= RemainingForecast

\* A sweep that completes has observed every task of the plan, across all the
\* batches it took, at the request that is accepted when it completes.
SweepIsCurrent ==
  [][ sweep.phase # "complete" /\ sweep'.phase = "complete"
        => \A t \in Plan : accepted[t] # 0 /\ seen[t] = accepted[t] ]_runnerVars

\* Produced work that is no longer what was judged or intended, or whose
\* evaluations are used up.
Undecidable(r) ==
  /\ Gated /\ attempt[r].status = "produced" /\ published[r] = {}
  /\ \/ quality[r].verdict # "none" /\ file[r] # quality[r].content
     \/ ~Conclusive(r) /\ ~Evaluable(r)

\* Rows the batch always tries first and is always refused, and submissions
\* the provider never received: they end every batch.  So
\* does an undecidable row.
Blocked(t) ==
  \E u \in Plan :
    \/ u \in ReadyRows /\ ~Admitted(u) /\ ~WaitsForRepair(u) /\ ~NeedsForecast(u)
    \/ /\ Ordinal[u] <= Ordinal[t] /\ request[u] # 0
       /\ Latest(u).status \in {"submitted", "unknown"} /\ Latest(u).outbox = "sending"
       /\ job[<<u, request[u]>>] = "none"
    \/ Ordinal[u] <= Ordinal[t] /\ request[u] # 0 /\ Undecidable(<<u, request[u]>>)

\* What the provider has produced gets its verdict, unless such a row blocks
\* the batch.
ProducedIsJudged ==
  []<>(\A r \in Requests :
         job[r] = "produced" => attempt[r].status \in Final \/ Blocked(r[1]))

\* The processes use the store only in the ways its specification allows.
UsesStore == Spec
=============================================================================
