------------------------- MODULE StoreRunnerProofs -------------------------
(* Theorems of the production store and of the processes around it, for    *)
(* every plan, every authorization and every interleaving of their steps.  *)
EXTENDS StoreRunner, SumLemmas

----------------------------------------------------------------------------
(* The store: its types, its graph and its money.                          *)

(* The claimed round stays within the authorization.                       *)
LEMMA ClaimRoundBounded ==
  ASSUME NEW t \in Tasks, TypeOK, RepairAdmits(t)
  PROVE  ClaimRound(t) \in 1..MaxRepairRounds
BY PlanAssumption, AuthorizationAssumption DEF TypeOK, RepairAdmits, ClaimRound, OpensRound

(* Replacing one column of an attempt keeps it a record of attempts.       *)
LEMMA FieldTyped ==
  ASSUME NEW a \in AttemptRecord
  PROVE  /\ \A s \in Live \cup Final \cup {"none"} : [a EXCEPT !.status = s] \in AttemptRecord
         /\ \A o \in {"none", "prepared", "sending", "observed"} :
              [a EXCEPT !.outbox = o] \in AttemptRecord
         /\ \A b \in BOOLEAN : /\ [a EXCEPT !.expired = b] \in AttemptRecord
                              /\ [a EXCEPT !.invalidated = b] \in AttemptRecord
         /\ \A c \in {"none", "active", "unknown", "settled"} :
              [a EXCEPT !.charge = c] \in AttemptRecord
         /\ \A u \in Nat : [a EXCEPT !.billed = u] \in AttemptRecord
BY DEF AttemptRecord

(* Every operation keeps the domains of all columns.                       *)
LEMMA TypeStep ==
  ASSUME TypeOK, [Next]_vars
  PROVE  TypeOK'
<1>1. ASSUME NEW t \in Tasks, Claim(t) PROVE TypeOK'
  <2>1. ClaimRound(t) \in 1..MaxRepairRounds /\ ClaimRound(t) \in 0..3
    BY <1>1, ClaimRoundBounded, AuthorizationAssumption DEF Claim, Admitted
  <2>2. request[t] \in 0..MaxAttempts /\ request[t] < MaxAttempts
    BY <1>1 DEF Claim, Admitted, Claimable, TypeOK
  <2>3. <<t, request[t] + 1>> \in Requests
    BY <2>2, AuthorizationAssumption DEF Requests
  <2>4. [NoAttempt EXCEPT !.status = "reserved", !.epoch = epoch[t] + 1,
           !.outbox = "prepared", !.charge = "active",
           !.round = IF FramesOf[t] > 0 THEN ClaimRound(t) ELSE 0] \in AttemptRecord
    <3>1. epoch[t] + 1 \in Nat /\ (IF FramesOf[t] > 0 THEN ClaimRound(t) ELSE 0) \in 0..3
      BY <2>1 DEF TypeOK
    <3>. QED
      BY <3>1 DEF NoAttempt, AttemptRecord, Live
  <2>5. attempt' \in [Requests -> AttemptRecord]
    BY <1>1, <2>3, <2>4 DEF Claim, TypeOK
  <2>6. round' \in [Shots -> 1..MaxRepairRounds]
    BY <1>1, <2>1 DEF Claim, TypeOK
  <2>7. used' \in Nat /\ frames' \in Nat /\ costRevision' \in Nat
        /\ routeUsed' \in [Routes -> Nat]
    <3>1. Worst[t] \in Nat /\ FramesOf[t] \in Nat /\ RouteOf[t] \in Routes
      BY PlanAssumption
    <3>. QED
      BY <1>1, <3>1 DEF Claim, TypeOK
  <2>8. forecast' \in ForecastRecord
    <3>1. forecast.remaining - Worst[t] \in Int
      BY PlanAssumption DEF TypeOK, ForecastRecord
    <3>2. Positive(forecast.remaining - Worst[t]) \in Nat
      BY <3>1 DEF Positive
    <3>. QED
      BY <1>1, <3>2 DEF Claim, Reforecast, ForecastRecord, TypeOK, Affordable
  <2>9. /\ taskStatus' \in [Tasks -> Live \cup Final \cup {"ready", "repair_wait"}]
        /\ epoch' \in [Tasks -> Nat] /\ request' \in [Tasks -> 0..MaxAttempts]
    BY <1>1, <2>2, AuthorizationAssumption DEF Claim, TypeOK, Live
  <2>. QED
    BY <1>1, <2>5, <2>6, <2>7, <2>8, <2>9 DEF Claim, TypeOK, authorityVars
<1>2. ASSUME NEW r \in Requests, RequestNext(r) PROVE TypeOK'
  <2>t. r[1] \in Tasks /\ r[2] \in 1..MaxAttempts
    BY DEF Requests
  <2>a. attempt[r] \in AttemptRecord
    BY DEF TypeOK
  <2>1. CASE MarkSending(r)
    <3>1. [[attempt[r] EXCEPT !.outbox = "sending"] EXCEPT !.status = "submitted"]
            \in AttemptRecord
      BY <2>a, FieldTyped DEF Live
    <3>2. attempt' \in [Requests -> AttemptRecord]
      BY <2>1, <3>1 DEF MarkSending, TypeOK
    <3>. QED
      BY <2>1, <2>t, <3>2 DEF MarkSending, TypeOK, moneyVars, authorityVars, Live
  <2>2. ASSUME NEW s \in Reports, Observe(r, s) PROVE TypeOK'
    <3>1. s \in Live \cup Final
      BY DEF Reports, Live, Final, Retryable
    <3>. DEFINE o == IF s = "unknown" THEN attempt[r].outbox ELSE "observed"
    <3>3. o \in {"none", "prepared", "sending", "observed"}
      BY <2>a DEF AttemptRecord
    <3>4. [[attempt[r] EXCEPT !.status = s] EXCEPT !.outbox = o] \in AttemptRecord
      BY <2>a, <3>1, <3>3, FieldTyped
    <3>5. attempt' \in [Requests -> AttemptRecord]
      BY <2>2, <3>4 DEF Observe, TypeOK
    <3>. QED
      BY <2>2, <2>t, <3>1, <3>5 DEF Observe, TypeOK, moneyVars, authorityVars
  <2>3. CASE Accept(r)
    <3>1. attempt' \in [Requests -> AttemptRecord]
      <4>1. [attempt[r] EXCEPT !.status = "machine_accepted"] \in AttemptRecord
        BY <2>a, FieldTyped DEF Final
      <4>. QED
        BY <2>3, <4>1 DEF Accept, TypeOK
    <3>2. remaining' \in [Tasks -> Nat]
      BY <2>3 DEF Accept, TypeOK, Dependents
    <3>3. accepted' \in [Tasks -> 0..MaxAttempts]
      BY <2>3, <2>t, AuthorizationAssumption DEF Accept, TypeOK
    <3>4. taskStatus' \in [Tasks -> Live \cup Final \cup {"ready", "repair_wait"}]
      BY <2>3 DEF Accept, TypeOK, Final, Retryable
    <3>. QED
      BY <2>3, <3>1, <3>2, <3>3, <3>4 DEF Accept, TypeOK, moneyVars, authorityVars
  <2>4. CASE Reject(r)
    <3>1. "rejected" \in Final
      BY DEF Final, Retryable
    <3>2. [attempt[r] EXCEPT !.status = "rejected"] \in AttemptRecord
      BY <2>a, <3>1, FieldTyped
    <3>3. attempt' \in [Requests -> AttemptRecord]
      BY <2>4, <3>2 DEF Reject, TypeOK
    <3>. QED
      BY <2>4, <2>t, <3>1, <3>3 DEF Reject, TypeOK, moneyVars, authorityVars
  <2>5. CASE LeaseExpires(r) \/ RenewPrepared(r)
    <3>1. \A b \in BOOLEAN : [attempt[r] EXCEPT !.expired = b] \in AttemptRecord
      BY <2>a, FieldTyped
    <3>2. attempt' \in [Requests -> AttemptRecord]
      BY <2>5, <3>1 DEF LeaseExpires, RenewPrepared, TypeOK
    <3>. QED
      BY <2>5, <3>2 DEF LeaseExpires, RenewPrepared, TypeOK, rowVars, moneyVars, authorityVars
  <2>6. CASE SettleUnknown(r)
    <3>1. [attempt[r] EXCEPT !.charge = "unknown"] \in AttemptRecord
      BY <2>a, FieldTyped
    <3>2. attempt' \in [Requests -> AttemptRecord]
      BY <2>6, <3>1 DEF SettleUnknown, TypeOK
    <3>. QED
      BY <2>6, <3>2 DEF SettleUnknown, TypeOK, rowVars, moneyVars, authorityVars
  <2>7. ASSUME NEW units \in 0..Worst[r[1]], Settle(r, units) PROVE TypeOK'
    <3>1. units \in Nat /\ RouteOf[r[1]] \in Routes /\ Worst[r[1]] \in Nat
      BY <2>t, PlanAssumption
    <3>2. attempt' \in [Requests -> AttemptRecord]
      <4>1. [[attempt[r] EXCEPT !.charge = "settled"] EXCEPT !.billed = units] \in AttemptRecord
        BY <2>a, <3>1, FieldTyped
      <4>. QED
        BY <2>7, <4>1 DEF Settle, TypeOK
    <3>3. used' \in Nat /\ costRevision' \in Nat /\ routeUsed' \in [Routes -> Nat]
      BY <2>7, <3>1 DEF Settle, TypeOK
    <3>4. forecast' \in ForecastRecord
      BY <2>7, <3>1 DEF Settle, TypeOK, Reforecast, ForecastRecord, Affordable
    <3>. QED
      BY <2>7, <3>2, <3>3, <3>4 DEF Settle, TypeOK, rowVars, authorityVars
  <2>. QED
    BY <1>2, <2>1, <2>2, <2>3, <2>4, <2>5, <2>6, <2>7 DEF RequestNext
<1>3. ASSUME NEW units \in ForecastInputs, RecordForecast(units) PROVE TypeOK'
  BY <1>3, AuthorizationAssumption
  DEF TypeOK, RecordForecast, ForecastRecord, rowVars, moneyVars, authorityVars, Affordable
<1>4. ASSUME NEW t \in Tasks, ParkForRepair(t) PROVE TypeOK'
  BY <1>4 DEF TypeOK, ParkForRepair, moneyVars, authorityVars
<1>5. ASSUME NEW e \in Executions, ReleaseParked(e) PROVE TypeOK'
  BY <1>5 DEF TypeOK, ReleaseParked, moneyVars, authorityVars, Final, Retryable
<1>6. ASSUME NEW changed \in SUBSET Tasks, Invalidate(changed) PROVE TypeOK'
  <2>. DEFINE hit == Affected[changed]
  <2>1. attempt' \in [Requests -> AttemptRecord]
    <3>1. \A r \in Requests : /\ attempt[r] \in AttemptRecord
                              /\ [attempt[r] EXCEPT !.invalidated = TRUE] \in AttemptRecord
      BY FieldTyped DEF TypeOK
    <3>. QED
      BY <1>6, <3>1 DEF Invalidate
  <2>2. remaining' \in [Tasks -> Nat]
    <3>1. \A t \in Tasks : Cardinality({p \in Parents[t] : accepted'[p] = 0}) \in Nat
      <4>. TAKE t \in Tasks
      <4>1. IsFiniteSet(Parents[t])
        BY PlanAssumption, FS_Subset
      <4>. QED
        BY <4>1, FS_Subset, FS_CardinalityType
    <3>2. \A t \in Tasks : remaining[t] \in Nat
      BY DEF TypeOK
    <3>. QED
      BY <1>6, <3>1, <3>2 DEF Invalidate
  <2>3. forecast' \in ForecastRecord
    BY <1>6 DEF Invalidate, NoForecast, ForecastRecord
  <2>4. accepted' \in [Tasks -> 0..MaxAttempts] /\ epoch' \in [Tasks -> Nat]
    BY <1>6, AuthorizationAssumption DEF Invalidate, TypeOK
  <2>5. taskStatus' \in [Tasks -> Live \cup Final \cup {"ready", "repair_wait"}]
    BY <1>6 DEF Invalidate, TypeOK
  <2>. QED
    BY <1>6, <2>1, <2>2, <2>3, <2>4, <2>5 DEF Invalidate, TypeOK, moneyVars, authorityVars
<1>7. ASSUME OperatorNext PROVE TypeOK'
  BY <1>7 DEF TypeOK, OperatorNext, Pause, Hold, Revoke, AuthorizationLapses, rowVars, moneyVars
<1>8. ASSUME UNCHANGED vars PROVE TypeOK'
  BY <1>8 DEF TypeOK, vars, rowVars, moneyVars, authorityVars
<1>. QED
  BY <1>1, <1>2, <1>3, <1>4, <1>5, <1>6, <1>7, <1>8 DEF Next

(* The columns of a new store are in their domains.                        *)
LEMMA InitTyped ==
  ASSUME Init
  PROVE  TypeOK
<1>1. remaining \in [Tasks -> Nat]
  <2>1. \A t \in Tasks : Cardinality(Parents[t]) \in Nat
    BY PlanAssumption, FS_Subset, FS_CardinalityType
  <2>. QED
    BY <2>1 DEF Init
<1>2. NoAttempt \in AttemptRecord /\ NoForecast \in ForecastRecord
  BY DEF NoAttempt, AttemptRecord, NoForecast, ForecastRecord
<1>. QED
  <2>1. 1 \in 1..MaxRepairRounds /\ 0 \in 0..MaxAttempts /\ 0 \in Nat
    BY AuthorizationAssumption
  <2>2. attempt \in [Requests -> AttemptRecord]
    BY <1>2 DEF Init
  <2>. QED
    BY <1>1, <1>2, <2>1, <2>2 DEF Init, TypeOK

(* Every column keeps its domain; in particular no total and no counter of *)
(* open parents becomes negative, and no repair round exceeds the limit.   *)
THEOREM TypeCorrect == Spec => []TypeOK
<1>1. Init => TypeOK
  BY InitTyped
<1>2. TypeOK /\ [Next]_vars => TypeOK'
  BY TypeStep
<1>. QED
  BY <1>1, <1>2, PTL DEF Spec

----------------------------------------------------------------------------
(* The rows and the attempts.  AcceptedIsCurrent and LiveIsReachable are    *)
(* not inductive: a stale sender, a late report or an invalidation could    *)
(* disturb them but for the numbering of the attempts, the epochs and the   *)
(* outbox, which the three conjuncts below describe.                        *)

\* Attempts are made in order, and a superseded one stays closed.
AttemptsInOrder ==
  \A r \in Requests :
    /\ r[2] > request[r[1]] => attempt[r] = NoAttempt
    /\ r[2] < request[r[1]] => attempt[r].status \notin Live

\* The row follows its current request; an invalidation fences it for good.
FollowsRequest(t) ==
  /\ Latest(t).status \in Live => taskStatus[t] = Latest(t).status
  /\ \/ ~Latest(t).invalidated /\ Latest(t).epoch = epoch[t]
     \/ Latest(t).invalidated /\ Latest(t).epoch < epoch[t] /\ Latest(t).status \in Final

LatestInStep == \A t \in Tasks : request[t] # 0 => FollowsRequest(t)

\* What is still to be sent has no verdict yet.
PreparedIsOpen ==
  \A r \in Requests : attempt[r].outbox = "prepared" => attempt[r].status \in {"reserved", "unknown"}

RowInv == AttemptsInOrder /\ LatestInStep /\ PreparedIsOpen /\ AcceptedIsCurrent

LEMMA RequestPair ==
  ASSUME NEW r \in Requests
  PROVE  r[1] \in Tasks /\ r[2] \in 1..MaxAttempts /\ r = <<r[1], r[2]>>
BY DEF Requests

(* A current request that is not invalidated and not accepted yet gets a   *)
(* new status, and the row takes it over.                                  *)
LEMMA StatusStep ==
  ASSUME TypeOK, RowInv, NEW r \in Requests, Fence(r), accepted[r[1]] = 0,
         UNCHANGED <<epoch, request, accepted>>,
         \A q \in Requests : q # r => attempt'[q] = attempt[q],
         attempt'[r].epoch = attempt[r].epoch,
         attempt'[r].invalidated = attempt[r].invalidated,
         attempt'[r].outbox = "prepared" => attempt'[r].status \in {"reserved", "unknown"},
         taskStatus' = [taskStatus EXCEPT ![r[1]] = attempt'[r].status]
  PROVE  RowInv'
<1>1. r[1] \in Tasks /\ r[2] \in 1..MaxAttempts /\ r = <<r[1], r[2]>> /\ request[r[1]] = r[2]
  BY RequestPair DEF Fence
<1>2. AttemptsInOrder'
  BY <1>1 DEF RowInv, AttemptsInOrder
<1>3. LatestInStep'
  <2>. SUFFICES ASSUME NEW t \in Tasks, request[t] # 0
                PROVE  FollowsRequest(t)'
    BY DEF LatestInStep
  <2>1. <<t, request[t]>> \in Requests /\ request'[t] = request[t] /\ epoch'[t] = epoch[t]
    BY AuthorizationAssumption DEF Requests, TypeOK
  <2>2. CASE t = r[1]
    <3>1. Latest(t) = attempt[r] /\ Latest(t)' = attempt'[r]
      BY <1>1, <2>1, <2>2 DEF Latest
    <3>2. attempt[r].epoch = epoch[t] /\ epoch[t] \in Nat
      BY <2>2 DEF Fence, TypeOK
    <3>3. ~attempt[r].invalidated
      BY <3>1, <3>2 DEF RowInv, LatestInStep, FollowsRequest
    <3>. QED
      BY <2>1, <2>2, <3>1, <3>2, <3>3 DEF TypeOK, FollowsRequest
  <2>3. CASE t # r[1]
    <3>1. <<t, request[t]>> # r
      BY <1>1, <2>3
    <3>2. Latest(t)' = Latest(t) /\ taskStatus'[t] = taskStatus[t]
      BY <2>1, <2>3, <3>1 DEF Latest, TypeOK
    <3>. QED
      BY <2>1, <3>2 DEF RowInv, LatestInStep, FollowsRequest
  <2>. QED
    BY <2>2, <2>3
<1>4. PreparedIsOpen'
  BY DEF RowInv, PreparedIsOpen
<1>5. AcceptedIsCurrent'
  <2>. SUFFICES ASSUME NEW t \in Tasks, accepted[t] # 0
                PROVE  AcceptedIsCurrent!(t)!2'
    BY DEF AcceptedIsCurrent
  <2>1. t # r[1] /\ request[t] # 0 /\ accepted[t] = request[t]
    BY DEF RowInv, AcceptedIsCurrent
  <2>2. <<t, request[t]>> \in Requests /\ <<t, request[t]>> # r
    BY <1>1, <2>1, AuthorizationAssumption DEF Requests, TypeOK
  <2>3. Latest(t)' = Latest(t) /\ taskStatus'[t] = taskStatus[t]
    BY <2>1, <2>2 DEF Latest, TypeOK
  <2>. QED
    BY <2>3 DEF RowInv, AcceptedIsCurrent
<1>. QED
  BY <1>2, <1>3, <1>4, <1>5 DEF RowInv

(* Leases and bills leave verdicts, epochs and rows as they are.           *)
LEMMA QuietStep ==
  ASSUME RowInv, NEW r \in Requests, request[r[1]] >= r[2],
         UNCHANGED rowVars,
         \A q \in Requests : q # r => attempt'[q] = attempt[q],
         attempt'[r].status = attempt[r].status,
         attempt'[r].epoch = attempt[r].epoch,
         attempt'[r].invalidated = attempt[r].invalidated,
         attempt'[r].outbox = attempt[r].outbox,
         TypeOK
  PROVE  RowInv'
<1>1. \A t \in Tasks : request[t] # 0 => /\ Latest(t)'.status = Latest(t).status
                                         /\ Latest(t)'.epoch = Latest(t).epoch
                                         /\ Latest(t)'.invalidated = Latest(t).invalidated
  <2>. TAKE t \in Tasks
  <2>1. HAVE request[t] # 0
  <2>2. <<t, request[t]>> \in Requests
    BY <2>1, AuthorizationAssumption DEF Requests, TypeOK
  <2>. QED
    BY <2>2 DEF Latest, rowVars
<1>2. AttemptsInOrder'
  BY RequestPair DEF RowInv, AttemptsInOrder, rowVars, TypeOK
<1>3. LatestInStep'
  BY <1>1 DEF RowInv, LatestInStep, FollowsRequest, rowVars
<1>4. PreparedIsOpen'
  BY DEF RowInv, PreparedIsOpen
<1>5. AcceptedIsCurrent'
  <2>1. \A t \in Tasks : accepted[t] # 0 => request[t] # 0
    BY DEF RowInv, AcceptedIsCurrent
  <2>. QED
    BY <1>1, <2>1 DEF RowInv, AcceptedIsCurrent, rowVars
<1>. QED
  BY <1>2, <1>3, <1>4, <1>5 DEF RowInv

(* Only the rows' statuses change, and only from closed to closed.         *)
LEMMA ParkingStep ==
  ASSUME RowInv, UNCHANGED <<epoch, request, accepted, attempt>>,
         \A t \in Tasks : taskStatus'[t] = taskStatus[t]
                            \/ taskStatus[t] \in Retryable \cup {"ready", "repair_wait"}
  PROVE  RowInv'
<1>1. Retryable \cap Live = {} /\ {"ready", "repair_wait"} \cap Live = {}
      /\ "machine_accepted" \notin Retryable \cup {"ready", "repair_wait"}
  BY DEF Retryable, Live
<1>2. \A t \in Tasks : Latest(t)' = Latest(t)
  BY DEF Latest
<1>3. LatestInStep'
  BY <1>1, <1>2 DEF RowInv, LatestInStep, FollowsRequest
<1>4. AcceptedIsCurrent'
  BY <1>1, <1>2 DEF RowInv, AcceptedIsCurrent
<1>. QED
  BY <1>3, <1>4 DEF RowInv, AttemptsInOrder, PreparedIsOpen

LEMMA ClaimRow ==
  ASSUME TypeOK, RowInv, NEW t \in Tasks, Claim(t)
  PROVE  RowInv'
<1>. DEFINE new == <<t, request[t] + 1>>
<1>1. /\ new \in Requests /\ request[t] \in Nat /\ epoch[t] \in Nat
      /\ request'[t] = request[t] + 1 /\ epoch'[t] = epoch[t] + 1
      /\ taskStatus'[t] = "reserved" /\ accepted[t] = 0
      /\ request' \in [Tasks -> Nat]
  BY AuthorizationAssumption DEF Claim, Admitted, Claimable, TypeOK, Requests
<1>2. /\ attempt'[new].status = "reserved" /\ attempt'[new].epoch = epoch[t] + 1
      /\ ~attempt'[new].invalidated
  BY <1>1 DEF Claim, TypeOK, NoAttempt
<1>3. \A q \in Requests : q # new => attempt'[q] = attempt[q]
  BY <1>1 DEF Claim, TypeOK
<1>4. \A u \in Tasks : u # t => /\ request'[u] = request[u] /\ epoch'[u] = epoch[u]
                                /\ taskStatus'[u] = taskStatus[u]
  BY DEF Claim, TypeOK
<1>5. Latest(t)' = attempt'[new]
  BY <1>1 DEF Latest
<1>6. \A u \in Tasks : u # t => Latest(u)' = Latest(u)
  BY <1>3, <1>4 DEF Latest, Claim, TypeOK
<1>7. AttemptsInOrder'
  <2>. SUFFICES ASSUME NEW q \in Requests
                PROVE  /\ q[2] > request'[q[1]] => attempt'[q] = NoAttempt
                       /\ q[2] < request'[q[1]] => attempt'[q].status \notin Live
    BY DEF AttemptsInOrder
  <2>q. q[1] \in Tasks /\ q[2] \in Nat /\ q = <<q[1], q[2]>>
    BY RequestPair, AuthorizationAssumption
  <2>1. CASE q[1] # t
    <3>1. q # new /\ attempt'[q] = attempt[q] /\ request'[q[1]] = request[q[1]]
      BY <1>3, <1>4, <2>q, <2>1
    <3>. QED
      BY <3>1 DEF RowInv, AttemptsInOrder
  <2>2. CASE q = new
    BY <1>1, <2>2
  <2>3. CASE q[1] = t /\ q # new /\ q[2] # request[t]
    BY <1>1, <1>3, <2>q, <2>3 DEF RowInv, AttemptsInOrder
  <2>4. CASE q[1] = t /\ q # new /\ q[2] = request[t]
    <3>1. attempt'[q] = attempt[q] /\ attempt[q] = Latest(t) /\ request[t] # 0
      BY <1>3, <2>q, <2>4, RequestPair DEF Latest
    <3>2. Latest(t).status \in Final
      BY <3>1 DEF Claim, Admitted, Claimable, Final, RowInv, LatestInStep, FollowsRequest
    <3>. QED
      BY <1>1, <2>4, <3>1, <3>2 DEF Final, Retryable, Live
  <2>. QED
    BY <2>1, <2>2, <2>3, <2>4
<1>8. LatestInStep'
  <2>. SUFFICES ASSUME NEW u \in Tasks, request'[u] # 0 PROVE FollowsRequest(u)'
    BY DEF LatestInStep
  <2>1. CASE u = t
    BY <1>1, <1>2, <1>5, <2>1 DEF FollowsRequest
  <2>2. CASE u # t
    BY <1>4, <1>6, <2>2 DEF RowInv, LatestInStep, FollowsRequest
  <2>. QED
    BY <2>1, <2>2
<1>9. PreparedIsOpen'
  BY <1>2, <1>3 DEF RowInv, PreparedIsOpen
<1>10. AcceptedIsCurrent'
  BY <1>1, <1>4, <1>6 DEF RowInv, AcceptedIsCurrent, Claim
<1>. QED
  BY <1>7, <1>8, <1>9, <1>10 DEF RowInv

LEMMA AcceptRow ==
  ASSUME TypeOK, RowInv, NEW r \in Requests, Accept(r)
  PROVE  RowInv' /\ accepted[r[1]] = 0
<1>. DEFINE t == r[1]
<1>1. t \in Tasks /\ r[2] \in 1..MaxAttempts /\ r = <<t, r[2]>> /\ request[t] = r[2]
      /\ request[t] # 0 /\ Latest(t) = attempt[r] /\ attempt[r].epoch = epoch[t]
  BY RequestPair DEF Accept, Fence, Latest
<1>2. accepted[t] = 0
  BY <1>1 DEF RowInv, AcceptedIsCurrent, Accept
<1>3. /\ attempt'[r].status = "machine_accepted" /\ attempt'[r].epoch = attempt[r].epoch
      /\ attempt'[r].invalidated = attempt[r].invalidated
      /\ attempt'[r].outbox = attempt[r].outbox
      /\ \A q \in Requests : q # r => attempt'[q] = attempt[q]
  BY DEF Accept, TypeOK, AttemptRecord
<1>4. ~attempt[r].invalidated
  BY <1>1 DEF RowInv, LatestInStep, FollowsRequest, Fence, Accept, TypeOK
<1>5. Latest(t)' = attempt'[r]
  BY <1>1 DEF Latest, Accept
<1>6. \A u \in Tasks : u # t /\ request[u] # 0 => Latest(u)' = Latest(u)
  <2>. TAKE u \in Tasks
  <2>1. HAVE u # t /\ request[u] # 0
  <2>2. <<u, request[u]>> \in Requests /\ <<u, request[u]>> # r
    BY <1>1, <2>1, AuthorizationAssumption DEF Requests, TypeOK
  <2>. QED
    BY <1>3, <2>2 DEF Latest, Accept
<1>7. \A u \in Tasks : u # t => \/ taskStatus'[u] = taskStatus[u]
                                \/ taskStatus[u] = "repair_wait"
  BY DEF Accept, ParkedWith
<1>8. AttemptsInOrder'
  BY <1>1, <1>3, RequestPair DEF RowInv, AttemptsInOrder, Accept
<1>9. LatestInStep'
  <2>. SUFFICES ASSUME NEW u \in Tasks, request[u] # 0 PROVE FollowsRequest(u)'
    BY DEF LatestInStep, Accept
  <2>1. CASE u = t
    BY <1>1, <1>3, <1>4, <1>5, <2>1 DEF FollowsRequest, Accept, Live
  <2>2. CASE u # t
    BY <1>6, <1>7, <2>2 DEF RowInv, LatestInStep, FollowsRequest, Accept, Live
  <2>. QED
    BY <2>1, <2>2
<1>10. PreparedIsOpen'
  BY <1>1, <1>3 DEF RowInv, PreparedIsOpen, Accept
<1>11. AcceptedIsCurrent'
  <2>. SUFFICES ASSUME NEW u \in Tasks, accepted'[u] # 0
                PROVE  AcceptedIsCurrent!(u)!2'
    BY DEF AcceptedIsCurrent
  <2>1. CASE u = t
    BY <1>1, <1>3, <1>4, <1>5, <2>1 DEF Accept, TypeOK
  <2>2. CASE u # t
    <3>1. accepted'[u] = accepted[u]
      BY <2>2 DEF Accept, TypeOK
    <3>2. accepted[u] = request[u] /\ request[u] # 0 /\ taskStatus[u] = "machine_accepted"
      BY <3>1 DEF RowInv, AcceptedIsCurrent
    <3>. QED
      BY <1>6, <1>7, <2>2, <3>1, <3>2 DEF RowInv, AcceptedIsCurrent, Accept
  <2>. QED
    BY <2>1, <2>2
<1>. QED
  BY <1>2, <1>8, <1>9, <1>10, <1>11 DEF RowInv

(* An invalidation reaches the changed tasks and everything behind them.   *)
LEMMA AffectedClosed ==
  ASSUME NEW changed \in SUBSET Tasks
  PROVE  /\ Affected[changed] \subseteq Tasks
         /\ changed \subseteq Affected[changed]
         /\ Dependents(Affected[changed]) \subseteq Affected[changed]
<1>. DEFINE Closed(S) == changed \subseteq S /\ Dependents(S) \subseteq S
<1>1. Affected[changed] = {t \in Tasks : \A S \in SUBSET Tasks : Closed(S) => t \in S}
  BY DEF Affected
<1>2. ASSUME NEW t \in Dependents(Affected[changed]), NEW S \in SUBSET Tasks, Closed(S)
      PROVE  t \in S
  <2>1. Affected[changed] \subseteq S
    BY <1>1, <1>2
  <2>2. t \in Dependents(S)
    BY <1>2, <2>1 DEF Dependents
  <2>. QED
    BY <1>2, <2>2
<1>3. Dependents(Affected[changed]) \subseteq Tasks
  BY DEF Dependents
<1>. QED
  BY <1>1, <1>2, <1>3

LEMMA InvalidateRow ==
  ASSUME TypeOK, RowInv, NEW changed \in SUBSET Tasks, Invalidate(changed)
  PROVE  RowInv'
<1>. DEFINE hit == Affected[changed]
<1>1. \A q \in Requests : /\ attempt'[q].status = attempt[q].status
                          /\ attempt'[q].epoch = attempt[q].epoch
                          /\ attempt'[q].outbox = attempt[q].outbox
                          /\ attempt'[q].invalidated =
                               ((q[1] \in hit /\ request[q[1]] = q[2]) \/ attempt[q].invalidated)
                          /\ ~(q[1] \in hit /\ request[q[1]] = q[2]) => attempt'[q] = attempt[q]
  BY DEF Invalidate, TypeOK, AttemptRecord
<1>2. \A t \in Tasks : request[t] # 0 =>
        /\ Latest(t)'.status = Latest(t).status /\ Latest(t)'.epoch = Latest(t).epoch
        /\ Latest(t)'.invalidated = (t \in hit \/ Latest(t).invalidated)
        /\ Latest(t).epoch \in Nat
  <2>. TAKE t \in Tasks
  <2>1. HAVE request[t] # 0
  <2>. DEFINE q == <<t, request[t]>>
  <2>2. q \in Requests /\ q[1] = t /\ q[2] = request[t]
    BY <2>1, AuthorizationAssumption DEF Requests, TypeOK
  <2>3. Latest(t) = attempt[q] /\ Latest(t)' = attempt'[q] /\ attempt[q].epoch \in Nat
    BY <2>2 DEF Latest, Invalidate, TypeOK, AttemptRecord
  <2>. HIDE DEF q
  <2>. QED
    BY <1>1, <2>2, <2>3
<1>3. AttemptsInOrder'
  BY <1>1, RequestPair, AuthorizationAssumption DEF RowInv, AttemptsInOrder, Invalidate, TypeOK
<1>4. LatestInStep'
  <2>. SUFFICES ASSUME NEW t \in Tasks, request[t] # 0 PROVE FollowsRequest(t)'
    BY DEF LatestInStep, Invalidate
  <2>1. CASE t \in hit
    <3>1. Latest(t).status \in Final /\ epoch'[t] = epoch[t] + 1 /\ epoch[t] \in Nat
          /\ Latest(t).epoch <= epoch[t]
      BY <1>2, <2>1 DEF Invalidate, Reconciled, RowInv, LatestInStep, FollowsRequest, TypeOK
    <3>2. Final \cap Live = {}
      BY DEF Final, Retryable, Live
    <3>3. Latest(t)'.status \notin Live /\ Latest(t)'.epoch < epoch'[t]
      BY <1>2, <3>1, <3>2
    <3>. QED
      BY <1>2, <2>1, <3>1, <3>3 DEF FollowsRequest
  <2>2. CASE t \notin hit
    BY <1>2, <2>2 DEF Invalidate, RowInv, LatestInStep, FollowsRequest
  <2>. QED
    BY <2>1, <2>2
<1>5. PreparedIsOpen'
  BY <1>1 DEF RowInv, PreparedIsOpen
<1>6. AcceptedIsCurrent'
  <2>. SUFFICES ASSUME NEW t \in Tasks, accepted'[t] # 0
                PROVE  AcceptedIsCurrent!(t)!2'
    BY DEF AcceptedIsCurrent
  <2>1. t \notin hit /\ accepted'[t] = accepted[t]
    BY DEF Invalidate
  <2>2. accepted[t] = request[t] /\ request[t] # 0
    BY <2>1 DEF RowInv, AcceptedIsCurrent
  <2>. QED
    BY <1>2, <2>1, <2>2 DEF RowInv, AcceptedIsCurrent, Invalidate
<1>. QED
  BY <1>3, <1>4, <1>5, <1>6 DEF RowInv

(* Every operation keeps the rows in step with their requests.             *)
LEMMA RowStep ==
  ASSUME TypeOK, RowInv, [Next]_vars
  PROVE  RowInv'
<1>1. ASSUME NEW r \in Requests, request[r[1]] >= r[2], RequestNext(r) PROVE RowInv'
  <2>r. r[1] \in Tasks /\ r[2] \in 1..MaxAttempts /\ r = <<r[1], r[2]>>
        /\ attempt[r] \in AttemptRecord
    BY RequestPair DEF TypeOK
  <2>a. Fence(r) /\ attempt[r].status # "machine_accepted" => accepted[r[1]] = 0
    BY <2>r DEF RowInv, AcceptedIsCurrent, Fence, Latest
  <2>1. CASE MarkSending(r)
    <3>1. accepted[r[1]] = 0
      BY <2>1, <2>a DEF MarkSending, Unsent, RowInv, PreparedIsOpen
    <3>2. /\ attempt'[r].status = "submitted" /\ attempt'[r].outbox = "sending"
          /\ attempt'[r].epoch = attempt[r].epoch
          /\ attempt'[r].invalidated = attempt[r].invalidated
          /\ \A q \in Requests : q # r => attempt'[q] = attempt[q]
      BY <2>1 DEF MarkSending, TypeOK, AttemptRecord
    <3>. QED
      BY <2>1, <3>1, <3>2, StatusStep DEF MarkSending
  <2>2. ASSUME NEW s \in Reports, Observe(r, s) PROVE RowInv'
    <3>1. accepted[r[1]] = 0
      BY <2>2, <2>a DEF Observe, Reportable, Live
    <3>2. /\ attempt'[r].status = s
          /\ attempt'[r].outbox = IF s = "unknown" THEN attempt[r].outbox ELSE "observed"
          /\ attempt'[r].epoch = attempt[r].epoch
          /\ attempt'[r].invalidated = attempt[r].invalidated
          /\ \A q \in Requests : q # r => attempt'[q] = attempt[q]
      BY <2>2 DEF Observe, TypeOK, AttemptRecord
    <3>3. attempt'[r].outbox = "prepared" => attempt'[r].status = "unknown"
      BY <3>2
    <3>. QED
      BY <2>2, <3>1, <3>2, <3>3, StatusStep DEF Observe
  <2>3. CASE Accept(r)
    BY <2>3, AcceptRow
  <2>4. CASE Reject(r)
    <3>1. accepted[r[1]] = 0 /\ attempt[r].outbox # "prepared"
      BY <2>4, <2>a DEF Reject, RowInv, PreparedIsOpen
    <3>2. /\ attempt'[r].status = "rejected" /\ attempt'[r].outbox = attempt[r].outbox
          /\ attempt'[r].epoch = attempt[r].epoch
          /\ attempt'[r].invalidated = attempt[r].invalidated
          /\ \A q \in Requests : q # r => attempt'[q] = attempt[q]
      BY <2>4 DEF Reject, TypeOK, AttemptRecord
    <3>. QED
      BY <2>4, <3>1, <3>2, StatusStep DEF Reject
  <2>5. ASSUME LeaseExpires(r) \/ RenewPrepared(r) \/ SettleUnknown(r)
                 \/ \E units \in 0..Worst[r[1]] : Settle(r, units)
        PROVE  RowInv'
    <3>1. /\ attempt'[r].status = attempt[r].status /\ attempt'[r].outbox = attempt[r].outbox
          /\ attempt'[r].epoch = attempt[r].epoch
          /\ attempt'[r].invalidated = attempt[r].invalidated
          /\ \A q \in Requests : q # r => attempt'[q] = attempt[q]
      BY <2>5 DEF LeaseExpires, RenewPrepared, SettleUnknown, Settle, TypeOK, AttemptRecord
    <3>2. UNCHANGED rowVars
      BY <2>5 DEF LeaseExpires, RenewPrepared, SettleUnknown, Settle
    <3>. QED
      BY <1>1, <3>1, <3>2, QuietStep
  <2>. QED
    BY <1>1, <2>1, <2>2, <2>3, <2>4, <2>5 DEF RequestNext
<1>2. ASSUME NEW t \in Tasks, ParkForRepair(t) PROVE RowInv'
  BY <1>2, ParkingStep DEF ParkForRepair, TypeOK
<1>3. ASSUME NEW e \in Executions, ReleaseParked(e) PROVE RowInv'
  BY <1>3, ParkingStep DEF ReleaseParked, TypeOK
<1>4. CASE OperatorNext \/ UNCHANGED vars
            \/ \E units \in ForecastInputs : RecordForecast(units)
  <2>1. UNCHANGED <<rowVars, attempt>>
    BY <1>4 DEF OperatorNext, Pause, Hold, Revoke, AuthorizationLapses, vars, RecordForecast
  <2>. QED
    BY <2>1, ParkingStep DEF rowVars
<1>. QED
  BY <1>1, <1>2, <1>3, <1>4, ClaimRow, InvalidateRow DEF Next

LEMMA InitRows ==
  ASSUME Init
  PROVE  RowInv
BY AuthorizationAssumption DEF Init, RowInv, AttemptsInOrder, LatestInStep, PreparedIsOpen,
   AcceptedIsCurrent, NoAttempt, Live, Requests

(* What a row relies on is the verdict on its current, valid request; no   *)
(* late report, stale sender or repair replaces it.                        *)
THEOREM RowsCorrect == Spec => []RowInv
<1>1. Init => RowInv
  BY InitRows
<1>2. TypeOK /\ RowInv /\ [Next]_vars => RowInv'
  BY RowStep
<1>. QED
  BY <1>1, <1>2, TypeCorrect, PTL DEF Spec

LEMMA RowsReachable ==
  ASSUME TypeOK, RowInv
  PROVE  LiveIsReachable
<1>. SUFFICES ASSUME NEW r \in Requests, attempt[r].status \in Live
              PROVE  Fence(r) /\ taskStatus[r[1]] = attempt[r].status
  BY DEF LiveIsReachable
<1>1. r[1] \in Tasks /\ r[2] \in 1..MaxAttempts /\ r = <<r[1], r[2]>>
  BY RequestPair
<1>2. Live \cap Final = {} /\ NoAttempt.status \notin Live
  BY DEF Live, Final, Retryable, NoAttempt
<1>3. request[r[1]] = r[2]
  BY <1>1, <1>2 DEF RowInv, AttemptsInOrder, TypeOK
<1>4. Latest(r[1]) = attempt[r] /\ request[r[1]] # 0
  BY <1>1, <1>3 DEF Latest
<1>5. FollowsRequest(r[1])
  BY <1>1, <1>4 DEF RowInv, LatestInStep
<1>. QED
  BY <1>2, <1>3, <1>4, <1>5 DEF FollowsRequest, Fence

(* No work is lost: an open attempt is current and shows in its row.       *)
THEOREM LiveReachable == Spec => []LiveIsReachable
<1>1. TypeOK /\ RowInv => LiveIsReachable
  BY RowsReachable
<1>. QED
  BY <1>1, TypeCorrect, RowsCorrect, PTL

(* Every accepted report belongs to the current, valid request of its row. *)
COROLLARY AcceptedCurrent == Spec => []AcceptedIsCurrent
<1>1. RowInv => AcceptedIsCurrent
  BY DEF RowInv
<1>. QED
  BY <1>1, RowsCorrect, PTL

(* Both together: rows and requests never part.                            *)
COROLLARY RowsFollow == Spec => []RowsFollowRequests
BY LiveReachable, AcceptedCurrent, PTL DEF RowsFollowRequests

----------------------------------------------------------------------------
(* Claims alone start work, verdicts and invalidations alone move inputs.  *)

LEMMA OnlyClaimStarts ==
  ASSUME TypeOK, RowInv, [Next]_vars, \A t \in Tasks : ~Claim(t)
  PROVE  /\ UNCHANGED <<request, round, frames>>
         /\ \A q \in Requests : /\ attempt'[q].status \in Live => attempt[q].status \in Live
                                /\ attempt'[q].round = attempt[q].round
<1>1. ASSUME NEW r \in Requests, RequestNext(r)
      PROVE  /\ UNCHANGED <<request, round, frames>>
             /\ \A q \in Requests : /\ attempt'[q].status \in Live => attempt[q].status \in Live
                                    /\ attempt'[q].round = attempt[q].round
  <2>1. CASE MarkSending(r)
    <3>1. attempt[r].status \in Live
      BY <2>1 DEF MarkSending, Unsent, RowInv, PreparedIsOpen, Live
    <3>. QED
      BY <2>1, <3>1 DEF MarkSending, TypeOK, AttemptRecord, rowVars, moneyVars
  <2>2. ASSUME NEW s \in Reports, Observe(r, s)
        PROVE  /\ UNCHANGED <<request, round, frames>>
               /\ \A q \in Requests : /\ attempt'[q].status \in Live => attempt[q].status \in Live
                                      /\ attempt'[q].round = attempt[q].round
    <3>1. attempt[r].status \in Live
      BY <2>2 DEF Observe, Reportable
    <3>. QED
      BY <2>2, <3>1 DEF Observe, TypeOK, AttemptRecord, rowVars, moneyVars
  <2>3. CASE Accept(r) \/ Reject(r)
    <3>1. attempt[r].status \in Live
      BY <2>3 DEF Accept, Reject, Live
    <3>. QED
      BY <2>3, <3>1 DEF Accept, Reject, TypeOK, AttemptRecord, rowVars, moneyVars
  <2>4. CASE LeaseExpires(r) \/ RenewPrepared(r) \/ SettleUnknown(r)
               \/ \E units \in 0..Worst[r[1]] : Settle(r, units)
    BY <2>4 DEF LeaseExpires, RenewPrepared, Unsent, SettleUnknown, Settle, TypeOK, AttemptRecord,
                rowVars, moneyVars
  <2>. QED
    BY <1>1, <2>1, <2>2, <2>3, <2>4 DEF RequestNext
<1>2. ASSUME NEW changed \in SUBSET Tasks, Invalidate(changed)
      PROVE  /\ UNCHANGED <<request, round, frames>>
             /\ \A q \in Requests : /\ attempt'[q].status \in Live => attempt[q].status \in Live
                                    /\ attempt'[q].round = attempt[q].round
  BY <1>2 DEF Invalidate, TypeOK, AttemptRecord, moneyVars
<1>3. CASE OperatorNext \/ UNCHANGED vars
            \/ (\E units \in ForecastInputs : RecordForecast(units))
            \/ (\E t \in Tasks : ParkForRepair(t)) \/ (\E e \in Executions : ReleaseParked(e))
  BY <1>3 DEF OperatorNext, Pause, Hold, Revoke, AuthorizationLapses, vars, RecordForecast,
              ParkForRepair, ReleaseParked, rowVars, moneyVars
<1>. QED
  BY <1>1, <1>2, <1>3 DEF Next

LEMMA OnlyVerdictsMoveInputs ==
  ASSUME [Next]_vars,
         \A r \in Requests : ~Accept(r),
         \A changed \in SUBSET Tasks : ~Invalidate(changed)
  PROVE  UNCHANGED <<accepted, remaining>>
BY DEF Next, Claim, RequestNext, MarkSending, Observe, Reject, LeaseExpires, RenewPrepared,
       SettleUnknown, Settle, RecordForecast, ParkForRepair, ReleaseParked, OperatorNext,
       Pause, Hold, Revoke, AuthorizationLapses, vars, rowVars

(* The counter of open parents is exact, and no task that is under way or  *)
(* accepted has an unaccepted parent, whatever is invalidated upstream.    *)
InputsInv == RemainingCounts /\ InputsAccepted

LEMMA ParentsFinite ==
  ASSUME NEW t \in Tasks
  PROVE  IsFiniteSet(Parents[t]) /\ IsFiniteSet(Unaccepted(t))
<1>1. IsFiniteSet(Parents[t])
  BY PlanAssumption, FS_Subset
<1>. QED
  BY <1>1, FS_Subset DEF Unaccepted

LEMMA ClaimInputs ==
  ASSUME TypeOK, InputsInv, NEW t \in Tasks, Claim(t)
  PROVE  InputsInv'
<1>1. UNCHANGED <<accepted, remaining>> /\ remaining[t] = 0
  BY DEF Claim, Admitted, Claimable
<1>2. RemainingCounts'
  BY <1>1 DEF InputsInv, RemainingCounts, Unaccepted
<1>3. \A p \in Parents[t] : accepted[p] # 0
  <2>1. Cardinality(Unaccepted(t)) = 0
    BY <1>1 DEF InputsInv, RemainingCounts
  <2>2. Unaccepted(t) = {}
    BY <2>1, ParentsFinite, FS_EmptySet
  <2>. QED
    BY <2>2 DEF Unaccepted
<1>4. \A u \in Tasks : u # t => Latest(u)' = Latest(u) /\ request'[u] = request[u]
  <2>. TAKE u \in Tasks
  <2>1. HAVE u # t
  <2>2. request'[u] = request[u]
    BY <2>1 DEF Claim, TypeOK
  <2>3. <<u, request[u]>> # <<t, request[t] + 1>>
    BY <2>1
  <2>. QED
    BY <2>2, <2>3 DEF Latest, Claim, TypeOK
<1>5. InputsAccepted'
  BY <1>1, <1>3, <1>4 DEF InputsInv, InputsAccepted
<1>. QED
  BY <1>2, <1>5 DEF InputsInv

LEMMA AcceptInputs ==
  ASSUME TypeOK, RowInv, InputsInv, NEW r \in Requests, Accept(r)
  PROVE  InputsInv'
<1>. DEFINE t == r[1]
<1>1. t \in Tasks /\ r[2] \in 1..MaxAttempts /\ r = <<t, r[2]>> /\ request[t] = r[2]
      /\ attempt[r].status = "produced" /\ Latest(t) = attempt[r]
  BY RequestPair DEF Accept, Fence, Latest
<1>2. accepted[t] = 0 /\ accepted'[t] # 0 /\ \A u \in Tasks : u # t => accepted'[u] = accepted[u]
  <2>1. accepted[t] = 0
    BY AcceptRow
  <2>2. accepted' = [accepted EXCEPT ![t] = r[2]]
    BY DEF Accept
  <2>. QED
    BY <1>1, <2>1, <2>2 DEF TypeOK
<1>3. RemainingCounts'
  <2>. SUFFICES ASSUME NEW u \in Tasks PROVE remaining'[u] = Cardinality(Unaccepted(u)')
    BY DEF RemainingCounts
  <2>0. Parents[u] \subseteq Tasks
    BY PlanAssumption
  <2>1. CASE t \in Parents[u]
    <3>1. t \in Unaccepted(u) /\ Unaccepted(u)' = Unaccepted(u) \ {t}
      BY <1>2, <2>0, <2>1 DEF Unaccepted
    <3>2. Cardinality(Unaccepted(u)') = Cardinality(Unaccepted(u)) - 1
      BY <3>1, ParentsFinite, FS_RemoveElement
    <3>. QED
      BY <2>1, <3>2 DEF InputsInv, RemainingCounts, Accept
  <2>2. CASE t \notin Parents[u]
    <3>1. Unaccepted(u)' = Unaccepted(u)
      BY <1>2, <2>0, <2>2 DEF Unaccepted
    <3>. QED
      BY <2>2, <3>1 DEF InputsInv, RemainingCounts, Accept
  <2>. QED
    BY <2>1, <2>2
<1>4. InputsAccepted'
  <2>. SUFFICES ASSUME NEW u \in Tasks,
                       (accepted[u] # 0 \/ (request[u] # 0 /\ Latest(u).status \in Live))'
                PROVE  \A p \in Parents[u] : accepted'[p] # 0
    BY DEF InputsAccepted
  <2>0. \A p \in Parents[u] : accepted[p] # 0 => accepted'[p] # 0
    BY <1>2, PlanAssumption
  <2>1. CASE u = t
    <3>1. request[u] # 0 /\ Latest(u).status \in Live
      BY <1>1, <2>1 DEF Live
    <3>. QED
      BY <2>0, <3>1 DEF InputsInv, InputsAccepted
  <2>2. CASE u # t
    <3>1. accepted'[u] = accepted[u] /\ request'[u] = request[u]
      BY <1>2, <2>2 DEF Accept
    <3>2. Latest(u)' = Latest(u) \/ request[u] = 0
      <4>1. CASE request[u] # 0
        <5>1. <<u, request[u]>> \in Requests /\ <<u, request[u]>> # r
          BY <1>1, <2>2, <4>1, AuthorizationAssumption DEF Requests, TypeOK
        <5>. QED
          BY <5>1 DEF Latest, Accept, TypeOK
      <4>. QED
        BY <4>1
    <3>. QED
      BY <2>0, <3>1, <3>2 DEF InputsInv, InputsAccepted
  <2>. QED
    BY <2>1, <2>2
<1>. QED
  BY <1>3, <1>4 DEF InputsInv

LEMMA InvalidateInputs ==
  ASSUME TypeOK, RowInv, InputsInv, NEW changed \in SUBSET Tasks, Invalidate(changed)
  PROVE  InputsInv'
<1>. DEFINE hit == Affected[changed]
<1>1. /\ hit \subseteq Tasks
      /\ \A t \in Tasks : t \notin hit => Parents[t] \cap hit = {}
  BY AffectedClosed DEF Dependents
<1>2. \A t \in Tasks : accepted'[t] = IF t \in hit THEN 0 ELSE accepted[t]
  BY DEF Invalidate
<1>3. \A t \in Tasks : t \notin hit => \A p \in Parents[t] : accepted'[p] = accepted[p]
  BY <1>1, <1>2, PlanAssumption
<1>4. RemainingCounts'
  <2>. SUFFICES ASSUME NEW t \in Tasks PROVE remaining'[t] = Cardinality(Unaccepted(t)')
    BY DEF RemainingCounts
  <2>1. CASE t \in hit
    BY <2>1 DEF Invalidate, Unaccepted
  <2>2. CASE t \notin hit
    <3>1. Unaccepted(t)' = Unaccepted(t)
      BY <1>3, <2>2 DEF Unaccepted
    <3>. QED
      BY <2>2, <3>1 DEF InputsInv, RemainingCounts, Invalidate
  <2>. QED
    BY <2>1, <2>2
<1>5. InputsAccepted'
  <2>. SUFFICES ASSUME NEW t \in Tasks,
                       (accepted[t] # 0 \/ (request[t] # 0 /\ Latest(t).status \in Live))'
                PROVE  \A p \in Parents[t] : accepted'[p] # 0
    BY DEF InputsAccepted
  <2>1. request[t] # 0 => <<t, request[t]>> \in Requests
    BY AuthorizationAssumption DEF Requests, TypeOK
  <2>2. request'[t] = request[t] /\ (request[t] # 0 => Latest(t)'.status = Latest(t).status)
    BY <2>1 DEF Invalidate, Latest, TypeOK, AttemptRecord
  <2>3. t \notin hit
    <3>. SUFFICES ASSUME t \in hit PROVE FALSE
      OBVIOUS
    <3>1. request[t] # 0 /\ Latest(t).status \in Live
      BY <1>2, <2>2
    <3>2. Latest(t).status \in Final
      BY <3>1 DEF Invalidate, Reconciled
    <3>. QED
      BY <3>1, <3>2 DEF Live, Final, Retryable
  <2>4. accepted[t] # 0 \/ (request[t] # 0 /\ Latest(t).status \in Live)
    BY <1>2, <2>2, <2>3
  <2>. QED
    BY <1>3, <2>3, <2>4 DEF InputsInv, InputsAccepted
<1>. QED
  BY <1>4, <1>5 DEF InputsInv

THEOREM InputsCorrect == Spec => []InputsInv
<1>1. Init => InputsInv
  <2>. SUFFICES ASSUME Init PROVE InputsInv
    OBVIOUS
  <2>1. \A t \in Tasks : Unaccepted(t) = Parents[t]
    BY PlanAssumption DEF Init, Unaccepted
  <2>. QED
    BY <2>1 DEF Init, InputsInv, RemainingCounts, InputsAccepted
<1>2. TypeOK /\ RowInv /\ InputsInv /\ [Next]_vars => InputsInv'
  <2>. SUFFICES ASSUME TypeOK, RowInv, InputsInv, [Next]_vars,
                       \A t \in Tasks : ~Claim(t),
                       \A r \in Requests : ~Accept(r),
                       \A changed \in SUBSET Tasks : ~Invalidate(changed)
                PROVE  InputsInv'
    BY ClaimInputs, AcceptInputs, InvalidateInputs
  <2>1. UNCHANGED <<accepted, remaining, request>>
    BY OnlyClaimStarts, OnlyVerdictsMoveInputs
  <2>2. RemainingCounts'
    BY <2>1 DEF InputsInv, RemainingCounts, Unaccepted
  <2>3. InputsAccepted'
    <3>. SUFFICES ASSUME NEW t \in Tasks, request[t] # 0, Latest(t)'.status \in Live
                  PROVE  Latest(t).status \in Live
      BY <2>1 DEF InputsInv, InputsAccepted
    <3>1. <<t, request[t]>> \in Requests
      BY AuthorizationAssumption DEF Requests, TypeOK
    <3>. QED
      BY <2>1, <3>1, OnlyClaimStarts DEF Latest
  <2>. QED
    BY <2>2, <2>3 DEF InputsInv
<1>. QED
  BY <1>1, <1>2, TypeCorrect, RowsCorrect, PTL DEF Spec

(* The counter of open parents is exact, and work under way and accepted    *)
(* work rest on accepted inputs, always.                                    *)
COROLLARY InputsKept == Spec => []InputsInStep
<1>1. InputsInv => InputsInStep
  BY DEF InputsInv, InputsInStep
<1>. QED
  BY <1>1, InputsCorrect, PTL

----------------------------------------------------------------------------
(* Repair rounds: a shot's round opens only when nothing of it is open.    *)

THEOREM RoundsCorrect == Spec => []LiveInCurrentRound
<1>1. Init => LiveInCurrentRound
  BY DEF Init, LiveInCurrentRound, NoAttempt, Live
<1>2. TypeOK /\ RowInv /\ LiveInCurrentRound /\ [Next]_vars => LiveInCurrentRound'
  <2>. SUFFICES ASSUME TypeOK, RowInv, LiveInCurrentRound, [Next]_vars
                PROVE  LiveInCurrentRound'
    OBVIOUS
  <2>1. ASSUME NEW t \in Tasks, Claim(t) PROVE LiveInCurrentRound'
    <3>. DEFINE new == <<t, request[t] + 1>>
    <3>1. new \in Requests /\ request[t] \in Nat /\ request[t] + 1 # request[t]
      BY <2>1, AuthorizationAssumption DEF Claim, Admitted, Claimable, TypeOK, Requests
    <3>2. \A q \in Requests : q # new => attempt'[q] = attempt[q]
      BY <2>1 DEF Claim, TypeOK
    <3>3. FramesOf[t] > 0 => attempt'[new].round = ClaimRound(t)
      BY <2>1, <3>1 DEF Claim, TypeOK, NoAttempt
    <3>4. /\ round'[ShotOf[t]] = ClaimRound(t)
          /\ \A s \in Shots : s # ShotOf[t] => round'[s] = round[s]
      BY <2>1, PlanAssumption DEF Claim, TypeOK
    <3>5. ASSUME NEW q \in Requests, q # new, attempt[q].status \in Live, FramesOf[q[1]] > 0,
                 ShotOf[q[1]] = ShotOf[t]
          PROVE  ~OpensRound(t)
      <4>. SUFFICES ASSUME OpensRound(t) PROVE FALSE
        OBVIOUS
      <4>1. q[1] \in Tasks /\ q = <<q[1], q[2]>> /\ q[2] \in Nat
        BY RequestPair, AuthorizationAssumption
      <4>2. attempt[q].round = round[ShotOf[t]]
        BY <3>5 DEF LiveInCurrentRound
      <4>3. ~SiblingLive(t)
        BY <2>1 DEF Claim, Admitted, RepairAdmits
      <4>4. q[1] = t
        BY <3>5, <4>2, <4>3 DEF SiblingLive
      <4>5. q[2] = request[t]
        BY <3>1, <3>5, <4>1, <4>4 DEF RowInv, AttemptsInOrder, NoAttempt, Live
      <4>6. Latest(t) = attempt[q] /\ request[t] # 0
        BY <4>1, <4>4, <4>5 DEF Latest, OpensRound
      <4>7. attempt[q].status \in Final
        BY <2>1, <4>6 DEF Claim, Admitted, Claimable, RowInv, LatestInStep, FollowsRequest, Final
      <4>. QED
        BY <3>5, <4>7 DEF Live, Final, Retryable
    <3>6. SUFFICES ASSUME NEW q \in Requests, attempt'[q].status \in Live, FramesOf[q[1]] > 0
                   PROVE  attempt'[q].round = round'[ShotOf[q[1]]]
      BY DEF LiveInCurrentRound
    <3>7. CASE q = new
      BY <3>3, <3>4, <3>6, <3>7
    <3>8. CASE q # new /\ ShotOf[q[1]] = ShotOf[t]
      <4>1. ~OpensRound(t)
        BY <3>2, <3>5, <3>6, <3>8
      <4>2. round'[ShotOf[t]] = round[ShotOf[t]]
        BY <3>4, <4>1 DEF ClaimRound
      <4>. QED
        BY <3>2, <3>6, <3>8, <4>2 DEF LiveInCurrentRound
    <3>9. CASE q # new /\ ShotOf[q[1]] # ShotOf[t]
      <4>1. ShotOf[q[1]] \in Shots
        BY RequestPair, PlanAssumption
      <4>. QED
        BY <3>2, <3>4, <3>6, <3>9, <4>1 DEF LiveInCurrentRound
    <3>. QED
      BY <3>7, <3>8, <3>9
  <2>2. CASE \A t \in Tasks : ~Claim(t)
    BY <2>2, OnlyClaimStarts DEF LiveInCurrentRound
  <2>. QED
    BY <2>1, <2>2
<1>. QED
  BY <1>1, <1>2, TypeCorrect, RowsCorrect, PTL DEF Spec

----------------------------------------------------------------------------
(* Money.                                                                  *)

LEMMA OnlyClaimsAndBillsMoveMoney ==
  ASSUME [Next]_vars,
         \A t \in Tasks : ~Claim(t),
         \A r \in Requests : \A units \in 0..Worst[r[1]] : ~Settle(r, units)
  PROVE  UNCHANGED moneyVars
BY DEF Next, RequestNext, MarkSending, Observe, Accept, Reject, LeaseExpires, RenewPrepared,
       SettleUnknown, RecordForecast, ParkForRepair, ReleaseParked, Invalidate, OperatorNext,
       Pause, Hold, Revoke, AuthorizationLapses, vars

(* The cleanup reserve is never touched, no route or frame limit is passed. *)
THEOREM AuthorizationKept == Spec => []WithinAuthorization
<1>1. Init => WithinAuthorization
  BY AuthorizationAssumption DEF Init, WithinAuthorization
<1>2. TypeOK /\ WithinAuthorization /\ [Next]_vars => WithinAuthorization'
  <2>. SUFFICES ASSUME TypeOK, WithinAuthorization, [Next]_vars PROVE WithinAuthorization'
    OBVIOUS
  <2>1. ASSUME NEW t \in Tasks, Claim(t) PROVE WithinAuthorization'
    <3>1. /\ RouteOf[t] \in Routes /\ Worst[t] \in Nat /\ FramesOf[t] \in Nat
          /\ TotalUnits \in Nat /\ CleanupUnits \in Nat
      BY PlanAssumption, AuthorizationAssumption
    <3>. QED
      BY <2>1, <3>1 DEF Claim, Admitted, WithinBudget, WithinAuthorization, TypeOK
  <2>2. ASSUME NEW r \in Requests, NEW units \in 0..Worst[r[1]], Settle(r, units)
        PROVE  WithinAuthorization'
    <3>1. /\ RouteOf[r[1]] \in Routes /\ Worst[r[1]] \in Nat /\ units \in Nat
          /\ units - Worst[r[1]] <= 0 /\ units - Worst[r[1]] \in Int
          /\ TotalUnits \in Nat /\ CleanupUnits \in Nat /\ RouteLimit \in [Routes -> Nat]
      BY RequestPair, PlanAssumption, AuthorizationAssumption
    <3>2. used' + CleanupUnits <= TotalUnits /\ frames' <= MaxFrames
      BY <2>2, <3>1 DEF Settle, WithinAuthorization, TypeOK
    <3>3. \A rt \in Routes : routeUsed'[rt] <= routeUsed[rt]
      BY <2>2, <3>1 DEF Settle, TypeOK
    <3>4. routeUsed' \in [Routes -> Int]
      BY <2>2, <3>1 DEF Settle, TypeOK
    <3>. QED
      BY <3>1, <3>2, <3>3, <3>4 DEF WithinAuthorization, TypeOK
  <2>3. CASE UNCHANGED moneyVars
    BY <2>3 DEF WithinAuthorization, moneyVars
  <2>. QED
    BY <2>1, <2>2, <2>3, OnlyClaimsAndBillsMoveMoney
<1>. QED
  BY <1>1, <1>2, TypeCorrect, PTL DEF Spec

(* A recorded forecast keeps in step with the costs it was made from.      *)
THEOREM ForecastKept == Spec => []ForecastInStep
<1>1. Init => ForecastInStep
  BY DEF Init, ForecastInStep, NoForecast
<1>2. TypeOK /\ ForecastInStep /\ [Next]_vars => ForecastInStep'
  <2>. SUFFICES ASSUME TypeOK, ForecastInStep, [Next]_vars PROVE ForecastInStep'
    OBVIOUS
  <2>1. ASSUME NEW t \in Tasks, Claim(t) PROVE ForecastInStep'
    BY <2>1 DEF Claim, Reforecast, ForecastInStep, Affordable
  <2>2. ASSUME NEW r \in Requests, NEW units \in 0..Worst[r[1]], Settle(r, units)
        PROVE  ForecastInStep'
    BY <2>2 DEF Settle, Reforecast, ForecastInStep, Affordable
  <2>3. ASSUME NEW units \in ForecastInputs, RecordForecast(units) PROVE ForecastInStep'
    BY <2>3 DEF RecordForecast, ForecastInStep, Affordable, moneyVars
  <2>4. ASSUME NEW changed \in SUBSET Tasks, Invalidate(changed) PROVE ForecastInStep'
    BY <2>4 DEF Invalidate, ForecastInStep, NoForecast
  <2>5. CASE UNCHANGED <<forecast, used, costRevision>>
    BY <2>5 DEF ForecastInStep, Affordable
  <2>6. ASSUME \A t \in Tasks : ~Claim(t),
               \A r \in Requests : \A units \in 0..Worst[r[1]] : ~Settle(r, units),
               \A units \in ForecastInputs : ~RecordForecast(units),
               \A changed \in SUBSET Tasks : ~Invalidate(changed)
        PROVE  UNCHANGED <<forecast, used, costRevision>>
    BY <2>6 DEF Next, RequestNext, MarkSending, Observe, Accept, Reject, LeaseExpires,
       RenewPrepared, SettleUnknown, ParkForRepair, ReleaseParked, OperatorNext, Pause, Hold,
       Revoke, AuthorizationLapses, vars, moneyVars
  <2>. QED
    BY <2>1, <2>2, <2>3, <2>4, <2>5, <2>6
<1>. QED
  BY <1>1, <1>2, TypeCorrect, PTL DEF Spec

(* The limits hold and the forecast is current, always.                    *)
COROLLARY SolventAlways == Spec => []Solvent
BY AuthorizationKept, ForecastKept, PTL DEF Solvent

----------------------------------------------------------------------------
(* The store implements the abstract order of work.                        *)

LEMMA OrderClaim ==
  ASSUME TypeOK, RowInv, InputsInv, NEW t \in Tasks, Claim(t)
  PROVE  Order!Start(t)
<1>1. /\ request'[t] = request[t] + 1 /\ request[t] \in Nat /\ accepted[t] = 0
      /\ UNCHANGED accepted /\ remaining[t] = 0
      /\ <<t, request[t] + 1>> \in Requests
  BY AuthorizationAssumption DEF Claim, Admitted, Claimable, TypeOK, Requests
<1>2. Latest(t)'.status = "reserved"
  BY <1>1 DEF Latest, Claim, TypeOK, NoAttempt
<1>3. Phase(t) = "idle"
  <2>1. request[t] # 0 => Latest(t).status \in Final
    BY DEF Claim, Admitted, Claimable, RowInv, LatestInStep, FollowsRequest, Final
  <2>. QED
    BY <1>1, <2>1 DEF Phase, Live, Final, Retryable
<1>4. Phase(t)' = "open"
  BY <1>1, <1>2 DEF Phase, Live
<1>5. \A u \in Tasks : u # t => Phase(u)' = Phase(u)
  <2>. TAKE u \in Tasks
  <2>1. HAVE u # t
  <2>2. request'[u] = request[u] /\ <<u, request[u]>> # <<t, request[t] + 1>>
    BY <2>1 DEF Claim, TypeOK
  <2>3. Latest(u)' = Latest(u)
    BY <2>2 DEF Latest, Claim, TypeOK
  <2>. QED
    BY <1>1, <2>2, <2>3 DEF Phase
<1>6. \A p \in Parents[t] : p \in Tasks /\ Phase(p) = "done"
  <2>1. Cardinality(Unaccepted(t)) = 0
    BY <1>1 DEF InputsInv, RemainingCounts
  <2>2. Unaccepted(t) = {}
    BY <2>1, ParentsFinite, FS_EmptySet
  <2>. QED
    BY <2>2, PlanAssumption DEF Unaccepted, Phase
<1>. QED
  BY <1>3, <1>4, <1>5, <1>6 DEF Order!Start, Order!InputsDone

\* A verdict or a report moves only its own task, and only out of "open".
LEMMA OrderReport ==
  ASSUME TypeOK, RowInv, InputsInv, NEW r \in Requests, Fence(r), accepted[r[1]] = 0,
         attempt[r].status \in Live,
         UNCHANGED request,
         \A q \in Requests : q # r => attempt'[q] = attempt[q],
         \A u \in Tasks : u # r[1] => accepted'[u] = accepted[u]
  PROVE  /\ Phase(r[1]) = "open"
         /\ \A u \in Tasks : u # r[1] => Phase(u)' = Phase(u)
         /\ request[r[1]] # 0 /\ Latest(r[1])' = attempt'[r]
<1>1. r[1] \in Tasks /\ r[2] \in 1..MaxAttempts /\ r = <<r[1], r[2]>> /\ request[r[1]] = r[2]
  BY RequestPair DEF Fence
<1>2. Latest(r[1]) = attempt[r] /\ Latest(r[1])' = attempt'[r] /\ request[r[1]] # 0
  BY <1>1 DEF Latest
<1>3. ASSUME NEW u \in Tasks, u # r[1] PROVE Phase(u)' = Phase(u)
  <2>1. CASE request[u] = 0
    BY <1>3, <2>1 DEF Phase
  <2>2. CASE request[u] # 0
    <3>1. <<u, request[u]>> \in Requests /\ <<u, request[u]>> # r
      BY <1>1, <1>3, <2>2, AuthorizationAssumption DEF Requests, TypeOK
    <3>2. Latest(u)' = Latest(u)
      BY <3>1 DEF Latest
    <3>. QED
      BY <1>3, <3>2 DEF Phase
  <2>. QED
    BY <2>1, <2>2
<1>. QED
  BY <1>2, <1>3 DEF Phase

LEMMA OrderInvalidate ==
  ASSUME TypeOK, RowInv, NEW changed \in SUBSET Tasks, Invalidate(changed)
  PROVE  Order!Withdraw(Affected[changed])
<1>. DEFINE hit == Affected[changed]
<1>1. \A t \in Tasks : request[t] # 0 => Latest(t)'.status = Latest(t).status
  <2>. TAKE t \in Tasks
  <2>1. HAVE request[t] # 0
  <2>2. <<t, request[t]>> \in Requests
    BY <2>1, AuthorizationAssumption DEF Requests, TypeOK
  <2>. QED
    BY <2>2 DEF Latest, Invalidate, TypeOK, AttemptRecord
<1>2. \A t \in Tasks : t \notin hit => Phase(t)' = Phase(t)
  BY <1>1 DEF Phase, Invalidate
<1>3. \A t \in hit : t \in Tasks /\ Phase(t) # "open" /\ Phase(t)' = "idle"
  <2>. TAKE t \in hit
  <2>1. t \in Tasks
    BY AffectedClosed
  <2>2. request[t] # 0 => Latest(t).status \notin Live
    BY DEF Invalidate, Reconciled, Live, Final, Retryable
  <2>. QED
    BY <1>1, <2>1, <2>2 DEF Phase, Invalidate
<1>4. \A t \in Tasks : Parents[t] \cap hit # {} => t \in hit
  BY AffectedClosed DEF Dependents
<1>. QED
  BY <1>2, <1>3, <1>4 DEF Order!Withdraw

(* Every claim starts a task on done inputs, every verdict moves that task *)
(* only, and every invalidation withdraws a closed set that is at rest.    *)
THEOREM OrderImplemented == Spec => ImplementsOrder
<1>1. Init => Order!Init
  BY DEF Init, Order!Init, Phase
<1>2. TypeOK /\ RowInv /\ InputsInv /\ [Next]_vars
        => Order!Next \/ UNCHANGED [t \in Tasks |-> Phase(t)]
  <2>. SUFFICES ASSUME TypeOK, RowInv, InputsInv, [Next]_vars
                PROVE  Order!Next \/ UNCHANGED [t \in Tasks |-> Phase(t)]
    OBVIOUS
  <2>1. ASSUME NEW t \in Tasks, Claim(t) PROVE Order!Next
    BY <2>1, OrderClaim DEF Order!Next
  <2>2. ASSUME NEW changed \in SUBSET Tasks, Invalidate(changed) PROVE Order!Next
    <3>1. Affected[changed] \in SUBSET Tasks
      BY AffectedClosed
    <3>. QED
      BY <2>2, <3>1, OrderInvalidate DEF Order!Next
  <2>3. ASSUME NEW r \in Requests, request[r[1]] >= r[2], RequestNext(r)
        PROVE  Order!Next \/ UNCHANGED [t \in Tasks |-> Phase(t)]
    <3>r. r[1] \in Tasks
      BY RequestPair
    <3>a. Fence(r) /\ attempt[r].status \in Live => accepted[r[1]] = 0
      BY RequestPair DEF RowInv, AcceptedIsCurrent, Fence, Latest, Live
    <3>1. ASSUME NEW s \in Live \cup Final, Fence(r), attempt[r].status \in Live,
                 UNCHANGED <<request, accepted>>,
                 attempt'[r].status = s, \A q \in Requests : q # r => attempt'[q] = attempt[q]
          PROVE  Order!Next \/ UNCHANGED [t \in Tasks |-> Phase(t)]
      <4>1. /\ Phase(r[1]) = "open" /\ request[r[1]] # 0 /\ Latest(r[1])' = attempt'[r]
            /\ \A u \in Tasks : u # r[1] => Phase(u)' = Phase(u)
        BY <3>1, <3>a, OrderReport
      <4>2. Phase(r[1])' = IF s \in Live THEN "open" ELSE "idle"
        BY <3>1, <3>a, <4>1 DEF Phase
      <4>3. CASE s \in Live
        BY <4>1, <4>2, <4>3
      <4>4. CASE s \notin Live
        BY <3>r, <4>1, <4>2, <4>4 DEF Order!Next, Order!Stop
      <4>. QED
        BY <4>3, <4>4
    <3>2. CASE MarkSending(r)
      <4>1. attempt[r].status \in Live
        BY <3>2 DEF MarkSending, Unsent, RowInv, PreparedIsOpen, Live
      <4>2. /\ attempt'[r].status = "submitted"
            /\ \A q \in Requests : q # r => attempt'[q] = attempt[q]
        BY <3>2 DEF MarkSending, TypeOK, AttemptRecord
      <4>3. "submitted" \in Live \cup Final
        BY DEF Live
      <4>. QED
        BY <3>1, <3>2, <4>1, <4>2, <4>3 DEF MarkSending
    <3>3. ASSUME NEW s \in Reports, Observe(r, s)
          PROVE  Order!Next \/ UNCHANGED [t \in Tasks |-> Phase(t)]
      <4>1. attempt[r].status \in Live /\ s \in Live \cup Final
        BY <3>3 DEF Observe, Reportable, Reports, Live, Final, Retryable
      <4>2. /\ attempt'[r].status = s
            /\ \A q \in Requests : q # r => attempt'[q] = attempt[q]
        BY <3>3 DEF Observe, TypeOK, AttemptRecord
      <4>. QED
        BY <3>1, <3>3, <4>1, <4>2 DEF Observe
    <3>4. CASE Reject(r)
      <4>1. attempt[r].status \in Live /\ "rejected" \in Live \cup Final
        BY <3>4 DEF Reject, Live, Final, Retryable
      <4>2. /\ attempt'[r].status = "rejected"
            /\ \A q \in Requests : q # r => attempt'[q] = attempt[q]
        BY <3>4 DEF Reject, TypeOK, AttemptRecord
      <4>. QED
        BY <3>1, <3>4, <4>1, <4>2 DEF Reject
    <3>5. CASE Accept(r)
      <4>1. attempt[r].status \in Live /\ Fence(r) /\ UNCHANGED request
            /\ \A q \in Requests : q # r => attempt'[q] = attempt[q]
        BY <3>5 DEF Accept, Live, TypeOK
      <4>2. /\ accepted'[r[1]] # 0
            /\ \A u \in Tasks : u # r[1] => accepted'[u] = accepted[u]
        BY <3>5, RequestPair DEF Accept, TypeOK
      <4>3. Phase(r[1]) = "open" /\ \A u \in Tasks : u # r[1] => Phase(u)' = Phase(u)
        BY <3>a, <4>1, <4>2, OrderReport
      <4>4. Phase(r[1])' = "done"
        BY <4>2 DEF Phase
      <4>. QED
        BY <3>r, <4>3, <4>4 DEF Order!Next, Order!Complete
    <3>6. CASE LeaseExpires(r) \/ RenewPrepared(r) \/ SettleUnknown(r)
                 \/ \E units \in 0..Worst[r[1]] : Settle(r, units)
      <4>1. /\ UNCHANGED <<request, accepted>>
            /\ \A q \in Requests : attempt'[q].status = attempt[q].status
        BY <3>6 DEF LeaseExpires, RenewPrepared, Unsent, SettleUnknown, Settle, TypeOK, AttemptRecord,
                    rowVars
      <4>2. \A t \in Tasks : Phase(t)' = Phase(t)
        <5>1. \A t \in Tasks : request[t] # 0 => <<t, request[t]>> \in Requests
          BY AuthorizationAssumption DEF Requests, TypeOK
        <5>. QED
          BY <4>1, <5>1 DEF Phase, Latest
      <4>. QED
        BY <4>2
    <3>. QED
      BY <2>3, <3>2, <3>3, <3>4, <3>5, <3>6 DEF RequestNext
  <2>4. CASE UNCHANGED <<request, accepted, attempt>>
    BY <2>4 DEF Phase, Latest
  <2>5. ASSUME \/ OperatorNext \/ UNCHANGED vars
               \/ \E units \in ForecastInputs : RecordForecast(units)
               \/ \E t \in Tasks : ParkForRepair(t)
               \/ \E e \in Executions : ReleaseParked(e)
        PROVE  UNCHANGED <<request, accepted, attempt>>
    BY <2>5 DEF OperatorNext, Pause, Hold, Revoke, AuthorizationLapses, vars, RecordForecast,
                ParkForRepair, ReleaseParked, rowVars
  <2>. QED
    BY <2>1, <2>2, <2>3, <2>4, <2>5 DEF Next
<1>. QED
  BY <1>1, <1>2, TypeCorrect, RowsCorrect, InputsCorrect, PTL DEF Spec, ImplementsOrder, Order!Spec

----------------------------------------------------------------------------
(* The money of the store: its running totals are the sums of the charges,  *)
(* and it implements the abstract budget.                                   *)

LEMMA RequestsFinite == IsFiniteSet(Requests)
<1>1. IsFiniteSet(1..MaxAttempts)
  BY AuthorizationAssumption, FS_Interval
<1>. QED
  BY <1>1, PlanAssumption, FS_Product DEF Requests

(* The set of the charges that a total adds up, and its values.             *)
OfRoute(rt) == {r \in Funded : RouteOf[r[1]] = rt}

LEMMA ChargesTyped ==
  ASSUME TypeOK
  PROVE  /\ IsFiniteSet(Funded) /\ \A rt \in Routes : IsFiniteSet(OfRoute(rt))
         /\ \A r \in Requests : Cost[r] \in Nat /\ FramesOfRequest[r] \in Nat
         /\ Funded \subseteq Requests
<1>1. \A r \in Requests : r[1] \in Tasks /\ attempt[r].billed \in Nat
  BY RequestPair DEF TypeOK, AttemptRecord
<1>2. Funded \subseteq Requests /\ \A rt \in Routes : OfRoute(rt) \subseteq Requests
  BY DEF Funded, OfRoute
<1>3. \A r \in Requests : Worst[r[1]] \in Nat /\ FramesOf[r[1]] \in Nat
  BY <1>1, PlanAssumption
<1>. QED
  BY <1>1, <1>2, <1>3, RequestsFinite, FS_Subset DEF Cost, FramesOfRequest

(* What leaves the charges and the totals alone keeps the books.            *)
LEMMA LedgerQuiet ==
  ASSUME LedgerBalanced, UNCHANGED <<used, frames, routeUsed>>,
         \A q \in Requests : /\ attempt'[q].charge = attempt[q].charge
                             /\ attempt'[q].billed = attempt[q].billed
  PROVE  LedgerBalanced'
<1>1. Funded' = Funded /\ Cost' = Cost /\ FramesOfRequest' = FramesOfRequest
  BY DEF Funded, Cost, FramesOfRequest
<1>2. \A rt : {r \in Funded' : RouteOf[r[1]] = rt} = {r \in Funded : RouteOf[r[1]] = rt}
  BY <1>1
<1>. QED
  BY <1>1, <1>2 DEF LedgerBalanced

(* A claim adds one charge at its worst case.                               *)
LEMMA LedgerClaim ==
  ASSUME TypeOK, RowInv, LedgerBalanced, NEW t \in Tasks, Claim(t)
  PROVE  LedgerBalanced'
<1>. DEFINE new == <<t, request[t] + 1>>
<1>1. new \in Requests /\ new[1] = t /\ attempt[new] = NoAttempt
  <2>1. new \in Requests /\ new[1] = t /\ new[2] > request[t]
    BY AuthorizationAssumption DEF Claim, Admitted, Claimable, TypeOK, Requests
  <2>. QED
    BY <2>1 DEF RowInv, AttemptsInOrder
<1>2. /\ attempt'[new].charge = "active"
      /\ \A q \in Requests : q # new => attempt'[q] = attempt[q]
  BY <1>1 DEF Claim, TypeOK, NoAttempt
<1>. HIDE DEF new
<1>3. new \notin Funded /\ Funded' = Funded \cup {new}
  BY <1>1, <1>2 DEF Funded, NoAttempt
<1>4. Cost'[new] = Worst[t] /\ \A q \in Funded : Cost'[q] = Cost[q]
  BY <1>1, <1>2, <1>3 DEF Cost, Funded
<1>5. Worst[t] \in Nat /\ FramesOf[t] \in Nat /\ RouteOf[t] \in Routes
  BY PlanAssumption
<1>6. used' = SumOver(Cost', Funded')
  BY <1>3, <1>4, <1>5, ChargesTyped, SumGrows DEF LedgerBalanced, Claim
<1>7. frames' = SumOver(FramesOfRequest', Funded')
  <2>1. FramesOfRequest' = FramesOfRequest /\ FramesOfRequest[new] = FramesOf[t]
    BY <1>1 DEF FramesOfRequest
  <2>. QED
    BY <1>3, <1>5, <2>1, ChargesTyped, SumAdd DEF LedgerBalanced, Claim
<1>8. ASSUME NEW rt \in Routes PROVE routeUsed'[rt] = SumOver(Cost', OfRoute(rt)')
  <2>1. routeUsed[rt] = SumOver(Cost, OfRoute(rt))
    BY DEF LedgerBalanced, OfRoute
  <2>2. OfRoute(rt) \subseteq Funded /\ IsFiniteSet(OfRoute(rt))
    BY ChargesTyped DEF OfRoute
  <2>3. \A q \in OfRoute(rt) : Cost[q] \in Int /\ Cost'[q] = Cost[q]
    BY <1>4, <2>2, ChargesTyped
  <2>4. CASE rt = RouteOf[t]
    <3>1. OfRoute(rt)' = OfRoute(rt) \cup {new} /\ new \notin OfRoute(rt)
      BY <1>1, <1>3, <2>4 DEF OfRoute
    <3>2. routeUsed'[rt] = routeUsed[rt] + Worst[t]
      BY <2>4 DEF Claim, TypeOK
    <3>. QED
      BY <1>4, <1>5, <2>1, <2>2, <2>3, <3>1, <3>2, SumGrows
  <2>5. CASE rt # RouteOf[t]
    <3>1. OfRoute(rt)' = OfRoute(rt)
      BY <1>1, <1>3, <2>5 DEF OfRoute
    <3>2. routeUsed'[rt] = routeUsed[rt]
      BY <2>5 DEF Claim, TypeOK
    <3>. QED
      BY <2>1, <2>2, <2>3, <3>1, <3>2, SumAgrees
  <2>. QED
    BY <2>4, <2>5
<1>. QED
  BY <1>6, <1>7, <1>8 DEF LedgerBalanced, OfRoute

(* A bill replaces the worst case of one charge.                            *)
LEMMA LedgerSettle ==
  ASSUME TypeOK, LedgerBalanced, NEW r \in Requests, NEW units \in 0..Worst[r[1]],
         Settle(r, units)
  PROVE  LedgerBalanced'
<1>1. r[1] \in Tasks /\ Worst[r[1]] \in Nat /\ units \in Nat /\ RouteOf[r[1]] \in Routes
  BY RequestPair, PlanAssumption
<1>2. /\ attempt'[r].charge = "settled" /\ attempt'[r].billed = units
      /\ attempt[r].charge \in {"active", "unknown"}
      /\ \A q \in Requests : q # r => attempt'[q] = attempt[q]
  BY DEF Settle, Billable, TypeOK, AttemptRecord
<1>3. Funded' = Funded /\ r \in Funded /\ FramesOfRequest' = FramesOfRequest
  BY <1>2 DEF Funded, FramesOfRequest
<1>4. Cost'[r] = units /\ Cost[r] = Worst[r[1]] /\ \A q \in Funded \ {r} : Cost'[q] = Cost[q]
  BY <1>2, <1>3 DEF Cost, Funded
<1>5. \A q \in Funded : Cost[q] \in Int /\ Cost'[q] \in Int
  BY <1>1, <1>4, ChargesTyped
<1>6. used' = SumOver(Cost', Funded')
  <2>1. SumOver(Cost', Funded) = SumOver(Cost, Funded) - Cost[r] + Cost'[r]
    BY <1>3, <1>4, <1>5, ChargesTyped, SumChangesAt
  <2>2. used' = used + (units - Worst[r[1]]) /\ used \in Int
    BY DEF Settle, TypeOK
  <2>. QED
    BY <1>1, <1>3, <1>4, <2>1, <2>2 DEF LedgerBalanced
<1>7. frames' = SumOver(FramesOfRequest', Funded')
  BY <1>3 DEF LedgerBalanced, Settle
<1>8. ASSUME NEW rt \in Routes PROVE routeUsed'[rt] = SumOver(Cost', OfRoute(rt)')
  <2>1. routeUsed[rt] = SumOver(Cost, OfRoute(rt)) /\ routeUsed[rt] \in Int
    BY DEF LedgerBalanced, OfRoute, TypeOK
  <2>2. OfRoute(rt)' = OfRoute(rt) /\ OfRoute(rt) \subseteq Funded /\ IsFiniteSet(OfRoute(rt))
    BY <1>3, ChargesTyped DEF OfRoute
  <2>3. CASE rt = RouteOf[r[1]]
    <3>1. r \in OfRoute(rt)
      BY <1>3, <2>3 DEF OfRoute
    <3>2. SumOver(Cost', OfRoute(rt)) = SumOver(Cost, OfRoute(rt)) - Cost[r] + Cost'[r]
      BY <1>4, <1>5, <2>2, <3>1, SumChangesAt
    <3>3. routeUsed'[rt] = routeUsed[rt] + (units - Worst[r[1]])
      BY <2>3 DEF Settle, TypeOK
    <3>. QED
      BY <1>1, <1>4, <2>1, <2>2, <3>2, <3>3
  <2>4. CASE rt # RouteOf[r[1]]
    <3>1. \A q \in OfRoute(rt) : Cost[q] = Cost'[q]
      BY <1>4, <2>2, <2>4 DEF OfRoute
    <3>2. routeUsed'[rt] = routeUsed[rt]
      BY <2>4 DEF Settle, TypeOK
    <3>. QED
      BY <2>1, <2>2, <3>1, <3>2, SumAgrees
  <2>. QED
    BY <2>3, <2>4
<1>. QED
  BY <1>6, <1>7, <1>8 DEF LedgerBalanced, OfRoute

(* No operation but a claim and the two kinds of bills touches the charges  *)
(* or the totals.                                                           *)
Bills(r) == SettleUnknown(r) \/ \E units \in 0..Worst[r[1]] : Settle(r, units)

LEMMA MoneyMovesByBills ==
  ASSUME TypeOK, [Next]_vars, \A t \in Tasks : ~Claim(t),
         \A r \in Requests : ~Bills(r)
  PROVE  /\ UNCHANGED <<used, frames, routeUsed>>
         /\ \A q \in Requests : /\ attempt'[q].charge = attempt[q].charge
                                /\ attempt'[q].billed = attempt[q].billed
<1>1. ASSUME NEW r \in Requests, RequestNext(r)
      PROVE  /\ UNCHANGED <<used, frames, routeUsed>>
             /\ \A q \in Requests : /\ attempt'[q].charge = attempt[q].charge
                                    /\ attempt'[q].billed = attempt[q].billed
  <2>1. CASE MarkSending(r)
    BY <2>1 DEF MarkSending, TypeOK, AttemptRecord, moneyVars
  <2>2. ASSUME NEW s \in Reports, Observe(r, s)
        PROVE  /\ UNCHANGED <<used, frames, routeUsed>>
               /\ \A q \in Requests : /\ attempt'[q].charge = attempt[q].charge
                                      /\ attempt'[q].billed = attempt[q].billed
    BY <2>2 DEF Observe, TypeOK, AttemptRecord, moneyVars
  <2>3. CASE Accept(r) \/ Reject(r)
    BY <2>3 DEF Accept, Reject, TypeOK, AttemptRecord, moneyVars
  <2>4. CASE LeaseExpires(r) \/ RenewPrepared(r)
    BY <2>4 DEF LeaseExpires, RenewPrepared, TypeOK, AttemptRecord, moneyVars
  <2>. QED
    BY <1>1, <2>1, <2>2, <2>3, <2>4 DEF RequestNext, Bills
<1>2. ASSUME NEW changed \in SUBSET Tasks, Invalidate(changed)
      PROVE  /\ UNCHANGED <<used, frames, routeUsed>>
             /\ \A q \in Requests : /\ attempt'[q].charge = attempt[q].charge
                                    /\ attempt'[q].billed = attempt[q].billed
  BY <1>2 DEF Invalidate, TypeOK, AttemptRecord, moneyVars
<1>3. CASE OperatorNext \/ UNCHANGED vars
            \/ (\E units \in ForecastInputs : RecordForecast(units))
            \/ (\E t \in Tasks : ParkForRepair(t)) \/ (\E e \in Executions : ReleaseParked(e))
  BY <1>3 DEF OperatorNext, Pause, Hold, Revoke, AuthorizationLapses, vars, RecordForecast,
              ParkForRepair, ReleaseParked, moneyVars
<1>. QED
  BY <1>1, <1>2, <1>3 DEF Next

LEMMA LedgerStep ==
  ASSUME TypeOK, RowInv, LedgerBalanced, [Next]_vars
  PROVE  LedgerBalanced'
<1>1. ASSUME NEW r \in Requests, SettleUnknown(r) PROVE LedgerBalanced'
  <2>1. ASSUME NEW q \in Requests
        PROVE  attempt'[q].charge # "none" <=> attempt[q].charge # "none"
    BY <1>1 DEF SettleUnknown, TypeOK, AttemptRecord
  <2>2. ASSUME NEW q \in Requests
        PROVE  /\ attempt'[q].charge = "settled" <=> attempt[q].charge = "settled"
               /\ attempt'[q].billed = attempt[q].billed
    BY <1>1 DEF SettleUnknown, TypeOK, AttemptRecord
  <2>3. Funded' = Funded /\ Cost' = Cost /\ FramesOfRequest' = FramesOfRequest
    BY <2>1, <2>2 DEF Funded, Cost, FramesOfRequest
  <2>. QED
    BY <1>1, <2>3 DEF LedgerBalanced, SettleUnknown, moneyVars
<1>2. ASSUME \A t \in Tasks : ~Claim(t),
             \A r \in Requests : ~Bills(r)
      PROVE  LedgerBalanced'
  BY <1>2, MoneyMovesByBills, LedgerQuiet
<1>. QED
  BY <1>1, <1>2, LedgerClaim, LedgerSettle DEF Bills

(* The running totals are at every moment the sums over the funded         *)
(* attempts, a bill counted as billed and the rest at the worst case.       *)
THEOREM LedgerCorrect == Spec => []LedgerBalanced
<1>1. Init => LedgerBalanced
  <2>. SUFFICES ASSUME Init PROVE LedgerBalanced
    OBVIOUS
  <2>1. Funded = {} /\ \A rt \in Routes : {r \in Funded : RouteOf[r[1]] = rt} = {}
    BY DEF Init, Funded, NoAttempt
  <2>. QED
    BY <2>1, SumEmpty DEF Init, LedgerBalanced
<1>. QED
  BY <1>1, LedgerStep, TypeCorrect, RowsCorrect, PTL DEF Spec

----------------------------------------------------------------------------
(* The refinement of the abstract budget.                                  *)

ChargeState ==
  [r \in Requests |-> CASE attempt[r].charge = "none" -> "open"
                        [] attempt[r].charge = "settled" -> "billed"
                        [] OTHER -> "reserved"]

ChargeBill == [r \in Requests |-> attempt[r].billed]

(* The exact sums of the abstract budget are those of the ledger.           *)
LEMMA SameSums ==
  ASSUME TypeOK
  PROVE  /\ Budget!Taken = Funded /\ Budget!Units = Cost
         /\ \A rt : Budget!OnRoute(rt) = {r \in Funded : RouteOf[r[1]] = rt}
<1>1. \A r \in Requests : attempt[r].charge \in {"none", "active", "unknown", "settled"}
  BY DEF TypeOK, AttemptRecord
<1>2. \A r \in Requests : /\ ChargeState[r] = "open" <=> attempt[r].charge = "none"
                          /\ ChargeState[r] = "billed" <=> attempt[r].charge = "settled"
  BY <1>1 DEF ChargeState
<1>3. Budget!Taken = {r \in Requests : ChargeState[r] # "open"}
  BY DEF Budget!Taken, ChargeState
<1>4. Budget!Units = [r \in Requests |-> IF ChargeState[r] = "billed" THEN ChargeBill[r]
                                                                     ELSE Worst[r[1]]]
  BY DEF Budget!Units, ChargeState, ChargeBill
<1>5. Budget!Taken = Funded
  BY <1>2, <1>3 DEF Funded
<1>6. Budget!Units = Cost
  BY <1>2, <1>4 DEF Cost, ChargeBill
<1>7. \A rt : Budget!OnRoute(rt) = {r \in Funded : RouteOf[r[1]] = rt}
  <2>1. \A rt : Budget!OnRoute(rt) = {r \in Budget!Taken : [q \in Requests |-> RouteOf[q[1]]][r] = rt}
    BY DEF Budget!OnRoute
  <2>. QED
    BY <1>5, <2>1 DEF Funded
<1>. QED
  BY <1>5, <1>6, <1>7

(* The abstract budget adds up with the same operator.                      *)
LEMMA SameSumOver ==
  ASSUME NEW f, NEW S
  PROVE  Budget!SumOver(f, S) = SumOver(f, S)
BY Zenon DEF SumOver, FoldFunctionOnSet, MapThenFoldSet,
             Budget!SumOver, Budget!FoldFunctionOnSet, Budget!MapThenFoldSet

LEMMA ClaimReserves ==
  ASSUME TypeOK, RowInv, LedgerBalanced, NEW t \in Tasks, Claim(t),
         NEW new \in Requests, new = <<t, request[t] + 1>>
  PROVE  Budget!ReserveCharge(new)
<1>1. new \in Requests /\ new[1] = t /\ attempt[new] = NoAttempt
  <2>1. new[1] = t /\ new[2] > request[t]
    BY AuthorizationAssumption DEF TypeOK
  <2>. QED
    BY <2>1 DEF RowInv, AttemptsInOrder
<1>2. /\ attempt'[new].charge = "active" /\ attempt'[new].billed = 0
      /\ \A q \in Requests : q # new => attempt'[q] = attempt[q]
  BY <1>1 DEF Claim, TypeOK, NoAttempt
<1>3. /\ used + Worst[t] + CleanupUnits <= TotalUnits
      /\ routeUsed[RouteOf[t]] + Worst[t] <= RouteLimit[RouteOf[t]]
      /\ frames + FramesOf[t] <= MaxFrames
      /\ RouteOf[t] \in Routes
  BY PlanAssumption DEF Claim, Admitted, WithinBudget
<1>4. ChargeState[new] = "open" /\ ChargeState' = [ChargeState EXCEPT ![new] = "reserved"]
  <2>1. ChargeState[new] = "open"
    BY <1>1 DEF ChargeState, NoAttempt
  <2>2. ChargeState'[new] = "reserved"
    BY <1>1, <1>2 DEF ChargeState
  <2>3. \A q \in Requests : q # new => ChargeState'[q] = ChargeState[q]
    BY <1>2 DEF ChargeState
  <2>4. ChargeState' \in [Requests -> {"open", "billed", "reserved"}]
        /\ ChargeState \in [Requests -> {"open", "billed", "reserved"}]
    BY DEF ChargeState
  <2>. HIDE DEF ChargeState
  <2>. QED
    BY <1>1, <2>1, <2>2, <2>3, <2>4
<1>5. ChargeBill' = ChargeBill
  BY <1>1, <1>2 DEF ChargeBill, NoAttempt
<1>6. /\ Budget!Committed(Budget!Taken) = used
      /\ Budget!Committed(Budget!OnRoute(RouteOf[t])) = routeUsed[RouteOf[t]]
      /\ Budget!FramesTaken = frames
  <2>1. Budget!Committed(Budget!Taken) = used
    BY SameSums, SameSumOver DEF LedgerBalanced, Budget!Committed
  <2>2. Budget!Committed(Budget!OnRoute(RouteOf[t])) = routeUsed[RouteOf[t]]
    <3>1. Budget!Committed(Budget!OnRoute(RouteOf[t]))
            = Budget!SumOver(Budget!Units, Budget!OnRoute(RouteOf[t]))
      BY DEF Budget!Committed
    <3>. QED
      BY <1>3, <3>1, SameSums, SameSumOver DEF LedgerBalanced
  <2>3. Budget!FramesTaken = frames
    BY SameSums, SameSumOver DEF LedgerBalanced, Budget!FramesTaken
  <2>. QED
    BY <2>1, <2>2, <2>3
<1>. QED
  BY <1>1, <1>3, <1>4, <1>5, <1>6 DEF Budget!ReserveCharge, ChargeState, ChargeBill, FramesOfRequest

LEMMA SettleBills ==
  ASSUME TypeOK, NEW r \in Requests, NEW units \in 0..Worst[r[1]], Settle(r, units)
  PROVE  Budget!BillCharge(r)
<1>1. /\ attempt'[r].charge = "settled" /\ attempt'[r].billed = units
      /\ attempt[r].charge \in {"active", "unknown"}
      /\ \A q \in Requests : q # r => attempt'[q] = attempt[q]
  BY DEF Settle, Billable, TypeOK, AttemptRecord
<1>2. ChargeState[r] = "reserved" /\ ChargeState' = [ChargeState EXCEPT ![r] = "billed"]
  BY <1>1 DEF ChargeState
<1>3. ChargeBill' = [ChargeBill EXCEPT ![r] = units]
  BY <1>1 DEF ChargeBill
<1>. QED
  BY <1>2, <1>3 DEF Budget!BillCharge, ChargeState, ChargeBill

(* The incremental totals never admit a claim the exact sum of the          *)
(* commitments would refuse, each charge is billed at most once and not      *)
(* above its worst case, and nothing else frees money.                      *)
THEOREM BudgetImplemented == Spec => ImplementsBudget
<1>1. Init => Budget!Init
  BY DEF Init, NoAttempt, Budget!Init
<1>2. TypeOK /\ RowInv /\ LedgerBalanced /\ [Next]_vars => [Budget!Next]_(Budget!bvars)
  <2>. SUFFICES ASSUME TypeOK, RowInv, LedgerBalanced, [Next]_vars
                PROVE  [Budget!Next]_(Budget!bvars)
    OBVIOUS
  <2>1. ASSUME NEW t \in Tasks, Claim(t) PROVE Budget!Next
    <3>1. <<t, request[t] + 1>> \in Requests
      BY <2>1, AuthorizationAssumption DEF Claim, Admitted, Claimable, TypeOK, Requests
    <3>2. PICK new \in Requests : new = <<t, request[t] + 1>>
      BY <3>1
    <3>3. Budget!ReserveCharge(new)
      BY <2>1, <3>2, ClaimReserves
    <3>. QED
      BY <3>3 DEF Budget!Next
  <2>2. ASSUME NEW r \in Requests, NEW units \in 0..Worst[r[1]], Settle(r, units)
        PROVE  Budget!Next
    BY <2>2, SettleBills DEF Budget!Next
  <2>3. ASSUME ChargeState' = ChargeState, ChargeBill' = ChargeBill
        PROVE  UNCHANGED Budget!bvars
    BY <2>3 DEF Budget!bvars, ChargeState, ChargeBill
  <2>4. ASSUME NEW r \in Requests, SettleUnknown(r)
        PROVE  ChargeState' = ChargeState /\ ChargeBill' = ChargeBill
    <3>1. \A q \in Requests : /\ attempt'[q].billed = attempt[q].billed
                              /\ attempt'[q].charge = "none" <=> attempt[q].charge = "none"
                              /\ attempt'[q].charge = "settled" <=> attempt[q].charge = "settled"
      BY <2>4 DEF SettleUnknown, TypeOK, AttemptRecord
    <3>. QED
      BY <3>1 DEF ChargeState, ChargeBill
  <2>5. ASSUME \A t \in Tasks : ~Claim(t), \A r \in Requests : ~Bills(r)
        PROVE  ChargeState' = ChargeState /\ ChargeBill' = ChargeBill
    BY <2>5, MoneyMovesByBills DEF ChargeState, ChargeBill
  <2>. QED
    BY <2>1, <2>2, <2>3, <2>4, <2>5 DEF Bills
<1>. QED
  BY <1>1, <1>2, TypeCorrect, RowsCorrect, LedgerCorrect, PTL
  DEF Spec, ImplementsBudget, Budget!Spec

----------------------------------------------------------------------------
(* What a row shows of work under way is the status of its request.        *)

RowShows ==
  \A t \in Tasks : taskStatus[t] \in Live => request[t] # 0 /\ Latest(t).status = taskStatus[t]

(* An open or funded attempt is one of the attempts the row counts.        *)
LEMMA RequestStep ==
  ASSUME TypeOK, RowInv, NEW r \in Requests, RequestNext(r)
  PROVE  Next
<1>1. \/ attempt[r].outbox = "prepared" \/ attempt[r].status \in Live
      \/ attempt[r].charge \in {"active", "unknown"}
  BY DEF RequestNext, MarkSending, Unsent, Observe, Reportable, Accept, Reject, LeaseExpires,
         RenewPrepared, SettleUnknown, Settle, Billable, Live
<1>3. attempt[r] # NoAttempt
  BY <1>1 DEF NoAttempt, Live
<1>2. request[r[1]] >= r[2]
  BY <1>3, RequestPair, AuthorizationAssumption DEF RowInv, AttemptsInOrder, TypeOK
<1>. QED
  BY <1>2 DEF Next

LEMMA LatestRequest ==
  ASSUME TypeOK, NEW t \in Tasks, request[t] # 0
  PROVE  <<t, request[t]>> \in Requests
BY AuthorizationAssumption DEF Requests, TypeOK

LEMMA RowShowsStep ==
  ASSUME TypeOK, RowInv, RowShows, [Next]_vars
  PROVE  RowShows'
<1>1. ASSUME NEW t \in Tasks, Claim(t) PROVE RowShows'
  <2>1. /\ <<t, request[t] + 1>> \in Requests /\ request[t] \in Nat
        /\ request'[t] = request[t] + 1 /\ taskStatus'[t] = "reserved"
    BY <1>1, AuthorizationAssumption DEF Claim, Admitted, Claimable, TypeOK, Requests
  <2>2. Latest(t)'.status = "reserved"
    <3>1. attempt'[<<t, request[t] + 1>>].status = "reserved"
      BY <1>1, <2>1 DEF Claim, TypeOK, NoAttempt
    <3>. QED
      BY <2>1, <3>1 DEF Latest
  <2>3. ASSUME NEW u \in Tasks, u # t
        PROVE  /\ request'[u] = request[u] /\ taskStatus'[u] = taskStatus[u]
               /\ request[u] # 0 => Latest(u)' = Latest(u)
    <3>1. request'[u] = request[u] /\ taskStatus'[u] = taskStatus[u]
      BY <1>1, <2>3 DEF Claim, TypeOK
    <3>2. <<u, request[u]>> # <<t, request[t] + 1>>
      BY <2>3
    <3>3. request[u] # 0 => attempt'[<<u, request[u]>>] = attempt[<<u, request[u]>>]
      BY <1>1, <3>2, LatestRequest DEF Claim, TypeOK
    <3>. QED
      BY <3>1, <3>3 DEF Latest
  <2>. QED
    BY <2>1, <2>2, <2>3 DEF RowShows
<1>2. ASSUME NEW r \in Requests, Fence(r), UNCHANGED request,
             taskStatus' = [taskStatus EXCEPT ![r[1]] = attempt'[r].status],
             \A q \in Requests : q # r => attempt'[q] = attempt[q]
      PROVE  RowShows'
  <2>1. r[1] \in Tasks /\ r = <<r[1], r[2]>> /\ request[r[1]] = r[2] /\ request[r[1]] # 0
    BY <1>2, RequestPair, AuthorizationAssumption DEF Fence
  <2>2. ASSUME NEW u \in Tasks, u # r[1]
        PROVE  /\ taskStatus'[u] = taskStatus[u]
               /\ request[u] # 0 => Latest(u)' = Latest(u)
    <3>1. <<u, request[u]>> # r
      BY <2>1, <2>2
    <3>. QED
      BY <1>2, <2>2, <3>1, LatestRequest DEF TypeOK, Latest
  <2>3. Latest(r[1])'.status = taskStatus'[r[1]]
    BY <1>2, <2>1 DEF TypeOK, Latest
  <2>. QED
    BY <1>2, <2>1, <2>2, <2>3 DEF RowShows
<1>8. ASSUME NEW r \in Requests, NEW s \in Reports,
             MarkSending(r) \/ Reject(r) \/ Observe(r, s)
      PROVE  RowShows'
  <2>1. /\ Fence(r) /\ UNCHANGED request
        /\ \A q \in Requests : q # r => attempt'[q] = attempt[q]
    BY <1>8 DEF MarkSending, Reject, Observe, TypeOK
  <2>2. taskStatus' = [taskStatus EXCEPT ![r[1]] = attempt'[r].status]
    BY <1>8 DEF MarkSending, Reject, Observe, TypeOK, AttemptRecord
  <2>. QED
    BY <1>2, <2>1, <2>2
<1>3. ASSUME UNCHANGED request,
             \A q \in Requests : attempt'[q].status = attempt[q].status,
             \A u \in Tasks : taskStatus'[u] = taskStatus[u] \/ taskStatus'[u] \notin Live
      PROVE  RowShows'
  <2>1. ASSUME NEW u \in Tasks, request[u] # 0
        PROVE  Latest(u)'.status = Latest(u).status
    BY <1>3, <2>1, LatestRequest DEF Latest
  <2>. QED
    BY <1>3, <2>1 DEF RowShows
<1>4. ASSUME NEW r \in Requests, Accept(r) PROVE RowShows'
  <2>1. r[1] \in Tasks /\ r = <<r[1], r[2]>> /\ request[r[1]] = r[2]
    BY <1>4, RequestPair DEF Accept, Fence
  <2>2. ASSUME NEW u \in Tasks, taskStatus'[u] \in Live
        PROVE  taskStatus'[u] = taskStatus[u] /\ u # r[1]
    BY <1>4, <2>2 DEF Accept, ParkedWith, Live
  <2>3. ASSUME NEW u \in Tasks, u # r[1], request[u] # 0
        PROVE  Latest(u)' = Latest(u)
    <3>1. <<u, request[u]>> # r
      BY <2>1, <2>3
    <3>2. attempt'[<<u, request[u]>>] = attempt[<<u, request[u]>>]
      BY <1>4, <2>3, <3>1, LatestRequest DEF Accept, TypeOK
    <3>. QED
      BY <1>4, <3>2 DEF Accept, Latest
  <2>. QED
    BY <1>4, <2>2, <2>3 DEF RowShows, Accept
<1>5. ASSUME NEW r \in Requests,
             LeaseExpires(r) \/ RenewPrepared(r) \/ SettleUnknown(r)
               \/ \E units \in 0..Worst[r[1]] : Settle(r, units)
      PROVE  RowShows'
  <2>1. UNCHANGED rowVars
    BY <1>5 DEF LeaseExpires, RenewPrepared, SettleUnknown, Settle
  <2>2. \A q \in Requests : attempt'[q].status = attempt[q].status
    BY <1>5 DEF LeaseExpires, RenewPrepared, SettleUnknown, Settle, TypeOK, AttemptRecord
  <2>. QED
    BY <1>3, <2>1, <2>2 DEF rowVars
<1>6. ASSUME NEW changed \in SUBSET Tasks, Invalidate(changed) PROVE RowShows'
  <2>1. \A u \in Tasks : taskStatus'[u] = taskStatus[u] \/ taskStatus'[u] \notin Live
    BY <1>6 DEF Invalidate, Live
  <2>2. \A q \in Requests : attempt'[q].status = attempt[q].status
    BY <1>6 DEF Invalidate, TypeOK, AttemptRecord
  <2>. QED
    BY <1>3, <1>6, <2>1, <2>2 DEF Invalidate
<1>7. CASE OperatorNext \/ UNCHANGED vars
            \/ (\E units \in ForecastInputs : RecordForecast(units))
            \/ (\E t \in Tasks : ParkForRepair(t)) \/ (\E e \in Executions : ReleaseParked(e))
  <2>1. UNCHANGED <<request, attempt>>
    BY <1>7 DEF OperatorNext, Pause, Hold, Revoke, AuthorizationLapses, vars, RecordForecast,
                ParkForRepair, ReleaseParked, rowVars
  <2>2. \A u \in Tasks : taskStatus'[u] = taskStatus[u] \/ taskStatus'[u] \notin Live
    BY <1>7 DEF OperatorNext, Pause, Hold, Revoke, AuthorizationLapses, vars, RecordForecast,
                ParkForRepair, ReleaseParked, rowVars, TypeOK, Live
  <2>. QED
    BY <1>3, <2>1, <2>2
<1>. QED
  <2>1. Reports # {}
    BY DEF Reports
  <2>. QED
    BY <1>1, <1>8, <1>4, <1>5, <1>6, <1>7, <2>1 DEF Next, RequestNext

----------------------------------------------------------------------------
(* The batch.                                                              *)

LEMMA FirstIs ==
  ASSUME NEW S \in SUBSET Tasks, S # {}
  PROVE  First(S) \in S /\ \A u \in S : Ordinal[First(S)] <= Ordinal[u]
<1>. DEFINE numbers == {Ordinal[t] : t \in S}
<1>1. numbers \in SUBSET Nat /\ numbers # {}
  BY RunnerAssumption
<1>2. PICK n \in numbers : \A m \in numbers : n <= m
  BY <1>1, LeastNumber
<1>3. PICK t \in S : Ordinal[t] = n
  BY <1>2
<1>4. \A u \in S : Ordinal[t] <= Ordinal[u]
  BY <1>2, <1>3
<1>. QED
  BY <1>3, <1>4 DEF First

LEMMA NatProduct ==
  ASSUME NEW m \in Nat, NEW n \in Nat
  PROVE  m * n \in Nat
OBVIOUS

LEMMA FutureTyped ==
  ASSUME TypeOK, NEW t \in Tasks
  PROVE  /\ FutureAttempts(t) \in Int /\ Positive(FutureAttempts(t)) \in Nat
         /\ Positive(FutureAttempts(t)) * Worst[t] \in Nat
<1>1. round[ShotOf[t]] \in Int /\ request[t] \in Int /\ MaxRepairRounds \in Int
      /\ MaxAttempts \in Int /\ Worst[t] \in Nat
  BY PlanAssumption, AuthorizationAssumption DEF TypeOK
<1>2. FutureAttempts(t) \in Int
  BY <1>1 DEF FutureAttempts
<1>3. Positive(FutureAttempts(t)) \in Nat
  BY <1>2 DEF Positive
<1>. QED
  BY <1>1, <1>2, <1>3, NatProduct

LEMMA ForecastTyped ==
  ASSUME TypeOK
  PROVE  RemainingForecast \in Nat
<1>. DEFINE price == [t \in Tasks |-> Positive(FutureAttempts(t)) * Worst[t]]
            open == {t \in Tasks : accepted[t] = 0}
<1>1. IsFiniteSet(open) /\ \A t \in open : price[t] \in Nat
  BY PlanAssumption, FS_Subset, FutureTyped
<1>. HIDE DEF price, open
<1>2. SumOver(price, open) \in Nat
  BY <1>1, SumTyped
<1>. QED
  BY <1>2 DEF RemainingForecast, price, open

\* Where the batch is about to claim, and where it works on a request.
Choosing == {"claim", "park", "forecast", "record", "reclaim"}
Working == {"send", "submit", "lost", "lostBill", "observe", "report", "bill", "verify",
            "assess", "evaluate", "judged", "publish", "accept"}
Startable == Retryable \cup {"ready"}

\* A row read before a claim may be parked by name only: it still waits.
WorkInv ==
  /\ pc \in Choosing => cur[1] \in Plan
  /\ pc \in {"claim", "park"} => taskStatus[cur[1]] \in Startable
  /\ pc \in Working => cur \in Requests
  /\ pc = "record" => bound <= TotalUnits

RunInv == RunnerTypeOK /\ RowInv /\ RowShows /\ WorkInv

LEMMA PlanIn ==
  /\ Plan \subseteq Tasks /\ Plan # {} /\ Execution \in Executions
  /\ Nowhere \in Tasks \X (0..MaxAttempts)
  /\ (CHOOSE r \in Requests : TRUE) \in Requests
<1>1. Plan \subseteq Tasks /\ Plan # {} /\ Execution \in Executions
  BY RunnerAssumption DEF Plan
<1>2. Nowhere \in Tasks \X (0..MaxAttempts)
  BY <1>1, AuthorizationAssumption DEF Nowhere
<1>3. Requests # {}
  <2>1. PICK t \in Plan : TRUE
    BY <1>1
  <2>2. <<t, 1>> \in Requests
    BY <1>1, <2>1, AuthorizationAssumption DEF Requests
  <2>. QED
    BY <2>2
<1>4. (CHOOSE r \in Requests : TRUE) \in Requests
  BY <1>3, Zenon
<1>. QED
  BY <1>1, <1>2, <1>4

(* The calls of the store, as the processes make them.                     *)
LEMMA CallsUseStore ==
  ASSUME RunInv, NEW r \in Requests
  PROVE  /\ \A s \in Reports : ReportCall(r, s) \/ ReportRefused(r, s) => [Next]_vars
         /\ LeaveUnknown(r) \/ BillCall(r) => [Next]_vars
         /\ MarkSending(r) \/ RenewPrepared(r) \/ Accept(r) \/ Reject(r) \/ LeaseExpires(r) => Next
<1>1. TypeOK /\ RowInv
  BY DEF RunInv, RunnerTypeOK
<1>2. RequestNext(r) => Next
  BY <1>1, RequestStep
<1>3. /\ "bill" \in Explored /\ "lease" \in Explored
      /\ Receipt[r[1]] \in 0..Worst[r[1]]
  BY RequestPair, RunnerAssumption, PlanAssumption
<1>4. \A s \in Reports : ReportCall(r, s) \/ ReportRefused(r, s) => [Next]_vars
  <2>. TAKE s \in Reports
  <2>1. Observe(r, s) => RequestNext(r)
    BY DEF RequestNext
  <2>. QED
    BY <1>2, <2>1 DEF ReportCall, ReportRefused
<1>5. LeaveUnknown(r) \/ BillCall(r) => [Next]_vars
  <2>1. SettleUnknown(r) \/ Settle(r, Receipt[r[1]]) => RequestNext(r)
    BY <1>3 DEF RequestNext
  <2>. QED
    BY <1>2, <2>1 DEF LeaveUnknown, BillCall
<1>6. MarkSending(r) \/ RenewPrepared(r) \/ Accept(r) \/ Reject(r) \/ LeaseExpires(r) => Next
  BY <1>2, <1>3 DEF RequestNext
<1>. QED
  BY <1>4, <1>5, <1>6

(* Every step of every process is a step of the store's specification.     *)
LEMMA StepUsesStore ==
  ASSUME RunInv, [RunnerNext]_runnerVars
  PROVE  [Next]_vars
<1>t. TypeOK /\ pc \in BatchPcs /\ got \in Reports /\ cancelReq \in Requests /\ bound \in Nat
  BY DEF RunInv, RunnerTypeOK
<1>w. pc \in Working => cur \in Requests
  BY DEF RunInv, WorkInv
<1>1. CASE BatchStarts
  BY <1>1, PlanIn DEF BatchStarts, Next
<1>2. CASE BatchClaims
  <2>1. cur[1] \in Tasks
    BY <1>2, PlanIn DEF BatchClaims, RunInv, WorkInv, Choosing
  <2>. QED
    BY <1>2, <2>1 DEF BatchClaims, Next
<1>3. CASE Park
  <2>1. cur[1] \in Tasks /\ taskStatus[cur[1]] \in Retryable \cup {"ready"}
    BY <1>3, PlanIn DEF Park, RunInv, WorkInv, Choosing, Startable
  <2>2. ParkForRepair(cur[1])
    BY <1>3, <2>1 DEF Park, ParkForRepair
  <2>. QED
    BY <2>1, <2>2 DEF Next
<1>4. CASE RecordBound
  <2>1. bound \in ForecastInputs
    BY <1>4, <1>t, RunnerAssumption, AuthorizationAssumption DEF RecordBound, RunInv, WorkInv
  <2>. QED
    BY <1>4, <2>1 DEF RecordBound, Next
<1>5. CASE Send \/ Lost \/ LostBill \/ Report \/ Bill \/ Verify \/ Decide \/ AcceptPublished
  <2>1. cur \in Requests
    BY <1>5, <1>w DEF Send, Lost, LostBill, Report, Bill, Verify, Decide, AcceptPublished, Working
  <2>. QED
    BY <1>5, <1>t, <2>1, CallsUseStore DEF Send, Lost, LostBill, Report, Bill, Verify, Decide,
       AcceptPublished, Reports
<1>6. CASE Scan \/ ClaimRefused \/ ComputeForecast \/ Submit \/ ObserveProvider \/ Assess
            \/ Evaluate \/ PublishArtifact \/ Tally \/ Capture \/ OpenSweep \/ SweepRow
            \/ SweepEnds \/ BatchStops
  BY <1>6 DEF Scan, ClaimRefused, ComputeForecast, Submit, ObserveProvider, Assess, Evaluate,
     PublishArtifact, Tally, Capture, OpenSweep, SweepRow, SweepEnds, BatchStops
<1>7. CASE CancelStep
  BY <1>7, <1>t, CallsUseStore DEF CancelStep, CancelStarts, CancelIntent, CancelContact,
     CancelRecord, CancelReport, CancelBill, CancelDies, Reports
<1>8. CASE (\E r \in Requests : JobMoves(r)) \/ ProviderReplaces \/ UNCHANGED runnerVars
  BY <1>8 DEF JobMoves, ProviderReplaces, runnerVars
<1>9. CASE OperatorInvalidates \/ OperatorPauses \/ OperatorWithholds
  <2>1. {"pause", "hold", "revoke"} \subseteq Explored /\ Execution \in Executions
    BY RunnerAssumption
  <2>2. Plan \subseteq {t \in Tasks : ExecutionOf[t] = Execution}
    BY DEF Plan
  <2>. QED
    BY <1>9, <2>1, <2>2 DEF OperatorInvalidates, OperatorPauses, OperatorWithholds, Next, OperatorNext
<1>10. CASE TimePasses
  <2>1. "lapse" \in Explored
    BY RunnerAssumption
  <2>. QED
    BY <1>10, <2>1, CallsUseStore DEF TimePasses, Next, OperatorNext
<1>. QED
  BY <1>1, <1>2, <1>3, <1>4, <1>5, <1>6, <1>7, <1>8, <1>9, <1>10 DEF RunnerNext, BatchStep

----------------------------------------------------------------------------
(* The variables of the processes keep their domains.                      *)

(* A provider replaces less than its bound.                                *)
LEMMA FileBounded ==
  ASSUME GateTypeOK, NEW r \in Requests, Replace(r)
  PROVE  file[r] < MaxReplacements
<1>1. \A q \in Requests : file[q] \in Nat
  BY GateAssumption DEF GateTypeOK
<1>2. SumOver(file, Requests) = file[r] + SumOver(file, Requests \ {r})
  BY <1>1, RequestsFinite, SumTake
<1>3. SumOver(file, Requests \ {r}) \in Nat
  <2>1. IsFiniteSet(Requests \ {r})
    BY RequestsFinite, FS_Subset
  <2>. QED
    BY <1>1, <2>1, SumTyped
<1>4. SumOver(file, Requests) < MaxReplacements
  BY DEF Replace
<1>. QED
  BY <1>1, <1>2, <1>3, <1>4, GateAssumption

LEMMA GateCalls ==
  ASSUME GateTypeOK, NEW r \in Requests, NEW f \in 0..MaxReplacements, NEW verdict \in Verdicts,
         \/ StartEvaluation(r, f) \/ RecordResult(r, f, verdict) \/ RecordIntent(r, f)
         \/ Publish(r) \/ Replace(r)
  PROVE  GateTypeOK'
<1>1. CASE StartEvaluation(r, f)
  BY <1>1 DEF StartEvaluation, GateTypeOK
<1>2. CASE RecordResult(r, f, verdict)
  BY <1>2 DEF RecordResult, GateTypeOK
<1>3. CASE RecordIntent(r, f)
  BY <1>3 DEF RecordIntent, GateTypeOK
<1>4. CASE Publish(r)
  BY <1>4 DEF Publish, GateTypeOK
<1>5. CASE Replace(r)
  <2>1. file[r] + 1 \in 0..MaxReplacements
    BY <1>5, FileBounded, GateAssumption DEF GateTypeOK
  <2>. QED
    BY <1>5, <2>1 DEF Replace, GateTypeOK
<1>. QED
  BY <1>1, <1>2, <1>3, <1>4, <1>5

(* Only four steps of the batch and the provider touch what the gate keeps. *)
GateStep(r) ==
  \/ pc = "assess" /\ cur = r /\ StartEvaluation(r, offer.content)
  \/ pc = "evaluate" /\ cur = r /\ \E verdict \in Verdicts : RecordResult(r, offer.content, verdict)
  \/ pc = "judged" /\ cur = r /\ RecordIntent(r, offer.content)
  \/ pc = "publish" /\ cur = r /\ Publish(r)
  \/ Replace(r)

LEMMA GateMoves ==
  ASSUME RunInv, [RunnerNext]_runnerVars, ~UNCHANGED gateVars
  PROVE  \E r \in Requests : GateStep(r) /\ UNCHANGED vars
<1>w. pc \in Working => cur \in Requests
  BY DEF RunInv, WorkInv
<1>1. CASE Assess \/ Evaluate \/ Decide \/ PublishArtifact
  BY <1>1, <1>w DEF Assess, Evaluate, Decide, PublishArtifact, GateStep, Working
<1>2. CASE ProviderReplaces
  BY <1>2 DEF ProviderReplaces, GateStep
<1>3. CASE BatchStarts \/ Scan \/ BatchClaims \/ ClaimRefused \/ Park \/ ComputeForecast
            \/ RecordBound \/ Send \/ Submit \/ Lost \/ LostBill \/ ObserveProvider \/ Report
            \/ Bill \/ Verify \/ AcceptPublished \/ Tally \/ Capture \/ OpenSweep \/ SweepRow
            \/ SweepEnds \/ BatchStops
  BY <1>3 DEF BatchStarts, Scan, BatchClaims, ClaimRefused, Park, ComputeForecast,
     RecordBound, Send, Submit, Lost, LostBill, ObserveProvider, Report,
     Bill, Verify, AcceptPublished, Tally, Capture, OpenSweep, SweepRow, SweepEnds, BatchStops,
     Others
<1>4. CASE CancelStep \/ (\E r \in Requests : JobMoves(r)) \/ OperatorInvalidates
            \/ OperatorPauses \/ OperatorWithholds \/ TimePasses \/ UNCHANGED runnerVars
  BY <1>4 DEF CancelStep, CancelStarts, CancelIntent, CancelContact, CancelRecord, CancelReport,
     CancelBill, CancelDies, JobMoves, OperatorInvalidates, OperatorPauses, OperatorWithholds,
     TimePasses, Batch, Others, runnerVars
<1>. QED
  BY <1>1, <1>2, <1>3, <1>4 DEF RunnerNext, BatchStep

LEMMA GateTyped ==
  ASSUME RunInv, [RunnerNext]_runnerVars
  PROVE  GateTypeOK'
<1>1. GateTypeOK /\ offer.content \in 0..MaxReplacements
  BY DEF RunInv, RunnerTypeOK
<1>2. CASE UNCHANGED gateVars
  BY <1>1, <1>2 DEF GateTypeOK, gateVars
<1>3. CASE ~UNCHANGED gateVars
  BY <1>1, <1>3, GateMoves, GateCalls DEF GateStep, Verdicts
<1>. QED
  BY <1>2, <1>3

\* The batch's own variables, and those it shares with nobody.
BatchTypeOK ==
  /\ pc \in BatchPcs
  /\ cur \in Tasks \X (0..MaxAttempts)
  /\ got \in Reports
  /\ offer \in [content: 0..MaxReplacements, verdict: Verdicts \cup {"none"}]
  /\ bound \in Nat /\ position \in Int /\ stops \in 0..MaxStops

LEMMA EndTyped ==
  ASSUME RunInv, Ends, stops' \in 0..MaxStops
  PROVE  BatchTypeOK' /\ pc' = "off"
<1>1. Nothing \in [content: 0..MaxReplacements, verdict: Verdicts \cup {"none"}]
  BY GateAssumption DEF Nothing
<1>. QED
  BY <1>1, PlanIn DEF Ends, BatchTypeOK, BatchPcs, Reports

LEMMA GoTyped ==
  ASSUME RunInv, NEW p \in BatchPcs, Goes(p)
  PROVE  BatchTypeOK' /\ pc' = p /\ cur' = cur /\ bound' = bound
BY DEF Goes, BatchTypeOK, RunInv, RunnerTypeOK

LEMMA BackTyped ==
  ASSUME RunInv, BackToScan
  PROVE  BatchTypeOK' /\ pc' = "scan"
<1>1. Nothing \in [content: 0..MaxReplacements, verdict: Verdicts \cup {"none"}]
  BY GateAssumption DEF Nothing
<1>. QED
  BY <1>1, PlanIn DEF BackToScan, BatchTypeOK, BatchPcs, Reports, RunInv, RunnerTypeOK

LEMMA BatchTyped ==
  ASSUME RunInv, BatchStep \/ BatchStops
  PROVE  BatchTypeOK' /\ WorkInv'
<1>t. /\ TypeOK /\ GateTypeOK /\ BatchTypeOK /\ job \in [Requests -> JobStates]
      /\ RowShows /\ WorkInv
  BY DEF RunInv, RunnerTypeOK, BatchTypeOK
<1>s. stops \in 0..MaxStops
  BY <1>t DEF BatchTypeOK
<1>w. pc \in Working => cur \in Requests
  BY <1>t DEF WorkInv
<1>c. pc \in Choosing => cur[1] \in Plan /\ cur[1] \in Tasks
  BY <1>t, PlanIn DEF WorkInv
<1>e. ASSUME Ends, UNCHANGED stops PROVE BatchTypeOK' /\ WorkInv'
  BY <1>e, <1>s, EndTyped DEF WorkInv, Choosing, Working
<1>b. ASSUME BackToScan PROVE BatchTypeOK' /\ WorkInv'
  BY <1>b, BackTyped DEF WorkInv, Choosing, Working
<1>g. ASSUME NEW p \in BatchPcs, Goes(p), p \notin Choosing,
             p \in Working => cur \in Requests
      PROVE  BatchTypeOK' /\ WorkInv'
  BY <1>g, GoTyped DEF WorkInv, Choosing
<1>1. CASE BatchStarts
  BY <1>1, <1>g DEF BatchStarts, BatchPcs, Choosing, Working
<1>2. CASE Scan
  <2>1. CASE ReadyRows # {} /\ ~paused[Execution]
    <3>1. First(ReadyRows) \in ReadyRows
      BY <2>1, PlanIn, FirstIs DEF ReadyRows
    <3>2. CASE pc' = "claim" /\ cur' = <<First(ReadyRows), 0>> /\ UNCHANGED <<got, bound, offer, position, stops>>
      <4>1. cur' \in Tasks \X (0..MaxAttempts) /\ cur'[1] = First(ReadyRows)
        BY <3>1, <3>2, PlanIn, AuthorizationAssumption DEF ReadyRows
      <4>2. taskStatus'[cur'[1]] \in Startable
        BY <1>2, <3>1, <4>1 DEF Scan, ReadyRows, Startable, vars, rowVars
      <4>. QED
        BY <1>t, <3>1, <3>2, <4>1, <4>2 DEF BatchTypeOK, WorkInv, BatchPcs, Working, ReadyRows
    <3>. QED
      BY <1>2, <2>1, <3>2 DEF Scan
  <2>2. CASE ReadyRows = {} /\ ActiveRows # {} /\ ~paused[Execution]
    <3>1. First(ActiveRows) \in ActiveRows
      BY <2>2, PlanIn, FirstIs DEF ActiveRows
    <3>2. First(ActiveRows) \in Tasks /\ request[First(ActiveRows)] # 0
      BY <1>t, <3>1, PlanIn DEF ActiveRows, RowShows
    <3>3. /\ cur' = <<First(ActiveRows), request[First(ActiveRows)]>>
          /\ pc' \in {"publish", "send"}
          /\ position' = Ordinal[First(ActiveRows)] /\ UNCHANGED <<got, bound, offer, stops>>
      BY <1>2, <2>2 DEF Scan
    <3>4. cur' \in Requests /\ cur' \in Tasks \X (0..MaxAttempts)
      BY <1>t, <3>2, <3>3, LatestRequest DEF TypeOK
    <3>5. position' \in Int
      BY <3>2, <3>3, RunnerAssumption
    <3>. QED
      BY <1>t, <3>3, <3>4, <3>5 DEF BatchTypeOK, WorkInv, BatchPcs, Choosing
  <2>3. CASE Ends /\ UNCHANGED stops
    BY <2>3, <1>e
  <2>4. CASE Goes("tally")
    BY <2>4, <1>g DEF BatchPcs, Choosing, Working
  <2>. QED
    BY <1>2, <2>1, <2>2, <2>3, <2>4 DEF Scan
<1>3. CASE BatchClaims
  <2>1. cur[1] \in Tasks
    BY <1>3, <1>c DEF BatchClaims, Choosing
  <2>2. request'[cur[1]] = request[cur[1]] + 1 /\ request[cur[1]] \in 0..MaxAttempts
        /\ request[cur[1]] < MaxAttempts
    BY <1>3, <1>t, <2>1 DEF BatchClaims, Claim, Admitted, Claimable, TypeOK
  <2>3. cur' \in Requests /\ cur' \in Tasks \X (0..MaxAttempts)
    BY <1>3, <2>1, <2>2, AuthorizationAssumption DEF BatchClaims, Requests
  <2>. QED
    BY <1>3, <1>t, <2>3 DEF BatchClaims, BatchTypeOK, WorkInv, BatchPcs, Choosing
<1>4. CASE ClaimRefused
  <2>1. CASE pc = "claim" /\ Goes("park")
    <3>1. taskStatus'[cur'[1]] \in Startable /\ cur'[1] \in Plan
      BY <1>4, <1>t, <2>1 DEF ClaimRefused, Goes, WorkInv, Choosing, vars, rowVars
    <3>. QED
      BY <2>1, <3>1, GoTyped DEF WorkInv, BatchPcs, Working
  <2>2. CASE pc = "claim" /\ Goes("forecast")
    <3>1. cur'[1] \in Plan
      BY <1>c, <2>2 DEF Goes, Choosing
    <3>. QED
      BY <2>2, <3>1, GoTyped DEF WorkInv, BatchPcs, Working
  <2>. QED
    BY <1>4, <1>e, <2>1, <2>2 DEF ClaimRefused
<1>5. CASE Park
  BY <1>5, <1>g DEF Park, BatchPcs, Choosing, Working
<1>6. CASE ComputeForecast
  <2>1. CASE RemainingForecast <= TotalUnits /\ pc' = "record" /\ bound' = RemainingForecast
             /\ UNCHANGED <<cur, got, offer, position, stops>>
    <3>1. cur'[1] \in Plan /\ bound' \in Nat
      BY <1>6, <1>c, <1>t, <2>1, ForecastTyped DEF ComputeForecast, Choosing
    <3>. QED
      BY <1>t, <2>1, <3>1 DEF BatchTypeOK, WorkInv, BatchPcs, Working
  <2>. QED
    BY <1>6, <1>e, <2>1 DEF ComputeForecast
<1>7. CASE RecordBound
  <2>1. cur'[1] \in Plan
    BY <1>7, <1>c DEF RecordBound, Choosing
  <2>. QED
    BY <1>7, <1>t, <2>1 DEF RecordBound, BatchTypeOK, WorkInv, BatchPcs, Working
<1>8. CASE Send \/ Submit \/ Lost \/ LostBill \/ Report
  <2>1. cur \in Requests
    BY <1>8, <1>w DEF Send, Submit, Lost, LostBill, Report, Working
  <2>2. {"observe", "send", "submit", "lost", "lostBill", "bill"} \subseteq BatchPcs \ Choosing
    BY DEF BatchPcs, Choosing
  <2>3. CASE Ends /\ UNCHANGED stops
    BY <2>3, <1>e
  <2>. QED
    BY <1>8, <1>e, <1>g, <2>1, <2>2 DEF Send, Submit, Lost, LostBill, Report
<1>9. CASE ObserveProvider
  <2>1. cur \in Requests
    BY <1>9, <1>w DEF ObserveProvider, Working
  <2>2. got' \in Reports
    <3>1. job[cur] \in JobStates
      BY <1>t, <2>1
    <3>. QED
      BY <1>9, <3>1 DEF ObserveProvider, Answers, JobStates, Reports
  <2>. QED
    BY <1>9, <1>t, <2>1, <2>2 DEF ObserveProvider, BatchTypeOK, WorkInv, BatchPcs, Choosing
<1>10. CASE Bill
  <2>1. cur \in Requests
    BY <1>10, <1>w DEF Bill, Working
  <2>2. "verify" \in BatchPcs \ Choosing
    BY DEF BatchPcs, Choosing
  <2>. QED
    BY <1>10, <1>e, <1>b, <1>g, <2>1, <2>2 DEF Bill
<1>11. CASE Verify
  <2>1. cur \in Requests
    BY <1>11, <1>w DEF Verify, Working
  <2>2. CASE pc' = "assess" /\ offer' = [content |-> file[cur], verdict |-> "none"]
             /\ UNCHANGED <<cur, got, bound, position, stops>>
    <3>1. file[cur] \in 0..MaxReplacements
      BY <1>t, <2>1 DEF GateTypeOK
    <3>. QED
      BY <1>t, <2>1, <2>2, <3>1 DEF BatchTypeOK, WorkInv, BatchPcs, Choosing
  <2>. QED
    BY <1>11, <1>e, <1>b, <2>2 DEF Verify
<1>12. CASE Assess \/ Evaluate
  <2>1. cur \in Requests
    BY <1>12, <1>w DEF Assess, Evaluate, Working
  <2>2. "evaluate" \in BatchPcs \ Choosing
    BY DEF BatchPcs, Choosing
  <2>3. ASSUME NEW v \in Verdicts, Holds("judged", v) PROVE BatchTypeOK' /\ WorkInv'
    BY <1>t, <2>1, <2>3 DEF Holds, BatchTypeOK, WorkInv, BatchPcs, Choosing
  <2>4. Conclusive(cur) => quality[cur].verdict \in Verdicts
    BY DEF Conclusive, Verdicts
  <2>. QED
    BY <1>12, <1>e, <1>g, <2>1, <2>2, <2>3, <2>4 DEF Assess, Evaluate
<1>13. CASE Decide \/ PublishArtifact \/ AcceptPublished
  <2>1. cur \in Requests
    BY <1>13, <1>w DEF Decide, PublishArtifact, AcceptPublished, Working
  <2>2. {"publish", "accept"} \subseteq BatchPcs \ Choosing
    BY DEF BatchPcs, Choosing
  <2>. QED
    BY <1>13, <1>e, <1>b, <1>g, <2>1, <2>2 DEF Decide, PublishArtifact, AcceptPublished
<1>14. CASE Tally \/ Capture \/ OpenSweep \/ SweepRow \/ SweepEnds
  <2>1. {"capture", "open", "sweep"} \subseteq BatchPcs \ (Choosing \cup Working)
    BY DEF BatchPcs, Choosing, Working
  <2>. QED
    BY <1>14, <1>e, <1>g, <2>1 DEF Tally, Capture, OpenSweep, SweepRow, SweepEnds
<1>15. CASE BatchStops
  <2>1. stops' \in 0..MaxStops
    BY <1>15, <1>s, RunnerAssumption DEF BatchStops
  <2>. QED
    BY <1>15, <2>1, EndTyped DEF BatchStops, WorkInv, Choosing, Working
<1>. QED
  BY <1>1, <1>2, <1>3, <1>4, <1>5, <1>6, <1>7, <1>8, <1>9, <1>10, <1>11, <1>12, <1>13, <1>14,
     <1>15 DEF BatchStep

(* Nobody but the batch takes a row from those that wait for a claim: its  *)
(* latest attempt is closed, so that no report reaches it.                 *)
LEMMA StartableStays ==
  ASSUME TypeOK, RowInv, NEW t \in Tasks, taskStatus[t] \in Startable,
         NEW r \in Requests, NEW s \in Reports, NEW changed \in SUBSET Tasks,
         UNCHANGED taskStatus \/ Observe(r, s) \/ Invalidate(changed)
  PROVE  taskStatus'[t] \in Startable
<1>1. CASE Observe(r, s)
  <2>1. r[1] # t
    <3>. SUFFICES ASSUME r[1] = t PROVE FALSE
      OBVIOUS
    <3>1. request[t] = r[2] /\ request[t] # 0 /\ Latest(t) = attempt[r]
      BY <1>1, RequestPair DEF Observe, Fence, Latest
    <3>2. taskStatus[t] \in Live
      BY <1>1, <3>1 DEF Observe, Reportable, RowInv, LatestInStep, FollowsRequest
    <3>. QED
      BY <3>2 DEF Live, Startable, Retryable
  <2>. QED
    BY <1>1, <2>1 DEF Observe, TypeOK
<1>2. CASE Invalidate(changed)
  BY <1>2 DEF Invalidate, Startable
<1>. QED
  BY <1>1, <1>2

LEMMA OutsideBatch ==
  ASSUME RunInv, [RunnerNext]_runnerVars, ~BatchStep, ~BatchStops
  PROVE  BatchTypeOK' /\ WorkInv' /\ UNCHANGED batchVars
<1>t. TypeOK /\ RowInv /\ BatchTypeOK /\ WorkInv /\ cancelReq \in Requests
  BY DEF RunInv, RunnerTypeOK, BatchTypeOK
<1>1. UNCHANGED batchVars
  BY DEF RunnerNext, CancelStep, CancelStarts, CancelIntent, CancelContact, CancelRecord,
     CancelReport, CancelBill, CancelDies, JobMoves, ProviderReplaces, OperatorInvalidates,
     OperatorPauses, OperatorWithholds, TimePasses, Batch, runnerVars
<1>2. \/ UNCHANGED taskStatus
      \/ Observe(cancelReq, "cancelled")
      \/ \E changed \in SUBSET Plan : Invalidate(changed)
  BY DEF RunnerNext, CancelStep, CancelStarts, CancelIntent, CancelContact, CancelRecord,
     CancelReport, CancelBill, CancelDies, JobMoves, ProviderReplaces, OperatorInvalidates,
     OperatorPauses, OperatorWithholds, TimePasses, runnerVars, ReportCall, ReportRefused,
     LeaveUnknown, SettleUnknown, Pause, Hold, Revoke, AuthorizationLapses, LeaseExpires,
     vars, rowVars
<1>3. ASSUME pc \in {"claim", "park"} PROVE taskStatus'[cur[1]] \in Startable
  <2>1. cur[1] \in Tasks /\ taskStatus[cur[1]] \in Startable
    BY <1>t, <1>3, PlanIn DEF WorkInv, Choosing
  <2>2. "cancelled" \in Reports /\ SUBSET Plan \subseteq SUBSET Tasks
    BY PlanIn DEF Reports
  <2>. QED
    BY <1>t, <1>2, <2>1, <2>2, StartableStays
<1>. QED
  BY <1>t, <1>1, <1>3 DEF BatchTypeOK, WorkInv, batchVars

LEMMA CancelTyped ==
  ASSUME RunInv, [RunnerNext]_runnerVars
  PROVE  /\ cancelPc' \in CancelPcs /\ cancelReq' \in Requests
         /\ cancelGot' \in {"cancelled", "unconfirmed"}
         /\ cancelState' \in [Requests -> {"none", "requested", "cancelled", "unconfirmed"}]
<1>t. /\ cancelPc \in CancelPcs /\ cancelReq \in Requests
      /\ cancelGot \in {"cancelled", "unconfirmed"}
      /\ cancelState \in [Requests -> {"none", "requested", "cancelled", "unconfirmed"}]
  BY DEF RunInv, RunnerTypeOK
<1>1. CASE UNCHANGED <<cancelVars, cancelState>>
  BY <1>t, <1>1 DEF cancelVars
<1>2. CASE CancelStep
  BY <1>t, <1>2, PlanIn DEF CancelStep, CancelStarts, CancelIntent, CancelContact,
     CancelRecord, CancelReport, CancelBill, CancelDies, CancelGoes, CancelEnds, CancelPcs
<1>3. CASE BatchStep \/ BatchStops
  BY <1>1, <1>3 DEF BatchStep, BatchStarts, Scan, BatchClaims, ClaimRefused, Park, ComputeForecast,
     RecordBound, Send, Submit, Lost, LostBill, ObserveProvider, Report, Bill, Verify, Assess,
     Evaluate, Decide, PublishArtifact, AcceptPublished, Tally, Capture, OpenSweep, SweepRow,
     SweepEnds, BatchStops, Others, Elsewhere
<1>4. CASE (\E r \in Requests : JobMoves(r)) \/ ProviderReplaces \/ OperatorInvalidates
            \/ OperatorPauses \/ OperatorWithholds \/ TimePasses \/ UNCHANGED runnerVars
  BY <1>1, <1>4 DEF JobMoves, ProviderReplaces, OperatorInvalidates,
     OperatorPauses, OperatorWithholds, TimePasses, runnerVars, Others, Elsewhere
<1>. QED
  BY <1>2, <1>3, <1>4 DEF RunnerNext

(* Only a submission, a job that ends and a cancellation reach the provider. *)
LEMMA ProviderMoves ==
  ASSUME RunInv, [RunnerNext]_runnerVars
  PROVE  \/ UNCHANGED providerVars
         \/ /\ pc = "submit" /\ cur \in Requests /\ UNCHANGED vars /\ pc' # "submit"
            /\ sends' = [sends EXCEPT ![cur] = @ + 1]
            /\ job' = [job EXCEPT ![cur] = "running"]
         \/ /\ UNCHANGED <<vars, sends>>
            /\ \E r \in Requests : \E s \in {"produced", "failed", "cancelled"} :
                 job[r] = "running" /\ job' = [job EXCEPT ![r] = s]
<1>t. cancelReq \in Requests
  BY DEF RunInv, RunnerTypeOK
<1>1. CASE Submit
  <2>1. cur \in Requests
    BY <1>1 DEF Submit, RunInv, WorkInv, Working
  <2>. QED
    BY <1>1, <2>1 DEF Submit, Goes
<1>2. CASE CancelStep
  BY <1>2, <1>t DEF CancelStep, CancelStarts, CancelIntent, CancelContact,
     CancelRecord, CancelReport, CancelBill, CancelDies, providerVars
<1>3. CASE \/ BatchStarts \/ Scan \/ BatchClaims \/ ClaimRefused \/ Park \/ ComputeForecast
           \/ RecordBound \/ Send \/ Lost \/ LostBill \/ ObserveProvider \/ Report
           \/ Bill \/ Verify \/ Assess \/ Evaluate \/ Decide \/ PublishArtifact
           \/ AcceptPublished \/ Tally \/ Capture \/ OpenSweep \/ SweepRow \/ SweepEnds
           \/ BatchStops
  BY <1>3 DEF BatchStarts, Scan, BatchClaims, ClaimRefused, Park, ComputeForecast,
     RecordBound, Send, Lost, LostBill, ObserveProvider, Report, Bill, Verify, Assess,
     Evaluate, Decide, PublishArtifact, AcceptPublished, Tally, Capture, OpenSweep, SweepRow,
     SweepEnds, BatchStops, Others, Elsewhere
<1>4. CASE ProviderReplaces \/ OperatorInvalidates
            \/ OperatorPauses \/ OperatorWithholds \/ TimePasses \/ UNCHANGED runnerVars
  BY <1>4 DEF ProviderReplaces, OperatorInvalidates,
     OperatorPauses, OperatorWithholds, TimePasses, runnerVars, Others, Elsewhere
<1>5. CASE \E r \in Requests : JobMoves(r)
  BY <1>5 DEF JobMoves
<1>. QED
  BY <1>1, <1>2, <1>3, <1>4, <1>5 DEF RunnerNext, BatchStep

(* Only the sweep itself, and the events of the execution, move the sweep.  *)
LEMMA SweepMoves ==
  ASSUME RunInv, [RunnerNext]_runnerVars
  PROVE  Calm \/ Touch \/ ((Capture \/ OpenSweep \/ SweepRow \/ SweepEnds) /\ UNCHANGED vars)
<1>1. CASE BatchStep \/ BatchStops
  BY <1>1 DEF BatchStep, BatchStarts, Scan, BatchClaims, ClaimRefused, Park, ComputeForecast,
     RecordBound, Send, Submit, Lost, LostBill, ObserveProvider, Report, Bill, Verify, Assess,
     Evaluate, Decide, PublishArtifact, AcceptPublished, Tally, Capture, OpenSweep, SweepRow,
     SweepEnds, BatchStops, ReportCall, ReportRefused
<1>2. CASE CancelStep \/ (\E r \in Requests : JobMoves(r)) \/ ProviderReplaces
            \/ OperatorInvalidates \/ OperatorPauses \/ OperatorWithholds \/ TimePasses
            \/ UNCHANGED runnerVars
  BY <1>2 DEF CancelStep, CancelStarts, CancelIntent, CancelContact,
     CancelRecord, CancelReport, CancelBill, CancelDies, ReportCall, ReportRefused, JobMoves,
     ProviderReplaces, OperatorInvalidates, OperatorPauses, OperatorWithholds, TimePasses,
     runnerVars, Calm
<1>. QED
  BY <1>1, <1>2 DEF RunnerNext

SweepTypeOK ==
  /\ captured \in BOOLEAN
  /\ sweep \in [phase: {"none", "verify", "complete"}, position: Nat, fresh: BOOLEAN]
  /\ seen \in [Tasks -> 0..MaxAttempts]

LEMMA SweepTyped ==
  ASSUME RunInv, [RunnerNext]_runnerVars
  PROVE  SweepTypeOK'
<1>t. SweepTypeOK /\ TypeOK
  BY DEF RunInv, RunnerTypeOK, SweepTypeOK
<1>1. CASE Calm
  BY <1>t, <1>1 DEF Calm, sweepVars, SweepTypeOK
<1>2. CASE Touch
  BY <1>t, <1>2 DEF Touch, SweepTypeOK
<1>3. CASE Capture
  BY <1>t, <1>3 DEF Capture, SweepTypeOK
<1>6. CASE OpenSweep
  <2>1. 0 \in 0..MaxAttempts
    BY AuthorizationAssumption
  <2>2. CASE /\ sweep' = [phase |-> "verify", position |-> 0, fresh |-> captured]
             /\ seen' = [t \in Tasks |-> 0]
             /\ UNCHANGED captured
    BY <1>t, <2>1, <2>2 DEF SweepTypeOK
  <2>. QED
    BY <1>1, <1>6, <2>2 DEF OpenSweep
<1>4. CASE SweepRow
  <2>. DEFINE t == First(Unswept)
  <2>1. t \in Unswept
    BY <1>4, PlanIn, FirstIs DEF SweepRow, Unswept
  <2>2. request[t] \in 0..MaxAttempts /\ Ordinal[t] + 1 \in Nat
    BY <1>t, <2>1, PlanIn, RunnerAssumption DEF Unswept, TypeOK
  <2>. QED
    BY <1>t, <1>1, <1>4, <2>2 DEF SweepRow, SweepTypeOK
<1>5. CASE SweepEnds
  BY <1>t, <1>1, <1>5 DEF SweepEnds, SweepTypeOK
<1>. QED
  BY <1>1, <1>2, <1>3, <1>4, <1>5, <1>6, SweepMoves

(* Every step of every process keeps the invariant.                        *)
LEMMA RunStep ==
  ASSUME RunInv, [RunnerNext]_runnerVars
  PROVE  RunInv'
<1>1. [Next]_vars /\ TypeOK /\ RowInv /\ RowShows
  BY StepUsesStore DEF RunInv, RunnerTypeOK
<1>2. TypeOK' /\ RowInv' /\ RowShows'
  BY <1>1, TypeStep, RowStep, RowShowsStep
<1>3. BatchTypeOK' /\ WorkInv'
  BY BatchTyped, OutsideBatch
<1>4. job' \in [Requests -> JobStates] /\ sends' \in [Requests -> Nat]
  <2>1. job \in [Requests -> JobStates] /\ sends \in [Requests -> Nat]
    BY DEF RunInv, RunnerTypeOK
  <2>. QED
    BY <2>1, ProviderMoves DEF JobStates, providerVars
<1>. QED
  BY <1>2, <1>3, <1>4, GateTyped, CancelTyped, SweepTyped
     DEF RunInv, RunnerTypeOK, BatchTypeOK, SweepTypeOK

LEMMA RunnerStarts ==
  ASSUME RunnerInit
  PROVE  RunInv
<1>1. Init /\ RowInv /\ TypeOK
  BY InitTyped, InitRows DEF RunnerInit
<1>2. GateTypeOK
  BY GateAssumption DEF RunnerInit, GateInit, GateTypeOK, NoResult
<1>3. Nothing \in [content: 0..MaxReplacements, verdict: Verdicts \cup {"none"}]
  BY GateAssumption DEF Nothing
<1>4. RunnerTypeOK
  <2>1. BatchTypeOK
    <3>1. 0 \in 0..MaxStops
      BY RunnerAssumption
    <3>. QED
      BY <1>3, <3>1, PlanIn DEF RunnerInit, BatchTypeOK, BatchPcs, Reports
  <2>2. SweepTypeOK
    <3>1. 0 \in 0..MaxAttempts
      BY AuthorizationAssumption
    <3>2. seen \in [Tasks -> 0..MaxAttempts]
      BY <3>1 DEF RunnerInit
    <3>3. captured \in BOOLEAN /\ NoSweep \in [phase: {"none", "verify", "complete"}, position: Nat, fresh: BOOLEAN]
      BY DEF RunnerInit, NoSweep
    <3>. QED
      BY <3>2, <3>3 DEF RunnerInit, SweepTypeOK
  <2>3. job \in [Requests -> JobStates] /\ sends \in [Requests -> Nat]
    BY DEF RunnerInit, JobStates
  <2>4. /\ cancelPc \in CancelPcs /\ cancelReq \in Requests
        /\ cancelGot \in {"cancelled", "unconfirmed"}
        /\ cancelState \in [Requests -> {"none", "requested", "cancelled", "unconfirmed"}]
    BY PlanIn DEF RunnerInit, CancelPcs
  <2>. QED
    BY <1>1, <1>2, <2>1, <2>2, <2>3, <2>4 DEF RunnerTypeOK, BatchTypeOK, SweepTypeOK
<1>5. RowShows /\ WorkInv
  BY DEF RunnerInit, Init, RowShows, WorkInv, Live, Choosing, Working
<1>. QED
  BY <1>1, <1>4, <1>5 DEF RunInv

(* The variables of all processes keep their domains, whoever dies when.    *)
THEOREM RunnerTyped == RunnerSpec => []RunnerTypeOK
<1>1. RunInv => RunnerTypeOK
  BY DEF RunInv
<1>. QED
  BY <1>1, RunnerStarts, RunStep, PTL DEF RunnerSpec

(* The batch, the cancel command and the operators use the store only as   *)
(* its specification allows, although the batch decides on rows it read    *)
(* earlier, parks a row by its name alone and records a bound it computed  *)
(* outside any transaction.  All that is proved of the store therefore     *)
(* holds of the processes together.                                        *)
THEOREM ProcessesUseStore == RunnerSpec => UsesStore
<1>1. RunnerInit => Init
  BY DEF RunnerInit
<1>2. RunInv /\ [RunnerNext]_runnerVars => [Next]_vars
  BY StepUsesStore
<1>. QED
  BY <1>1, <1>2, RunnerStarts, RunStep, PTL DEF RunnerSpec, UsesStore, Spec

----------------------------------------------------------------------------
(* The provider's jobs and what the store says of them.                    *)

\* A step that gives no attempt a new status and passes no intent on.
QuietAttempts ==
  \A q \in Requests : /\ attempt'[q].status = attempt[q].status
                      /\ attempt'[q].outbox = attempt[q].outbox

LEMMA AttemptMoves ==
  ASSUME RunInv, [RunnerNext]_runnerVars
  PROVE  \/ QuietAttempts
         \/ pc \in {"claim", "reclaim"} /\ cur[1] \in Tasks /\ Claim(cur[1])
         \/ /\ cur \in Requests
            /\ \/ pc = "send" /\ MarkSending(cur)
               \/ pc = "lost" /\ Observe(cur, "unknown")
               \/ pc = "report" /\ Observe(cur, got)
               \/ pc = "verify" /\ ~Gated /\ Accept(cur) /\ pc' = "scan"
               \/ pc = "accept" /\ Acceptable(cur) /\ Accept(cur) /\ pc' = "scan"
               \/ pc \in {"verify", "judged"} /\ Reject(cur)
         \/ cancelPc = "report" /\ Observe(cancelReq, "cancelled")
<1>t. TypeOK /\ cancelReq \in Requests
  BY DEF RunInv, RunnerTypeOK
<1>w. pc \in Working => cur \in Requests
  BY DEF RunInv, WorkInv
<1>v. UNCHANGED vars => QuietAttempts
  BY DEF vars, QuietAttempts
<1>q. ASSUME NEW r \in Requests, LeaseExpires(r) \/ RenewPrepared(r) \/ LeaveUnknown(r) \/ BillCall(r)
      PROVE  QuietAttempts
  BY <1>t, <1>v, <1>q DEF LeaseExpires, RenewPrepared, LeaveUnknown, SettleUnknown, BillCall, Settle,
     TypeOK, AttemptRecord, QuietAttempts
<1>1. CASE BatchStarts \/ Park \/ RecordBound
  BY <1>1 DEF BatchStarts, ReleaseParked, Park, RecordBound, RecordForecast, QuietAttempts
<1>2. CASE BatchClaims
  BY <1>2, PlanIn DEF BatchClaims, RunInv, WorkInv, Choosing
<1>3. CASE Send \/ Lost \/ LostBill \/ Report \/ Bill \/ Verify \/ Decide \/ AcceptPublished
  <2>1. cur \in Requests
    BY <1>3, <1>w DEF Send, Lost, LostBill, Report, Bill, Verify, Decide, AcceptPublished, Working
  <2>. QED
    BY <1>3, <1>v, <1>q, <2>1 DEF Send, Lost, LostBill, Report, Bill, Verify, Decide,
       AcceptPublished, ReportCall, ReportRefused, BackToScan
<1>4. CASE Scan \/ ClaimRefused \/ ComputeForecast \/ Submit \/ ObserveProvider \/ Assess
            \/ Evaluate \/ PublishArtifact \/ Tally \/ Capture \/ OpenSweep \/ SweepRow
            \/ SweepEnds \/ BatchStops
  BY <1>4, <1>v DEF Scan, ClaimRefused, ComputeForecast, Submit, ObserveProvider, Assess, Evaluate,
     PublishArtifact, Tally, Capture, OpenSweep, SweepRow, SweepEnds, BatchStops
<1>5. CASE CancelStep
  BY <1>5, <1>t, <1>v, <1>q DEF CancelStep, CancelStarts, CancelIntent, CancelContact,
     CancelRecord, CancelReport, CancelBill, CancelDies, ReportCall, ReportRefused
<1>6. CASE (\E r \in Requests : JobMoves(r)) \/ ProviderReplaces \/ UNCHANGED runnerVars
  BY <1>6, <1>v DEF JobMoves, ProviderReplaces, runnerVars
<1>7. CASE OperatorInvalidates
  BY <1>7, <1>t DEF OperatorInvalidates, Invalidate, TypeOK, AttemptRecord, QuietAttempts
<1>8. CASE OperatorPauses \/ OperatorWithholds \/ TimePasses
  BY <1>8, <1>q DEF OperatorPauses, OperatorWithholds, TimePasses, Pause, Hold, Revoke,
     AuthorizationLapses, QuietAttempts
<1>. QED
  BY <1>1, <1>2, <1>3, <1>4, <1>5, <1>6, <1>7, <1>8 DEF RunnerNext, BatchStep

(* How the batch comes to submit and to report.                            *)
LEMMA PcMoves ==
  ASSUME RunInv, [RunnerNext]_runnerVars
  PROVE  /\ pc' = "submit" => UNCHANGED batchVars \/ (pc = "send" /\ MarkSending(cur) /\ cur' = cur)
         /\ pc' = "report" => UNCHANGED batchVars \/ ObserveProvider
<1>1. CASE Send
  BY <1>1 DEF Send, Ends, Goes
<1>2. CASE BatchStarts \/ Scan \/ BatchClaims \/ ClaimRefused \/ Park \/ ComputeForecast
            \/ RecordBound \/ Submit \/ Lost \/ LostBill \/ Report \/ Bill
  BY <1>2 DEF BatchStarts, Scan, BatchClaims, ClaimRefused, Park, ComputeForecast,
     RecordBound, Submit, Lost, LostBill, Report, Bill, Ends, BackToScan, Goes
<1>3. CASE Verify \/ Assess \/ Evaluate \/ Decide \/ PublishArtifact \/ AcceptPublished \/ Tally
            \/ Capture \/ OpenSweep \/ SweepRow \/ SweepEnds \/ BatchStops
  BY <1>3 DEF Verify, Assess, Evaluate, Decide, PublishArtifact, AcceptPublished, Tally,
     Capture, OpenSweep, SweepRow, SweepEnds, BatchStops, Ends, BackToScan, Goes, Holds
<1>4. CASE ObserveProvider
  BY <1>4 DEF ObserveProvider
<1>. QED
  BY <1>1, <1>2, <1>3, <1>4, OutsideBatch DEF BatchStep

Sent == {"sending", "observed"}

\* A provider receives what has left the outbox and nothing twice; what it
\* has ended, it never takes up again, and every verdict of the store rests
\* on such an end.
JobInv ==
  /\ \A r \in Requests : sends[r] \in {0, 1} /\ (job[r] = "none" <=> sends[r] = 0)
  /\ \A r \in Requests : sends[r] # 0 => attempt[r].outbox \in Sent
  /\ \A r \in Requests : attempt[r].outbox # "none" => attempt[r].status # "none"
  /\ \A r \in Requests : attempt[r].status \in {"produced", "failed", "cancelled"}
                           => job[r] = attempt[r].status
  /\ \A r \in Requests : attempt[r].status \in {"rejected", "machine_accepted"}
                           => job[r] = "produced"
  /\ \A r \in Requests : cancelState[r] = "cancelled" => job[r] = "cancelled"
  /\ pc = "submit" => sends[cur] = 0 /\ attempt[cur].outbox \in Sent
  /\ pc = "report" /\ got \in {"produced", "failed", "cancelled"} => job[cur] = got
  /\ cancelPc = "record" /\ cancelGot = "cancelled" => job[cancelReq] = "cancelled"
  /\ cancelPc = "report" => job[cancelReq] = "cancelled"

LEMMA JobEnds ==
  ASSUME RunInv, JobInv, [RunnerNext]_runnerVars, NEW r \in Requests
  PROVE  /\ job[r] \in {"produced", "failed", "cancelled"} => job'[r] = job[r]
         /\ sends'[r] \in {0, 1} /\ (job'[r] = "none" <=> sends'[r] = 0)
         /\ sends'[r] # 0 /\ sends[r] = 0 => pc = "submit" /\ pc' # "submit" /\ r = cur /\ UNCHANGED vars
<1>t. job \in [Requests -> JobStates] /\ sends \in [Requests -> Nat]
  BY DEF RunInv, RunnerTypeOK
<1>. QED
  BY <1>t, ProviderMoves DEF JobInv, providerVars

\* An attempt only takes a status that the provider's job explains.
Follows(r) ==
  /\ attempt[r].outbox \in Sent => attempt'[r].outbox \in Sent
  /\ attempt'[r].outbox # "none" => attempt'[r].status # "none"
  /\ attempt'[r].status \in {"produced", "failed", "cancelled"} => job[r] = attempt'[r].status
  /\ attempt'[r].status \in {"rejected", "machine_accepted"} => job[r] = "produced"

LEMMA AttemptsFollow ==
  ASSUME RunInv, JobInv, [RunnerNext]_runnerVars, NEW r \in Requests
  PROVE  Follows(r)
<1>t. TypeOK /\ RowInv /\ got \in Reports /\ cancelReq \in Requests
  BY DEF RunInv, RunnerTypeOK
<1>a. attempt[r] \in AttemptRecord
  BY <1>t DEF TypeOK
<1>1. CASE QuietAttempts
  BY <1>1 DEF QuietAttempts, JobInv, Follows
<1>2. ASSUME NEW t \in Tasks, Claim(t)
      PROVE  Follows(r)
  <2>. DEFINE new == <<t, request[t] + 1>>
  <2>1. new \in Requests /\ request[t] \in Nat
    BY <1>2, <1>t, AuthorizationAssumption DEF Claim, Admitted, Claimable, TypeOK, Requests
  <2>2. attempt'[new].status = "reserved"
    BY <1>2, <1>t, <2>1 DEF Claim, TypeOK, NoAttempt
  <2>4. attempt[new] = NoAttempt
    BY <1>t, <2>1 DEF RowInv, AttemptsInOrder
  <2>3. \A q \in Requests : q # new => attempt'[q] = attempt[q]
    BY <1>2, <1>t, <2>1 DEF Claim, TypeOK
  <2>. QED
    BY <2>1, <2>2, <2>3, <2>4 DEF Follows, JobInv, Sent, NoAttempt
<1>3. ASSUME NEW q \in Requests, NEW s \in Reports, Observe(q, s),
             s \in {"produced", "failed", "cancelled"} => job[q] = s
      PROVE  Follows(r)
  <2>1. /\ attempt'[q].status = s
        /\ attempt'[q].outbox = IF s = "unknown" THEN attempt[q].outbox ELSE "observed"
        /\ \A p \in Requests : p # q => attempt'[p] = attempt[p]
    BY <1>3, <1>t DEF Observe, TypeOK, AttemptRecord
  <2>. QED
    BY <1>3, <2>1 DEF Follows, JobInv, Sent, Reports
<1>4. ASSUME NEW q \in Requests, MarkSending(q)
      PROVE  Follows(r)
  <2>1. /\ attempt'[q].status = "submitted" /\ attempt'[q].outbox = "sending"
        /\ \A p \in Requests : p # q => attempt'[p] = attempt[p]
    BY <1>4, <1>t DEF MarkSending, TypeOK, AttemptRecord
  <2>. QED
    BY <2>1 DEF Follows, JobInv, Sent
<1>5. ASSUME NEW q \in Requests, Accept(q) \/ Reject(q)
      PROVE  Follows(r)
  <2>1. /\ attempt'[q].status \in {"machine_accepted", "rejected"}
        /\ attempt[q].status = "produced" /\ attempt'[q].outbox = attempt[q].outbox
        /\ \A p \in Requests : p # q => attempt'[p] = attempt[p]
    BY <1>5, <1>t DEF Accept, Reject, TypeOK, AttemptRecord
  <2>. QED
    BY <2>1 DEF Follows, JobInv
<1>6. {"unknown", "cancelled"} \subseteq Reports
  BY DEF Reports
<1>7. CASE cur \in Requests /\ pc = "report" /\ Observe(cur, got)
  BY <1>t, <1>3, <1>7 DEF JobInv
<1>8. CASE cur \in Requests /\ pc = "lost" /\ Observe(cur, "unknown")
  BY <1>3, <1>6, <1>8
<1>9. CASE cancelPc = "report" /\ Observe(cancelReq, "cancelled")
  BY <1>t, <1>3, <1>6, <1>9 DEF JobInv
<1>. QED
  BY <1>1, <1>2, <1>4, <1>5, <1>7, <1>8, <1>9, AttemptMoves

(* How a cancellation is recorded.                                         *)
LEMMA CancelMoves ==
  ASSUME RunInv, JobInv, [RunnerNext]_runnerVars
  PROVE  /\ \A r \in Requests : cancelState'[r] = "cancelled" =>
              \/ cancelState[r] = "cancelled"
              \/ cancelPc = "record" /\ cancelGot = "cancelled" /\ r = cancelReq
         /\ cancelPc' = "record" /\ cancelGot' = "cancelled" =>
              \/ cancelPc = "record" /\ UNCHANGED cancelVars
              \/ job'[cancelReq'] = "cancelled"
         /\ cancelPc' = "report" =>
              \/ cancelPc = "report" /\ UNCHANGED cancelVars
              \/ /\ cancelPc = "record" /\ cancelGot = "cancelled" /\ cancelReq' = cancelReq
<1>t. /\ cancelPc \in CancelPcs /\ cancelReq \in Requests
      /\ cancelState \in [Requests -> {"none", "requested", "cancelled", "unconfirmed"}]
      /\ job \in [Requests -> JobStates]
  BY DEF RunInv, RunnerTypeOK
<1>1. CASE UNCHANGED <<cancelVars, cancelState>>
  BY <1>1 DEF cancelVars
<1>2. CASE CancelIntent \/ CancelRecord
  BY <1>2, <1>t DEF CancelIntent, CancelRecord, CancelGoes, CancelEnds
<1>3. CASE CancelContact
  BY <1>3, <1>t DEF CancelContact
<1>4. CASE (\E r \in Requests : CancelStarts(r)) \/ CancelReport \/ CancelBill \/ CancelDies
  BY <1>4, <1>t DEF CancelStarts, CancelReport, CancelBill, CancelDies, CancelGoes, CancelEnds
<1>5. CASE BatchStep \/ BatchStops
  BY <1>1, <1>5 DEF BatchStep, BatchStarts, Scan, BatchClaims, ClaimRefused, Park, ComputeForecast,
     RecordBound, Send, Submit, Lost, LostBill, ObserveProvider, Report, Bill, Verify, Assess,
     Evaluate, Decide, PublishArtifact, AcceptPublished, Tally, Capture, OpenSweep, SweepRow,
     SweepEnds, BatchStops, Others, Elsewhere
<1>6. CASE (\E r \in Requests : JobMoves(r)) \/ ProviderReplaces \/ OperatorInvalidates
            \/ OperatorPauses \/ OperatorWithholds \/ TimePasses \/ UNCHANGED runnerVars
  BY <1>1, <1>6 DEF JobMoves, ProviderReplaces, OperatorInvalidates,
     OperatorPauses, OperatorWithholds, TimePasses, runnerVars, Others, Elsewhere
<1>. QED
  BY <1>2, <1>3, <1>4, <1>5, <1>6 DEF RunnerNext, CancelStep

LEMMA JobStep ==
  ASSUME RunInv, JobInv, [RunnerNext]_runnerVars
  PROVE  JobInv'
<1>t. /\ RunInv' /\ TypeOK /\ job \in [Requests -> JobStates] /\ cancelReq \in Requests
      /\ pc \in Working => cur \in Requests
  BY RunStep DEF RunInv, RunnerTypeOK, WorkInv
<1>1. \A r \in Requests : sends'[r] \in {0, 1} /\ (job'[r] = "none" <=> sends'[r] = 0)
  BY JobEnds
<1>2. \A r \in Requests : sends'[r] # 0 => attempt'[r].outbox \in Sent
  <2>. TAKE r \in Requests
  <2>1. CASE sends[r] # 0
    BY <2>1, AttemptsFollow DEF JobInv, Follows
  <2>2. CASE sends[r] = 0 /\ sends'[r] # 0
    BY <2>2, JobEnds DEF JobInv, vars
  <2>. QED
    BY <2>1, <2>2
<1>3. \A r \in Requests :
        /\ attempt'[r].outbox # "none" => attempt'[r].status # "none"
        /\ attempt'[r].status \in {"produced", "failed", "cancelled"} => job'[r] = attempt'[r].status
        /\ attempt'[r].status \in {"rejected", "machine_accepted"} => job'[r] = "produced"
  <2>. TAKE r \in Requests
  <2>1. Follows(r) /\ (job[r] \in {"produced", "failed", "cancelled"} => job'[r] = job[r])
    BY AttemptsFollow, JobEnds
  <2>. QED
    BY <2>1 DEF Follows
<1>4. \A r \in Requests : cancelState'[r] = "cancelled" => job'[r] = "cancelled"
  BY <1>t, CancelMoves, JobEnds DEF JobInv
<1>5. pc' = "submit" => sends'[cur'] = 0 /\ attempt'[cur'].outbox \in Sent
  <2>. HAVE pc' = "submit"
  <2>1. CASE UNCHANGED batchVars
    <3>1. cur \in Requests /\ pc = "submit" /\ cur' = cur /\ attempt[cur].outbox \in Sent
      BY <1>t, <2>1 DEF batchVars, Working, JobInv
    <3>3. sends'[cur] = 0
      BY <2>1, <3>1, JobEnds DEF batchVars, JobInv
    <3>. QED
      BY <3>1, <3>3, AttemptsFollow DEF JobInv, Follows
  <2>2. CASE pc = "send" /\ MarkSending(cur) /\ cur' = cur
    <3>1. cur \in Requests /\ attempt[cur].outbox = "prepared"
      BY <1>t, <2>2 DEF Working, MarkSending, Unsent
    <3>2. sends[cur] = 0
      BY <3>1 DEF JobInv, Sent
    <3>3. sends'[cur] = 0
      BY <2>2, <3>1, <3>2, JobEnds
    <3>4. attempt'[cur].outbox = "sending"
      BY <1>t, <2>2, <3>1 DEF MarkSending, TypeOK, AttemptRecord
    <3>. QED
      BY <2>2, <3>3, <3>4 DEF Sent
  <2>. QED
    BY <2>1, <2>2, PcMoves
<1>6. pc' = "report" /\ got' \in {"produced", "failed", "cancelled"} => job'[cur'] = got'
  <2>1. CASE pc = "report" /\ UNCHANGED batchVars
    BY <1>t, <2>1, JobEnds DEF batchVars, Working, JobInv
  <2>2. CASE ObserveProvider
    <3>1. cur \in Requests /\ cur' = cur /\ got' \in Answers(cur) /\ job' = job
      BY <1>t, <2>2 DEF ObserveProvider, Working, Others, Elsewhere, providerVars
    <3>. QED
      BY <3>1 DEF Answers
  <2>. QED
    BY <2>1, <2>2, PcMoves DEF batchVars
<1>7. cancelPc' = "record" /\ cancelGot' = "cancelled" => job'[cancelReq'] = "cancelled"
  BY <1>t, CancelMoves, JobEnds DEF JobInv, cancelVars
<1>8. cancelPc' = "report" => job'[cancelReq'] = "cancelled"
  BY <1>t, CancelMoves, JobEnds DEF JobInv, cancelVars
<1>. QED
  BY <1>1, <1>2, <1>3, <1>4, <1>5, <1>6, <1>7, <1>8 DEF JobInv

LEMMA JobsStart ==
  ASSUME RunnerInit
  PROVE  JobInv
BY DEF RunnerInit, Init, NoAttempt, JobInv

(* The provider receives a request at most once, whoever dies when.         *)
THEOREM SentOnce == RunnerSpec => []SubmittedOnce
<1>1. JobInv => SubmittedOnce
  BY DEF JobInv, SubmittedOnce
<1>. QED
  BY <1>1, RunnerStarts, JobsStart, RunStep, JobStep, PTL DEF RunnerSpec

(* A cancellation the provider has confirmed is never followed by an        *)
(* acceptance, in whatever order the cancel command and the batch read the  *)
(* job and write its rows.                                                  *)
THEOREM ConfirmedStays == RunnerSpec => []ConfirmedStaysCancelled
<1>1. JobInv => ConfirmedStaysCancelled
  BY DEF JobInv, ConfirmedStaysCancelled
<1>. QED
  BY <1>1, RunnerStarts, JobsStart, RunStep, JobStep, PTL DEF RunnerSpec

(* A job that still runs belongs to an open and current request: nothing    *)
(* that is retried, invalidated or reported late goes past it.              *)
THEOREM RunningTracked == RunnerSpec => []RunningIsTracked
<1>1. RunInv /\ JobInv => RunningIsTracked
  <2>. SUFFICES ASSUME RunInv, JobInv, NEW r \in Requests, job[r] = "running"
                PROVE  attempt[r].status \in Live /\ Fence(r)
    BY DEF RunningIsTracked
  <2>1. TypeOK /\ RowInv /\ attempt[r] \in AttemptRecord
    BY DEF RunInv, RunnerTypeOK, TypeOK
  <2>2. attempt[r].status # "none"
    BY DEF JobInv, Sent
  <2>3. attempt[r].status \notin Final
    BY DEF JobInv, Final, Retryable
  <2>4. attempt[r].status \in Live
    BY <2>1, <2>2, <2>3 DEF AttemptRecord
  <2>. QED
    BY <2>1, <2>4, RowsReachable DEF LiveIsReachable
<1>. QED
  BY <1>1, RunnerStarts, JobsStart, RunStep, JobStep, PTL DEF RunnerSpec

----------------------------------------------------------------------------
(* The quality gate.                                                       *)

\* Until its verdict is in, what the batch works on is not accepted; and what
\* is accepted has been published as it was judged.
GateInv ==
  /\ pc \in Working => attempt[cur].status # "machine_accepted"
  /\ PublishedIsJudged

LEMMA ScanStarts ==
  ASSUME RunInv, Scan, pc' \in Working
  PROVE  attempt'[cur'].status # "machine_accepted"
<1>1. ReadyRows = {} /\ ActiveRows # {}
      /\ cur' = <<First(ActiveRows), request[First(ActiveRows)]>> /\ UNCHANGED vars
  BY DEF Scan, Working, Ends, Goes
<1>2. First(ActiveRows) \in Tasks /\ taskStatus[First(ActiveRows)] \in Live
  <2>1. First(ActiveRows) \in ActiveRows
    BY <1>1, PlanIn, FirstIs DEF ActiveRows
  <2>. QED
    BY <2>1, PlanIn DEF ActiveRows
<1>3. Latest(First(ActiveRows)).status \in Live
  BY <1>2 DEF RunInv, RowShows
<1>. QED
  BY <1>1, <1>3 DEF Latest, Live, vars

(* How the batch comes to its work.                                        *)
LEMMA WorkMoves ==
  ASSUME RunInv, [RunnerNext]_runnerVars, pc' \in Working
  PROVE  (pc \in Working /\ cur' = cur) \/ Scan \/ BatchClaims
<1>1. CASE BatchStarts \/ ClaimRefused \/ Park \/ ComputeForecast \/ RecordBound
            \/ Tally \/ Capture \/ OpenSweep \/ SweepRow \/ SweepEnds \/ BatchStops
  BY <1>1 DEF BatchStarts, ClaimRefused, Park, ComputeForecast, RecordBound,
     Tally, Capture, OpenSweep, SweepRow, SweepEnds, BatchStops, Ends, Goes, Working
<1>2. CASE Send \/ Submit \/ Lost \/ LostBill \/ ObserveProvider \/ Report \/ Bill
  BY <1>2 DEF Send, Submit, Lost, LostBill, ObserveProvider, Report, Bill, Ends, Goes,
     BackToScan, Working
<1>3. CASE Verify \/ Assess \/ Evaluate \/ Decide \/ PublishArtifact \/ AcceptPublished
  BY <1>3 DEF Verify, Assess, Evaluate, Decide, PublishArtifact, AcceptPublished, Ends, Goes,
     BackToScan, Holds, Working
<1>4. CASE ~BatchStep /\ ~BatchStops
  BY <1>4, OutsideBatch DEF batchVars
<1>. QED
  BY <1>1, <1>2, <1>3, <1>4 DEF BatchStep

(* Only the batch's own verdict accepts the request it works on.           *)
LEMMA AcceptMoves ==
  ASSUME RunInv, [RunnerNext]_runnerVars, NEW r \in Requests,
         attempt'[r].status = "machine_accepted", attempt[r].status # "machine_accepted"
  PROVE  /\ r = cur /\ pc \in {"verify", "accept"} /\ pc' = "scan" /\ Accept(cur)
         /\ Gated => Acceptable(cur)
<1>t. TypeOK /\ got \in Reports /\ cancelReq \in Requests
  BY DEF RunInv, RunnerTypeOK
<1>1. ~QuietAttempts
  BY DEF QuietAttempts
<1>2. \A t \in Tasks : ~Claim(t)
  <2>. SUFFICES ASSUME NEW t \in Tasks, Claim(t) PROVE FALSE
    OBVIOUS
  <2>1. \A q \in Requests : attempt'[q] = attempt[q] \/ attempt'[q].status = "reserved"
    BY <1>t DEF Claim, TypeOK, NoAttempt
  <2>. QED
    BY <2>1
<1>3. ASSUME NEW q \in Requests, NEW s \in Reports, MarkSending(q) \/ Reject(q) \/ Observe(q, s)
      PROVE  FALSE
  <2>1. \A p \in Requests : attempt'[p] = attempt[p] \/ attempt'[p].status \in Reports \cup {"submitted", "rejected"}
    BY <1>t, <1>3 DEF MarkSending, Reject, Observe, TypeOK, AttemptRecord
  <2>. QED
    BY <2>1 DEF Reports
<1>4. cur \in Requests /\ pc \in {"verify", "accept"} /\ pc' = "scan" /\ Accept(cur)
      /\ (Gated => Acceptable(cur))
  BY <1>t, <1>1, <1>2, <1>3, AttemptMoves DEF Reports
<1>5. r = cur
  BY <1>t, <1>4 DEF Accept, TypeOK
<1>. QED
  BY <1>4, <1>5

LEMMA GateKeeps ==
  ASSUME RunInv, GateInv, [RunnerNext]_runnerVars
  PROVE  GateInv'
<1>t. TypeOK /\ GateTypeOK /\ (pc \in Working => cur \in Requests)
  BY DEF RunInv, RunnerTypeOK, WorkInv
<1>1. ASSUME pc' \in Working PROVE attempt'[cur'].status # "machine_accepted"
  <2>1. CASE pc \in Working /\ cur' = cur
    <3>1. "scan" \notin Working
      BY DEF Working
    <3>. QED
      BY <1>t, <1>1, <2>1, <3>1, AcceptMoves DEF GateInv
  <2>2. CASE BatchClaims
    <3>1. cur[1] \in Tasks /\ Claim(cur[1]) /\ cur' = <<cur[1], request[cur[1]] + 1>>
      BY <1>t, <2>2, PlanIn DEF BatchClaims, Claim, RunInv, WorkInv, Choosing, TypeOK
    <3>2. cur' \in Requests
      BY <1>1, RunStep DEF RunInv, WorkInv
    <3>3. attempt'[cur'].status = "reserved"
      BY <1>t, <3>1, <3>2 DEF Claim, TypeOK, NoAttempt
    <3>. QED
      BY <3>3
  <2>. QED
    BY <1>1, <2>1, <2>2, ScanStarts, WorkMoves
<1>2. ASSUME Gated, NEW r \in Requests
      PROVE  started'[r] <= MaxEvaluations
  <2>1. started[r] <= MaxEvaluations /\ started[r] \in Nat /\ MaxEvaluations \in Nat
    BY <1>t, <1>2, GateAssumption DEF GateInv, PublishedIsJudged, GateTypeOK
  <2>2. CASE UNCHANGED gateVars
    BY <2>1, <2>2 DEF gateVars
  <2>3. ASSUME NEW q \in Requests, GateStep(q) PROVE started'[r] <= MaxEvaluations
    BY <1>t, <2>1, <2>3 DEF GateStep, StartEvaluation, Evaluable, RecordResult, RecordIntent,
       Publish, Replace, GateTypeOK
  <2>. QED
    BY <2>2, <2>3, GateMoves
<1>3. ASSUME Gated, NEW r \in Requests, attempt'[r].status = "machine_accepted"
      PROVE  quality'[r].verdict = "accept" /\ published'[r] = {quality'[r].content}
  <2>1. CASE attempt[r].status = "machine_accepted"
    <3>1. quality[r].verdict = "accept" /\ published[r] = {quality[r].content}
      BY <1>3, <2>1 DEF GateInv, PublishedIsJudged
    <3>2. CASE UNCHANGED gateVars
      BY <3>1, <3>2 DEF gateVars
    <3>3. ASSUME NEW q \in Requests, GateStep(q)
          PROVE  quality'[r] = quality[r] /\ published'[r] = published[r]
      <4>1. CASE pc \in Working /\ q = cur /\ q # r
        BY <1>t, <3>3, <4>1 DEF GateStep, StartEvaluation, RecordResult, RecordIntent, Publish,
           Replace, GateTypeOK
      <4>2. CASE Replace(q)
        BY <4>2 DEF Replace
      <4>3. pc \in Working => r # cur
        BY <2>1 DEF GateInv
      <4>. QED
        BY <3>3, <4>1, <4>2, <4>3 DEF GateStep, Working
    <3>. QED
      BY <3>1, <3>2, <3>3, GateMoves
  <2>2. CASE attempt[r].status # "machine_accepted"
    <3>1. r = cur /\ Acceptable(r)
      BY <1>3, <2>2, AcceptMoves
    <3>2. UNCHANGED gateVars
      BY <1>3, <2>2, GateMoves DEF vars
    <3>3. quality[r].verdict = "accept" /\ published[r] = {quality[r].content}
      BY <1>t, <3>1 DEF Acceptable, GateTypeOK
    <3>. QED
      BY <3>2, <3>3 DEF gateVars
  <2>. QED
    BY <2>1, <2>2
<1>. QED
  BY <1>1, <1>2, <1>3 DEF GateInv, PublishedIsJudged

(* Behind a quality gate only the published copy of the very content that   *)
(* was judged is accepted, and crashes buy no further evaluations.          *)
THEOREM PublishedJudged == RunnerSpec => []PublishedIsJudged
<1>1. RunnerInit => GateInv
  BY GateAssumption DEF RunnerInit, Init, NoAttempt, GateInit, GateInv, PublishedIsJudged, Working
<1>2. GateInv => PublishedIsJudged
  BY DEF GateInv
<1>. QED
  BY <1>1, <1>2, RunnerStarts, RunStep, GateKeeps, PTL DEF RunnerSpec

----------------------------------------------------------------------------
(* The sweep.                                                              *)

\* The rows before the sweep's position have been observed as they are.
SeenSoFar ==
  \A t \in Plan : Ordinal[t] < sweep.position => accepted[t] # 0 /\ seen[t] = accepted[t]

SweepInv ==
  /\ sweep.phase = "verify" /\ sweep.fresh => SeenSoFar
  /\ pc = "sweep" /\ captured => sweep.phase = "verify" /\ SeenSoFar

LEMMA VerdictsTouch ==
  ASSUME RunInv, [RunnerNext]_runnerVars
  PROVE  Touch \/ UNCHANGED accepted
<1>1. CASE BatchStarts \/ Scan \/ BatchClaims \/ ClaimRefused \/ Park \/ ComputeForecast
            \/ RecordBound \/ Send \/ Submit \/ Lost \/ LostBill \/ ObserveProvider \/ Report \/ Bill
  BY <1>1 DEF BatchStarts, ReleaseParked, Scan, BatchClaims, Claim, ClaimRefused, Park, ComputeForecast,
     RecordBound, RecordForecast, Send, RenewPrepared, MarkSending, Submit, Lost, LostBill,
     ObserveProvider, Report, Bill, ReportCall, ReportRefused, Observe, LeaveUnknown, SettleUnknown,
     BillCall, Settle, vars, rowVars
<1>2. CASE Verify \/ Assess \/ Evaluate \/ Decide \/ PublishArtifact \/ AcceptPublished
            \/ Tally \/ Capture \/ OpenSweep \/ SweepRow \/ SweepEnds \/ BatchStops
  BY <1>2 DEF Verify, Assess, Evaluate, Decide, PublishArtifact, AcceptPublished,
     Tally, Capture, OpenSweep, SweepRow, SweepEnds, BatchStops, vars, rowVars
<1>3. CASE CancelStep \/ (\E r \in Requests : JobMoves(r)) \/ ProviderReplaces
            \/ OperatorInvalidates \/ OperatorPauses \/ OperatorWithholds \/ TimePasses
            \/ UNCHANGED runnerVars
  BY <1>3 DEF CancelStep, CancelStarts, CancelIntent, CancelContact,
     CancelRecord, CancelReport, CancelBill, CancelDies, ReportCall, ReportRefused, Observe,
     LeaveUnknown, SettleUnknown, JobMoves, ProviderReplaces, OperatorInvalidates, OperatorPauses,
     OperatorWithholds, TimePasses, Pause, Hold, Revoke, AuthorizationLapses, LeaseExpires,
     runnerVars, vars, rowVars
<1>. QED
  BY <1>1, <1>2, <1>3 DEF RunnerNext, BatchStep

LEMMA SweepPc ==
  ASSUME RunInv, [RunnerNext]_runnerVars, pc' = "sweep"
  PROVE  pc = "sweep" \/ OpenSweep
<1>1. CASE BatchStarts \/ Scan \/ BatchClaims \/ ClaimRefused \/ Park \/ ComputeForecast
            \/ RecordBound \/ Send \/ Submit \/ Lost \/ LostBill \/ ObserveProvider \/ Report \/ Bill
  BY <1>1 DEF BatchStarts, Scan, BatchClaims, ClaimRefused, Park, ComputeForecast,
     RecordBound, Send, Submit, Lost, LostBill, ObserveProvider, Report, Bill, Ends, BackToScan, Goes
<1>2. CASE Verify \/ Assess \/ Evaluate \/ Decide \/ PublishArtifact \/ AcceptPublished
            \/ Tally \/ Capture \/ SweepRow \/ SweepEnds \/ BatchStops
  BY <1>2 DEF Verify, Assess, Evaluate, Decide, PublishArtifact, AcceptPublished,
     Tally, Capture, SweepRow, SweepEnds, BatchStops, Ends, BackToScan, Goes, Holds
<1>3. CASE ~BatchStep /\ ~BatchStops
  BY <1>3, OutsideBatch DEF batchVars
<1>. QED
  BY <1>1, <1>2, <1>3 DEF BatchStep

LEMMA SweepStep ==
  ASSUME RunInv, SweepInv, [RunnerNext]_runnerVars
  PROVE  /\ SweepInv'
         /\ sweep.phase # "complete" /\ sweep'.phase = "complete"
              => \A t \in Plan : accepted[t] # 0 /\ seen[t] = accepted[t]
<1>t. TypeOK /\ SweepTypeOK /\ RowInv
  BY DEF RunInv, RunnerTypeOK, SweepTypeOK
<1>o. Plan \subseteq Tasks /\ Ordinal \in [Tasks -> Nat]
  BY PlanIn, RunnerAssumption
<1>1. CASE Touch
  BY <1>t, <1>1 DEF Touch, SweepTypeOK, SweepInv
<1>2. CASE ~Touch /\ Calm
  <2>1. accepted' = accepted /\ SeenSoFar' = SeenSoFar
    BY <1>2, VerdictsTouch DEF Calm, sweepVars, SeenSoFar
  <2>2. CASE OpenSweep
    <3>1. ~(sweep.phase = "verify" /\ sweep.fresh) =>
             sweep' = [phase |-> "verify", position |-> 0, fresh |-> captured]
      BY <2>2 DEF OpenSweep
    <3>2. sweep.position = 0 => SeenSoFar
      BY <1>o DEF SeenSoFar
    <3>. QED
      BY <1>2, <1>t, <2>1, <3>1, <3>2 DEF Calm, sweepVars, SweepInv, SweepTypeOK
  <2>3. CASE ~OpenSweep
    BY <1>2, <2>1, <2>3, SweepPc DEF Calm, sweepVars, SweepInv
  <2>. QED
    BY <2>2, <2>3
<1>3. CASE ~Touch /\ ~Calm
  <2>0. accepted' = accepted /\ (Capture \/ OpenSweep \/ SweepRow \/ SweepEnds)
    BY <1>3, SweepMoves, VerdictsTouch
  <2>1. CASE Capture
    BY <2>0, <2>1 DEF Capture, Goes, SweepInv, SeenSoFar
  <2>2. CASE OpenSweep
    <3>1. sweep' = [phase |-> "verify", position |-> 0, fresh |-> captured]
      BY <1>3, <2>2 DEF OpenSweep
    <3>2. SeenSoFar'
      BY <1>o, <3>1 DEF SeenSoFar
    <3>. QED
      BY <3>1, <3>2 DEF SweepInv
  <2>3. CASE SweepRow
    <3>. DEFINE t == First(Unswept)
    <3>1. /\ t \in Plan /\ Ordinal[t] >= sweep.position
          /\ \A u \in Plan : Ordinal[u] >= sweep.position => Ordinal[t] <= Ordinal[u]
      BY <2>3, PlanIn, FirstIs DEF SweepRow, Unswept
    <3>2. /\ pc = "sweep" /\ captured /\ accepted[t] # 0
          /\ seen' = [seen EXCEPT ![t] = request[t]]
          /\ sweep' = [sweep EXCEPT !.position = Ordinal[t] + 1]
      BY <1>3, <2>3 DEF SweepRow
    <3>3. accepted[t] = request[t]
      BY <1>t, <1>o, <3>1, <3>2 DEF RowInv, AcceptedIsCurrent
    <3>4. ASSUME NEW u \in Plan, Ordinal[u] < Ordinal[t] + 1, u # t
          PROVE  Ordinal[u] < sweep.position
      <4>1. Ordinal[u] # Ordinal[t] /\ Ordinal[u] \in Nat /\ Ordinal[t] \in Nat /\ sweep.position \in Nat
        BY <1>o, <1>t, <3>1, <3>4, RunnerAssumption DEF SweepTypeOK
      <4>. QED
        BY <3>1, <3>4, <4>1
    <3>. HIDE DEF t
    <3>5. SeenSoFar
      BY <3>2 DEF SweepInv
    <3>6. sweep'.position = Ordinal[t] + 1 /\ sweep'.phase = sweep.phase
      BY <1>t, <3>2 DEF SweepTypeOK
    <3>7. SeenSoFar'
      BY <1>t, <1>o, <2>0, <3>1, <3>2, <3>3, <3>4, <3>5, <3>6 DEF SeenSoFar, SweepTypeOK
    <3>. QED
      BY <3>2, <3>6, <3>7 DEF SweepInv
  <2>4. CASE SweepEnds
    <3>1. /\ pc = "sweep" /\ captured /\ Unswept = {} /\ UNCHANGED <<captured, seen>>
          /\ sweep' = [sweep EXCEPT !.phase = "complete"] /\ pc' = "off"
      BY <1>3, <2>4 DEF SweepEnds, Ends
    <3>2. SeenSoFar
      BY <3>1 DEF SweepInv
    <3>3. \A t \in Plan : Ordinal[t] < sweep.position
      BY <1>t, <1>o, <3>1 DEF Unswept, SweepTypeOK
    <3>. QED
      BY <1>t, <3>1, <3>2, <3>3 DEF SeenSoFar, SweepInv, SweepTypeOK
  <2>. QED
    BY <2>0, <2>1, <2>2, <2>3, <2>4
<1>. QED
  BY <1>1, <1>2, <1>3

(* A sweep that completes has observed every task of the plan at the        *)
(* request that is accepted when it completes.                              *)
THEOREM SweptIsCurrent == RunnerSpec => SweepIsCurrent
<1>1. RunnerInit => SweepInv
  BY DEF RunnerInit, NoSweep, SweepInv
<1>2. RunInv /\ SweepInv /\ [RunnerNext]_runnerVars
        => [sweep.phase # "complete" /\ sweep'.phase = "complete"
              => \A t \in Plan : accepted[t] # 0 /\ seen[t] = accepted[t]]_runnerVars
  BY SweepStep
<1>. QED
  BY <1>1, <1>2, RunnerStarts, RunStep, SweepStep, PTL DEF RunnerSpec, SweepIsCurrent


----------------------------------------------------------------------------
(* The forecast.  Without an invalidation no step of a process adds to what *)
(* may still be claimed, and a claim takes its own worst case from it.      *)

Price == [t \in Tasks |-> Positive(FutureAttempts(t)) * Worst[t]]
Unfinished == {t \in Tasks : accepted[t] = 0}

LEMMA LessOfProduct ==
  ASSUME NEW k \in Int, NEW m \in Int, NEW n \in Nat
  PROVE  /\ k <= m => Positive(k) * n <= Positive(m) * n
         /\ 1 <= m => Positive(m - 1) * n = Positive(m) * n - n
<1>1. \A a, b \in Nat : a <= b => a * n <= b * n
  <2>. TAKE a, b \in Nat
  <2>. HAVE a <= b
  <2>1. PICK d \in Nat : b = a + d
    BY b = a + (b - a)
  <2>2. b * n = a * n + d * n
    BY <2>1
  <2>. QED
    BY <2>2, NatProduct
<1>2. 1 <= m => Positive(m) = m /\ Positive(m - 1) = m - 1
  BY DEF Positive
<1>3. Positive(k) \in Nat /\ Positive(m) \in Nat /\ (k <= m => Positive(k) <= Positive(m))
  BY DEF Positive
<1>4. (m - 1) * n = m * n - n
  OBVIOUS
<1>. QED
  BY <1>1, <1>2, <1>3, <1>4

\* An attempt's repair round is none its shot has yet to open.
RoundsOpened == \A r \in Requests : attempt[r].round <= round[ShotOf[r[1]]]

\* The least forecast the store or the batch may hold.
BoundInv ==
  /\ RoundsOpened
  /\ ForecastIsBound
  /\ pc = "record" => RemainingForecast <= bound

LEMMA ForecastFalls ==
  ASSUME TypeOK, TypeOK', UNCHANGED <<request, round>>,
         \A q \in Requests : attempt'[q].round = attempt[q].round,
         \A t \in Tasks : accepted'[t] = 0 => accepted[t] = 0
  PROVE  RemainingForecast' <= RemainingForecast
<1>1. ASSUME NEW t \in Tasks PROVE FutureAttempts(t)' = FutureAttempts(t)
  <2>1. request[t] # 0 => <<t, request[t]>> \in Requests
    BY LatestRequest
  <2>2. request[t] # 0 => Latest(t)'.round = Latest(t).round
    BY <2>1 DEF Latest
  <2>. QED
    BY <2>2 DEF FutureAttempts
<1>2. Price' = Price
  BY <1>1 DEF Price
<1>3. IsFiniteSet(Unfinished) /\ Unfinished' \in SUBSET Unfinished
  BY PlanAssumption, FS_Subset DEF Unfinished
<1>4. \A t \in Unfinished : Price[t] \in Nat
  BY FutureTyped DEF Price, Unfinished
<1>5. SumOver(Price, Unfinished') <= SumOver(Price, Unfinished)
  BY <1>3, <1>4, SumOfPart
<1>6. RemainingForecast = SumOver(Price, Unfinished) /\ RemainingForecast' = SumOver(Price', Unfinished')
  BY DEF RemainingForecast, Price, Unfinished
<1>. QED
  BY <1>2, <1>5, <1>6

LEMMA ClaimForecast ==
  ASSUME TypeOK, TypeOK', RoundsOpened, NEW t \in Tasks, Claim(t)
  PROVE  RoundsOpened' /\ RemainingForecast' <= RemainingForecast - Worst[t]
<1>. DEFINE new == <<t, request[t] + 1>>
<1>t. /\ MaxRepairRounds \in Int /\ MaxAttempts \in Int /\ ShotOf \in [Tasks -> Shots]
      /\ Worst \in [Tasks -> Nat] /\ FramesOf \in [Tasks -> Nat]
      /\ round \in [Shots -> Int] /\ round' \in [Shots -> Int]
      /\ request \in [Tasks -> Nat] /\ \A s \in Shots : round[s] \in 1..MaxRepairRounds
  BY PlanAssumption, AuthorizationAssumption DEF TypeOK
<1>1. /\ new \in Requests /\ request' = [request EXCEPT ![t] = @ + 1]
      /\ accepted[t] = 0 /\ accepted' = accepted /\ request[t] < MaxAttempts
      /\ round' = [round EXCEPT ![ShotOf[t]] = ClaimRound(t)]
      /\ \A q \in Requests : q # new => attempt'[q] = attempt[q]
      /\ attempt'[new].round = IF FramesOf[t] > 0 THEN ClaimRound(t) ELSE 0
  <2>1. new \in Requests
    BY <1>t, AuthorizationAssumption DEF Claim, Admitted, Claimable, Requests
  <2>. QED
    BY <2>1 DEF Claim, Admitted, Claimable, TypeOK, NoAttempt
<1>2. ClaimRound(t) \in Int /\ round[ShotOf[t]] <= ClaimRound(t)
  BY <1>t DEF ClaimRound
<1>3. RoundsOpened'
  <2>. SUFFICES ASSUME NEW r \in Requests PROVE attempt'[r].round <= round'[ShotOf[r[1]]]
    BY DEF RoundsOpened
  <2>1. r[1] \in Tasks /\ attempt[r].round \in Int
    BY RequestPair DEF TypeOK, AttemptRecord
  <2>2. round[ShotOf[r[1]]] <= round'[ShotOf[r[1]]]
    BY <1>t, <1>1, <1>2, <2>1
  <2>3. CASE r # new
    BY <1>t, <1>1, <2>1, <2>2, <2>3 DEF RoundsOpened
  <2>4. CASE r = new
    <3>1. r[1] = t /\ round'[ShotOf[t]] = ClaimRound(t)
      BY <1>t, <1>1, <2>4
    <3>. QED
      BY <1>t, <1>1, <1>2, <2>4, <3>1
  <2>. QED
    BY <2>3, <2>4
<1>4. 1 <= FutureAttempts(t) /\ FutureAttempts(t)' = FutureAttempts(t) - 1
  <2>1. request'[t] = request[t] + 1 /\ request'[t] # 0 /\ Latest(t)'.round = attempt'[new].round
    BY <1>t, <1>1 DEF Latest
  <2>2. round'[ShotOf[t]] = ClaimRound(t)
    BY <1>t, <1>1
  <2>3. CASE FramesOf[t] > 0
    <3>1. OpensRound(t) => round[ShotOf[t]] < MaxRepairRounds
      BY DEF Claim, Admitted, RepairAdmits
    <3>. QED
      BY <1>t, <1>1, <2>1, <2>2, <2>3, <3>1 DEF FutureAttempts, ClaimRound, OpensRound
  <2>4. CASE ~(FramesOf[t] > 0)
    BY <1>t, <1>1, <2>1, <2>4 DEF FutureAttempts
  <2>. QED
    BY <2>3, <2>4
<1>5. ASSUME NEW u \in Tasks, u # t
      PROVE  FutureAttempts(u)' <= FutureAttempts(u)
  <2>1. request'[u] = request[u] /\ (request[u] # 0 => <<u, request[u]>> \in Requests)
    BY <1>1, <1>5, <1>t, LatestRequest
  <2>2. request[u] # 0 => Latest(u)' = Latest(u) /\ Latest(u).round \in Int
                          /\ Latest(u).round <= round[ShotOf[u]]
    <3>1. <<u, request[u]>> # new
      BY <1>5
    <3>2. request[u] # 0 => attempt[<<u, request[u]>>].round \in Int
      BY <2>1 DEF TypeOK, AttemptRecord
    <3>3. request[u] # 0 => attempt[<<u, request[u]>>].round <= round[ShotOf[u]]
      BY <2>1 DEF RoundsOpened
    <3>. QED
      BY <1>1, <2>1, <3>1, <3>2, <3>3 DEF Latest
  <2>3. CASE ShotOf[u] = ShotOf[t] /\ OpensRound(t)
    <3>1. round'[ShotOf[u]] = round[ShotOf[u]] + 1
      BY <1>t, <1>1, <2>3 DEF ClaimRound
    <3>. QED
      BY <1>t, <2>1, <2>2, <3>1 DEF FutureAttempts
  <2>4. CASE ~(ShotOf[u] = ShotOf[t] /\ OpensRound(t))
    <3>1. round'[ShotOf[u]] = round[ShotOf[u]]
      BY <1>t, <1>1, <2>4 DEF ClaimRound
    <3>2. FutureAttempts(u) \in Int
      BY FutureTyped
    <3>. QED
      BY <1>t, <2>1, <2>2, <3>1, <3>2 DEF FutureAttempts
  <2>. QED
    BY <2>3, <2>4
<1>6. \A u \in Tasks : FutureAttempts(u) \in Int /\ FutureAttempts(u)' \in Int
  <2>1. \A u \in Tasks : FutureAttempts(u) \in Int
    BY FutureTyped
  <2>2. \A u \in Tasks : FutureAttempts(u)' \in Int
    BY <1>t, <1>1 DEF FutureAttempts
  <2>. QED
    BY <2>1, <2>2
<1>7. /\ \A u \in Tasks : Price[u] \in Int /\ Price'[u] \in Int
      /\ \A u \in Tasks \ {t} : Price'[u] <= Price[u]
      /\ Price'[t] = Price[t] - Worst[t]
  <2>1. \A u \in Tasks : /\ Price[u] = Positive(FutureAttempts(u)) * Worst[u]
                         /\ Price'[u] = Positive(FutureAttempts(u)') * Worst[u]
    BY DEF Price, Positive
  <2>2. \A u \in Tasks : Positive(FutureAttempts(u)) \in Nat /\ Positive(FutureAttempts(u)') \in Nat
    BY <1>6 DEF Positive
  <2>3. \A u \in Tasks : Price[u] \in Int /\ Price'[u] \in Int
    BY <1>t, <2>1, <2>2, NatProduct
  <2>4. \A u \in Tasks \ {t} : Price'[u] <= Price[u]
    BY <1>t, <1>5, <1>6, <2>1, LessOfProduct
  <2>5. Price'[t] = Price[t] - Worst[t]
    BY <1>t, <1>4, <1>6, <2>1, LessOfProduct
  <2>. QED
    BY <2>3, <2>4, <2>5
<1>8. /\ IsFiniteSet(Unfinished) /\ IsFiniteSet(Unfinished \ {t}) /\ t \in Unfinished
      /\ Unfinished' = Unfinished /\ Unfinished \in SUBSET Tasks
  BY <1>1, PlanAssumption, FS_Subset DEF Unfinished
<1>9. /\ SumOver(Price, Unfinished) = Price[t] + SumOver(Price, Unfinished \ {t})
      /\ SumOver(Price', Unfinished) = Price'[t] + SumOver(Price', Unfinished \ {t})
  BY <1>7, <1>8, SumTake
<1>10. SumOver(Price', Unfinished \ {t}) <= SumOver(Price, Unfinished \ {t})
  BY <1>7, <1>8, SumMonotone
<1>11. SumOver(Price', Unfinished \ {t}) \in Int /\ SumOver(Price, Unfinished \ {t}) \in Int
  BY <1>7, <1>8, SumTyped
<1>12. RemainingForecast = SumOver(Price, Unfinished) /\ RemainingForecast' = SumOver(Price', Unfinished')
  BY DEF RemainingForecast, Price, Unfinished
<1>13. RemainingForecast' <= RemainingForecast - Worst[t]
  BY <1>t, <1>7, <1>8, <1>9, <1>10, <1>11, <1>12
<1>. QED
  BY <1>3, <1>13

\* A step that leaves what may still be claimed as it is, or lessens it.
NothingReopens ==
  /\ UNCHANGED <<request, round>>
  /\ \A q \in Requests : attempt'[q].round = attempt[q].round
  /\ \A t \in Tasks : accepted'[t] = 0 => accepted[t] = 0

RemainingKept ==
  forecast'.known => forecast.known /\ forecast'.remaining = forecast.remaining

LEMMA CallsKeepForecast ==
  ASSUME TypeOK, NEW r \in Requests
  PROVE  /\ MarkSending(r) \/ RenewPrepared(r) \/ LeaseExpires(r) \/ Accept(r) \/ Reject(r)
              => NothingReopens /\ RemainingKept
         /\ LeaveUnknown(r) \/ BillCall(r) => NothingReopens /\ RemainingKept
         /\ \A s \in Reports : ReportCall(r, s) \/ ReportRefused(r, s)
              => NothingReopens /\ RemainingKept
<1>1. CASE MarkSending(r) \/ RenewPrepared(r) \/ LeaseExpires(r) \/ Reject(r)
  BY <1>1 DEF MarkSending, RenewPrepared, LeaseExpires, Reject, NothingReopens, RemainingKept,
     TypeOK, AttemptRecord, rowVars
<1>2. CASE Accept(r)
  <2>1. r[2] # 0 /\ r[1] \in Tasks
    BY RequestPair
  <2>. QED
    BY <1>2, <2>1 DEF Accept, NothingReopens, RemainingKept, TypeOK, AttemptRecord
<1>3. CASE UNCHANGED vars
  BY <1>3 DEF vars, rowVars, NothingReopens, RemainingKept
<1>4. CASE SettleUnknown(r) \/ Settle(r, Receipt[r[1]])
  BY <1>4 DEF SettleUnknown, Settle, Reforecast, NothingReopens, RemainingKept, TypeOK,
     AttemptRecord, rowVars
<1>5. ASSUME NEW s \in Reports, Observe(r, s) PROVE NothingReopens /\ RemainingKept
  BY <1>5 DEF Observe, NothingReopens, RemainingKept, TypeOK, AttemptRecord
<1>. QED
  BY <1>1, <1>2, <1>3, <1>4, <1>5 DEF LeaveUnknown, BillCall, ReportCall, ReportRefused

LEMMA ForecastMoves ==
  ASSUME "invalidate" \notin Disturbances, RunInv, [RunnerNext]_runnerVars
  PROVE  \/ pc' = "send" /\ cur[1] \in Tasks /\ Claim(cur[1])
         \/ NothingReopens /\ pc = "record" /\ RecordForecast(bound) /\ pc' = "reclaim"
         \/ NothingReopens /\ RemainingKept
<1>t. TypeOK /\ got \in Reports /\ cancelReq \in Requests
  BY DEF RunInv, RunnerTypeOK
<1>w. pc \in Working => cur \in Requests
  BY DEF RunInv, WorkInv
<1>v. UNCHANGED <<request, round, attempt, accepted, forecast>> => NothingReopens /\ RemainingKept
  BY DEF NothingReopens, RemainingKept
<1>1. CASE BatchStarts \/ Park
  BY <1>1, <1>v DEF BatchStarts, ReleaseParked, Park
<1>2. CASE BatchClaims
  BY <1>2, PlanIn DEF BatchClaims, RunInv, WorkInv, Choosing
<1>3. CASE RecordBound
  BY <1>3 DEF RecordBound, RecordForecast, NothingReopens, rowVars
<1>4. CASE Send \/ Lost \/ LostBill \/ Report \/ Bill \/ Verify \/ Decide \/ AcceptPublished
  <2>1. cur \in Requests /\ {"unknown"} \subseteq Reports
    BY <1>4, <1>w DEF Send, Lost, LostBill, Report, Bill, Verify, Decide, AcceptPublished, Working,
       Reports
  <2>2. UNCHANGED vars => NothingReopens /\ RemainingKept
    BY <1>v DEF vars, rowVars
  <2>. QED
    BY <1>4, <1>t, <2>1, <2>2, CallsKeepForecast DEF Send, Lost, LostBill, Report, Bill, Verify,
       Decide, AcceptPublished
<1>5. CASE Scan \/ ClaimRefused \/ ComputeForecast \/ Submit \/ ObserveProvider \/ Assess
            \/ Evaluate \/ PublishArtifact \/ Tally \/ Capture \/ OpenSweep \/ SweepRow
            \/ SweepEnds \/ BatchStops
  BY <1>5, <1>v DEF Scan, ClaimRefused, ComputeForecast, Submit, ObserveProvider, Assess, Evaluate,
     PublishArtifact, Tally, Capture, OpenSweep, SweepRow, SweepEnds, BatchStops, vars, rowVars
<1>6. CASE CancelStep
  <2>1. "cancelled" \in Reports
    BY DEF Reports
  <2>2. UNCHANGED vars => NothingReopens /\ RemainingKept
    BY <1>v DEF vars, rowVars
  <2>. QED
    BY <1>6, <1>t, <2>1, <2>2, CallsKeepForecast DEF CancelStep, CancelStarts, CancelIntent,
       CancelContact, CancelRecord, CancelReport, CancelBill, CancelDies
<1>7. CASE (\E r \in Requests : JobMoves(r)) \/ ProviderReplaces \/ UNCHANGED runnerVars
  BY <1>7, <1>v DEF JobMoves, ProviderReplaces, runnerVars, vars, rowVars
<1>8. CASE OperatorPauses \/ OperatorWithholds
  BY <1>8, <1>v DEF OperatorPauses, OperatorWithholds, Pause, Revoke, Hold, rowVars
<1>9. CASE TimePasses
  BY <1>9, <1>t, <1>v, CallsKeepForecast DEF TimePasses, AuthorizationLapses, rowVars
<1>. QED
  BY <1>1, <1>2, <1>3, <1>4, <1>5, <1>6, <1>7, <1>8, <1>9 DEF RunnerNext, BatchStep

LEMMA RecordPc ==
  ASSUME RunInv, [RunnerNext]_runnerVars, pc' = "record"
  PROVE  (pc = "record" /\ bound' = bound) \/ (bound' = RemainingForecast /\ UNCHANGED vars)
<1>1. CASE BatchStarts \/ Scan \/ BatchClaims \/ ClaimRefused \/ Park \/ ComputeForecast
            \/ RecordBound \/ Send \/ Submit \/ Lost \/ LostBill \/ ObserveProvider \/ Report \/ Bill
  BY <1>1 DEF BatchStarts, Scan, BatchClaims, ClaimRefused, Park, ComputeForecast, RecordBound,
     Send, Submit, Lost, LostBill, ObserveProvider, Report, Bill, Ends, Goes, BackToScan
<1>2. CASE Verify \/ Assess \/ Evaluate \/ Decide \/ PublishArtifact \/ AcceptPublished \/ Tally
            \/ Capture \/ OpenSweep \/ SweepRow \/ SweepEnds \/ BatchStops
  BY <1>2 DEF Verify, Assess, Evaluate, Decide, PublishArtifact, AcceptPublished, Tally,
     Capture, OpenSweep, SweepRow, SweepEnds, BatchStops, Ends, BackToScan, Goes, Holds
<1>3. CASE ~BatchStep /\ ~BatchStops
  BY <1>3, OutsideBatch DEF batchVars
<1>. QED
  BY <1>1, <1>2, <1>3 DEF BatchStep

LEMMA ForecastTypedNext ==
  ASSUME TypeOK'
  PROVE  RemainingForecast' \in Nat
<1>1. ASSUME NEW t \in Tasks PROVE Price'[t] \in Nat
  <2>1. /\ round'[ShotOf[t]] \in Int /\ request'[t] \in Int /\ MaxRepairRounds \in Int
        /\ MaxAttempts \in Int /\ Worst[t] \in Nat
    BY PlanAssumption, AuthorizationAssumption DEF TypeOK
  <2>2. FutureAttempts(t)' \in Int
    BY <2>1 DEF FutureAttempts
  <2>3. Positive(FutureAttempts(t)') \in Nat /\ Price'[t] = Positive(FutureAttempts(t)') * Worst[t]
    BY <2>2 DEF Positive, Price
  <2>. QED
    BY <2>1, <2>3, NatProduct
<1>2. IsFiniteSet(Unfinished') /\ Unfinished' \in SUBSET Tasks
  BY PlanAssumption, FS_Subset DEF Unfinished
<1>3. SumOver(Price', Unfinished') \in Nat
  BY <1>1, <1>2, SumTyped
<1>. QED
  BY <1>3 DEF RemainingForecast, Price, Unfinished

LEMMA BoundStep ==
  ASSUME "invalidate" \notin Disturbances, RunInv, BoundInv, [RunnerNext]_runnerVars
  PROVE  BoundInv'
<1>t. /\ TypeOK /\ TypeOK' /\ RemainingForecast \in Nat /\ RemainingForecast' \in Int
      /\ bound \in Nat /\ Worst \in [Tasks -> Nat]
  <2>1. TypeOK /\ TypeOK' /\ bound \in Nat
    BY RunStep DEF RunInv, RunnerTypeOK
  <2>. QED
    BY <2>1, ForecastTyped, ForecastTypedNext, PlanAssumption
<1>p. pc' = "record" => (pc = "record" /\ bound' = bound) \/ (bound' = RemainingForecast /\ NothingReopens)
  BY RecordPc DEF vars, rowVars, NothingReopens
<1>1. CASE pc' = "send" /\ cur[1] \in Tasks /\ Claim(cur[1])
  <2>1. RoundsOpened' /\ RemainingForecast' <= RemainingForecast - Worst[cur[1]]
    BY <1>t, <1>1, ClaimForecast DEF BoundInv
  <2>2. forecast'.known => /\ forecast.known
                           /\ forecast'.remaining = Positive(forecast.remaining - Worst[cur[1]])
    BY <1>1 DEF Claim, Reforecast
  <2>3. forecast.remaining \in Int /\ Worst[cur[1]] \in Int
    BY <1>t, <1>1 DEF TypeOK, ForecastRecord
  <2>4. forecast'.known => forecast'.remaining >= RemainingForecast'
    BY <1>t, <2>1, <2>2, <2>3 DEF Positive, BoundInv, ForecastIsBound
  <2>. QED
    BY <1>1, <2>1, <2>4 DEF BoundInv, ForecastIsBound
<1>2. ASSUME NothingReopens PROVE RoundsOpened' /\ RemainingForecast' <= RemainingForecast
  <2>1. RemainingForecast' <= RemainingForecast
    BY <1>t, <1>2, ForecastFalls DEF NothingReopens
  <2>. QED
    BY <1>2, <2>1 DEF NothingReopens, BoundInv, RoundsOpened
<1>3. CASE NothingReopens /\ RemainingKept
  <2>1. forecast.remaining \in Int
    BY <1>t DEF TypeOK, ForecastRecord
  <2>. QED
    BY <1>t, <1>p, <1>2, <1>3, <2>1 DEF RemainingKept, BoundInv, ForecastIsBound
<1>4. CASE NothingReopens /\ pc = "record" /\ RecordForecast(bound) /\ pc' = "reclaim"
  BY <1>t, <1>2, <1>4 DEF RecordForecast, BoundInv, ForecastIsBound
<1>. QED
  BY <1>1, <1>3, <1>4, ForecastMoves

(* While nothing is invalidated, the recorded forecast bounds all that may  *)
(* still be claimed: no other process can raise the bound between the       *)
(* batch's reading of the rows and its recording of the sum.  With an       *)
(* invalidation between the two it does not hold (see the race run).        *)
THEOREM ForecastBounds ==
  ASSUME "invalidate" \notin Disturbances
  PROVE  RunnerSpec => []ForecastIsBound
<1>1. RunnerInit => BoundInv
  <2>. SUFFICES ASSUME RunnerInit PROVE BoundInv
    OBVIOUS
  <2>1. \A r \in Requests : attempt[r].round = 0 /\ round[ShotOf[r[1]]] = 1
    BY RequestPair, PlanAssumption DEF RunnerInit, Init, NoAttempt
  <2>. QED
    BY <2>1 DEF RunnerInit, Init, BoundInv, RoundsOpened, ForecastIsBound, NoForecast
<1>2. BoundInv => ForecastIsBound
  BY DEF BoundInv
<1>3. RunInv /\ BoundInv /\ [RunnerNext]_runnerVars => BoundInv'
  BY BoundStep
<1>. QED
  BY <1>1, <1>2, <1>3, RunnerStarts, RunStep, PTL DEF RunnerSpec
=============================================================================
