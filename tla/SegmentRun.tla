----------------------------- MODULE SegmentRun -----------------------------
(***************************************************************************)
(* Rendering a film's control in segments on remote workers: the durable    *)
(* coordination of remote/segments.py with its Blender driver and the       *)
(* delivery of remote/segment_delivery.py, over the remote dispatch.        *)
(*                                                                         *)
(* One run of a plan holds the plan's .run-target lock.  It may die, or     *)
(* raise, between any two steps; the command is then run again.  Beside it  *)
(* a second plan with the same generation may run (an encoder-only change), *)
(* operators pause, cancel, recover and dispatch, and the provider works.   *)
(***************************************************************************)
EXTENDS RemoteDispatch

CONSTANTS
  PolicySeconds,    \* deadline of the operator's policy
  PlanSeconds,      \* budget_seconds of a plan
  MaxPerSegment, MaxTotal,   \* attempts
  MaxCancels,       \* bound: cancellations
  Cases             \* plans, transport and what happens beside them

\* Every attempt a plan may make is a request of its own; a claim is one attempt
\* at one work, and the works of a plan are its segments.
ASSUME SegmentAssumption ==
  /\ IsFiniteSet(Requests)
  /\ {MaxSubmissions, MaxSeconds, PlanSeconds, MaxTotal, MaxCancels} \subseteq Nat
  /\ {PolicySeconds, MaxPerSegment} \subseteq Nat \ {0}
  /\ \A c \in Cases : \A p \in DOMAIN c.plans : \A i \in 1..Len(c.plans[p]) :
       \A n \in 1..MaxPerSegment :
         [plan |-> p, segment |-> c.plans[p][i], attempt |-> n] \in Requests
  /\ \A c \in Cases : \A p \in DOMAIN c.plans : Len(c.plans[p]) \in Nat
  /\ \A r, q \in Requests :
       /\ r.plan = q.plan => (WorkOf[r] = WorkOf[q] <=> r.segment = q.segment)
       /\ ClaimOf[r] = ClaimOf[q] <=> WorkOf[r] = WorkOf[q] /\ r.attempt = q.attempt

VARIABLES
  case,
  attempts,    \* state.json: attempts of each plan and segment
  complete,    \* the request whose result completes a segment, if any
  count,       \* attempt_count
  delivery,    \* delivery_seconds
  paused,      \* plans with a pause.request marker
  delivered,   \* plans whose control is published
  run,         \* of each plan: its step and its segment's position
  cancels

groupVars == <<attempts, complete, count, delivery>>
segmentVars == <<dispatchVars, groupVars, case, paused, delivered, run, cancels>>

Plans == DOMAIN case.plans
Segments == UNION {{case.plans[p][i] : i \in 1..Len(case.plans[p])} : p \in Plans}
Happens(event) == event \in case.beside

Steps == {"off", "visit", "submit", "observe", "accept"}

AttemptType ==
  [request: Requests, status: {"open", "failed", "cancelled", "reused_render"},
   seconds: Nat, charged: BOOLEAN]

SegmentInit ==
  /\ case \in Cases /\ transport = case.transport /\ faults = case.faults
  /\ DispatchInit
  /\ attempts = [p \in Plans |-> [s \in Segments |-> <<>>]]
  /\ complete = [p \in Plans |-> [s \in Segments |-> {}]]
  /\ count = [p \in Plans |-> 0] /\ delivery = [p \in Plans |-> 0]
  /\ paused = {} /\ delivered = {} /\ cancels = 0
  /\ run = [p \in Plans |-> [at |-> "off", position |-> 0]]

----------------------------------------------------------------------------
(* What a run reads.                                                       *)

Here(p) == case.plans[p][run[p].position]
Visiting(p, step) == run[p].at = step /\ run[p].position <= Len(case.plans[p])
Tries(p) == attempts[p][Here(p)]
Latest(p) == Tries(p)[Len(Tries(p))]

\* Open attempts count with their whole deadline, reused ones not at all.
Charges(p) ==
  [x \in Segments \X (1..MaxPerSegment) |->
     IF x[2] <= Len(attempts[p][x[1]]) /\ attempts[p][x[1]][x[2]].status # "reused_render"
     THEN attempts[p][x[1]][x[2]].seconds ELSE 0]

Spent(p) == SumOver(Charges(p), Segments \X (1..MaxPerSegment))
Consumed(p) == delivery[p] + Spent(p)

Remaining(p) == PlanSeconds - Consumed(p)

Retried == {"failed", "cancelled"}

NeedsAttempt(p) == Tries(p) # <<>> => Latest(p).status \in Retried

Request(p) == [plan |-> p, segment |-> Here(p), attempt |-> Len(Tries(p)) + 1]

\* Another plan's verified render of the same segment.
Reusable(p) ==
  UNION {complete[q][Here(p)] : q \in Plans \ {p}}

Goes(p, step) == run' = [run EXCEPT ![p].at = step]
Advances(p) == run' = [run EXCEPT ![p] = [at |-> "visit", position |-> @.position + 1]]
Leaves(p) == run' = [run EXCEPT ![p] = [at |-> "off", position |-> 0]]

Alone == UNCHANGED <<case, paused, delivered, cancels>>

----------------------------------------------------------------------------
(* segments.run.                                                           *)

RunStarts(p) ==
  /\ run[p].at = "off"
  /\ run' = [run EXCEPT ![p] = [at |-> "visit", position |-> 1]]
  /\ UNCHANGED <<dispatchVars, groupVars>> /\ Alone

\* The old result is collected again under the profile it was made for.
Reuse(p) ==
  /\ Visiting(p, "visit") /\ Tries(p) = <<>>
  /\ \E r \in Reusable(p) :
       \/ /\ FetchedAll({r})
          /\ complete' = [complete EXCEPT ![p][Here(p)] = {r}]
          /\ attempts' = [attempts EXCEPT ![p][Here(p)] =
               <<[request |-> r, status |-> "reused_render",
                  seconds |-> deadline[r], charged |-> TRUE]>>]
          /\ UNCHANGED run
       \/ FetchRaises(r) /\ Leaves(p) /\ UNCHANGED <<attempts, complete>>
  /\ UNCHANGED <<count, delivery>> /\ Alone

\* A complete segment is verified again by every run.
Recheck(p) ==
  /\ Visiting(p, "visit") /\ complete[p][Here(p)] # {}
  /\ \/ FetchedAll(complete[p][Here(p)]) /\ Advances(p)
     \/ (\E r \in complete[p][Here(p)] : FetchRaises(r)) /\ Leaves(p)
  /\ UNCHANGED groupVars /\ Alone

Incomplete(p) ==
  /\ Visiting(p, "visit") /\ complete[p][Here(p)] = {}
  /\ Tries(p) = <<>> => Reusable(p) = {}

StopsAtPause(p) ==
  /\ Incomplete(p) /\ p \in paused
  /\ Leaves(p) /\ UNCHANGED <<dispatchVars, groupVars>> /\ Alone

Affordable(p) ==
  /\ Remaining(p) >= 1
  /\ Len(Tries(p)) < MaxPerSegment /\ count[p] < MaxTotal

\* The intent is recorded with its deadline before anything is sent.
Attempt(p) ==
  LET r == Request(p) IN
  /\ Incomplete(p) /\ p \notin paused /\ NeedsAttempt(p) /\ Affordable(p)
  /\ deadline' = [deadline EXCEPT ![r] = Min({PolicySeconds, Remaining(p)})]
  /\ attempts' = [attempts EXCEPT ![p][Here(p)] =
       Append(@, [request |-> r, status |-> "open", seconds |-> deadline'[r], charged |-> FALSE])]
  /\ count' = [count EXCEPT ![p] = @ + 1]
  /\ Goes(p, "submit")
  /\ UNCHANGED <<transport, ledger, allocation, accepted, recovered, providerVars, faults,
                 complete, delivery>> /\ Alone

OverBudget(p) ==
  /\ Incomplete(p) /\ p \notin paused /\ NeedsAttempt(p) /\ ~Affordable(p)
  /\ Leaves(p) /\ UNCHANGED <<dispatchVars, groupVars>> /\ Alone

\* Whatever became of the intent, it is observed and never submitted again.
Resumes(p) ==
  /\ Incomplete(p) /\ p \notin paused /\ ~NeedsAttempt(p)
  /\ Goes(p, "observe") /\ UNCHANGED <<dispatchVars, groupVars>> /\ Alone

Submit(p) ==
  /\ Visiting(p, "submit")
  /\ LET r == Latest(p).request IN
       \/ (SubmitSends(r) \/ SubmitKnown(r)) /\ Goes(p, "observe")
       \/ SubmitStops(r) /\ Leaves(p)
  /\ UNCHANGED groupVars /\ Alone

\* The first ending that is observed settles the attempt's charge.
Settle(p, provider) ==
  \E spent \in 0..Latest(p).seconds :
    attempts' = [attempts EXCEPT ![p][Here(p)][Len(Tries(p))] =
      [request |-> @.request,
       status |-> IF provider \in Retried THEN provider ELSE @.status,
       seconds |-> IF @.charged THEN @.seconds ELSE spent, charged |-> TRUE]]

Observe(p) ==
  /\ Visiting(p, "observe")
  /\ LET r == Latest(p).request IN
       \/ /\ Status(r)
          /\ LET provider == ledger'[r].provider IN
               IF provider \in {"unknown", "running"}
               THEN Leaves(p) /\ UNCHANGED attempts
               ELSE /\ Settle(p, provider)
                    /\ IF provider = "completed" THEN Goes(p, "accept") ELSE Leaves(p)
       \/ StatusRaises(r) /\ Leaves(p) /\ UNCHANGED attempts
  /\ UNCHANGED <<complete, count, delivery>> /\ Alone

Accept(p) ==
  /\ Visiting(p, "accept")
  /\ LET r == Latest(p).request IN
       \/ /\ FetchedAll({r}) /\ complete' = [complete EXCEPT ![p][Here(p)] = {r}]
          /\ Advances(p) /\ UNCHANGED attempts
       \/ /\ FetchRejected(r)
          /\ attempts' = [attempts EXCEPT ![p][Here(p)][Len(Tries(p))].status = "failed"]
          /\ Leaves(p) /\ UNCHANGED complete
       \/ FetchRaises(r) /\ Leaves(p) /\ UNCHANGED <<attempts, complete>>
  /\ UNCHANGED <<count, delivery>> /\ Alone

Completes(p) ==
  /\ run[p].at = "visit" /\ run[p].position > Len(case.plans[p])
  /\ Leaves(p) /\ UNCHANGED <<dispatchVars, groupVars>> /\ Alone

Dies(p) ==
  /\ run[p].at # "off" /\ Fault /\ Leaves(p)
  /\ UNCHANGED <<transport, ledgerVars, providerVars, groupVars>> /\ Alone

----------------------------------------------------------------------------
(* segment_delivery.assemble, under the same lock.  Its time is charged     *)
(* whether it succeeds or not; the clock is looked at between its commands, *)
(* so it may run over.                                                      *)

Assemble(p) ==
  LET parts == {complete[p][case.plans[p][i]] : i \in 1..Len(case.plans[p])} IN
  /\ Happens("assemble") /\ run[p].at = "off" /\ Remaining(p) > 0
  /\ \E spent \in 0..Remaining(p) + 1 : delivery' = [delivery EXCEPT ![p] = @ + spent]
  /\ \/ {} \notin parts /\ FetchedAll(UNION parts) /\ delivered' = delivered \cup {p}
     \/ /\ {} \in parts
        /\ UNCHANGED <<dispatchVars, delivered>>
     \/ Fault /\ UNCHANGED <<transport, ledgerVars, providerVars, delivered>>
  /\ UNCHANGED <<attempts, complete, count, case, paused, run, cancels>>

----------------------------------------------------------------------------
(* The operators' commands.                                                *)

Recorded ==
  UNION {UNION {{attempts[p][s][i].request : i \in 1..Len(attempts[p][s])} : s \in Segments} :
           p \in Plans}

Pause(p) ==
  /\ Happens("pause") /\ paused' = paused \cup {p}
  /\ UNCHANGED <<dispatchVars, groupVars, case, delivered, run, cancels>>

Resume(p) ==
  /\ Happens("pause") /\ paused' = paused \ {p}
  /\ UNCHANGED <<dispatchVars, groupVars, case, delivered, run, cancels>>

CancelCommand(r) ==
  /\ Happens("cancel") /\ cancels < MaxCancels
  /\ Cancel(r) /\ cancels' = cancels + 1
  /\ UNCHANGED <<groupVars, case, paused, delivered, run>>

\* dispatch-v2, status-v2 and fetch-v2 of a recorded request.
DispatchCommand(r) ==
  /\ Happens("commands")
  /\ SubmitSends(r) \/ SubmitStops(r) \/ Status(r) \/ FetchedAll({r}) \/ Recover(r)
  /\ UNCHANGED <<groupVars, case, paused, delivered, run, cancels>>

Provider(r) ==
  /\ JobArrives(r) \/ JobEnds(r)
  /\ UNCHANGED <<groupVars, case, paused, delivered, run, cancels>>

Activation(r) ==
  /\ Activate(r) /\ UNCHANGED <<groupVars, case, paused, delivered, run, cancels>>

RunStep(p) ==
  /\ p \in Plans
  /\ \/ RunStarts(p) \/ Reuse(p) \/ Recheck(p) \/ StopsAtPause(p) \/ Attempt(p)
     \/ OverBudget(p) \/ Resumes(p) \/ Submit(p) \/ Observe(p) \/ Accept(p) \/ Completes(p)

SegmentNext ==
  \/ \E p \in Plans : RunStep(p) \/ Dies(p) \/ Assemble(p) \/ Pause(p) \/ Resume(p)
  \/ \E r \in Recorded : CancelCommand(r) \/ DispatchCommand(r) \/ Provider(r) \/ Activation(r)

SegmentSpec == SegmentInit /\ [][SegmentNext]_segmentVars

AllPlans == UNION {DOMAIN c.plans : c \in Cases}

\* The command is run again and again, and the provider ends its jobs.
FairSegmentSpec ==
  /\ SegmentSpec
  /\ \A p \in AllPlans : WF_segmentVars(RunStep(p))
  /\ WF_segmentVars(\E r \in Recorded : Provider(r))

----------------------------------------------------------------------------
(* Properties.                                                             *)

\* However runs die, replies get lost, submissions arrive late and operators
\* cancel or dispatch by hand, the provider gets a request at most once and
\* works on one attempt of a segment at a time, also for two plans that share
\* the segment (segments.py "run", v2_dispatch.py "submit", budget.py).
OneLiveJob ==
  /\ \A r \in Requests : sends[r] <= 1
  /\ \A r, q \in Requests :
       /\ WorkOf[r] = WorkOf[q]
       /\ job[r] \in {"pending", "coming", "running"} /\ job[q] \in {"pending", "coming", "running"}
       => r = q

\* What was sent was accounted for before it was sent: it is a recorded attempt
\* of its plan, its whole deadline is in the allocation, and neither restarts
\* nor retries nor reuse take the allocation or the renders of a plan over their
\* limits (segments.py "run", "consumed_budget", budget.py "reserve").
SpendIsRecorded ==
  /\ \A r \in Requests :
       job[r] # "none" => r \in Recorded /\ r \in allocation /\ deadline[r] > 0
  /\ SumOver(deadline, allocation) <= MaxSeconds
  /\ \A p \in Plans : Spent(p) <= PlanSeconds

Settled(r) ==
  \E p \in Plans, s \in Segments : \E i \in 1..Len(attempts[p][s]) :
    attempts[p][s][i].request = r /\ attempts[p][s][i].charged

\* A job that was sent, whatever became of the reply and of the run, is
\* observed to its end by later runs, unless the plan is paused or an operator
\* cancelled in the saved notebook, which loses the recorded identity
\* (segments.py "run", v2_dispatch.py "update").  Settled jobs stay settled.
LaunchedIsSettled ==
  []<>(\A r \in Requests : sends[r] > 0 =>
         \/ Settled(r) \/ paused # {}
         \/ transport = "saved" /\ cancels > 0)

\* docs/REMOTE_DATA_PLANE.md on segments-pause: it "stops new submissions and
\* allows in-flight work to finish and checkpoint".
InflightIsCheckpointed == []<>(\A r \in Requests : sends[r] > 0 => Settled(r))
=============================================================================
