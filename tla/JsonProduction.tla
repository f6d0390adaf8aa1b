---------------------------- MODULE JsonProduction ----------------------------
(***************************************************************************)
(* The older production state: a workflow file and a ledger file, each     *)
(* replaced atomically under a lock of its own and never together, and the *)
(* batch that works through a plan with both.  The batch may die between   *)
(* any two steps; operators pause the workflow, invalidate work, replace   *)
(* artifacts and record forecasts beside it.  A retirement marker beside a *)
(* file, left by a migration to the indexed store, forbids every later     *)
(* write of it.                                                            *)
(*                                                                         *)
(* A request is a pair of a task and an epoch.  An evidence is what it is  *)
(* evidence of; the digest of the workflow is the workflow.                *)
(***************************************************************************)
EXTENDS Integers, Sequences, FiniteSets, FiniteSetsExt, Sums

CONSTANTS Tasks,           \* the tasks of any plan
          Parents,         \* depends_on
          ShotOf, Generated,   \* logical shot, and the tasks that generate frames
          Worst, Bills,    \* worst_units, and the bills a provider may send, if it sends one
          Frames,          \* generated_frames
          Optional,        \* tasks that are not essential
          TotalUnits, CleanupUnits, RouteLimit, MaxFrames, ReforecastPercent,
          MaxRounds,       \* max_repair_rounds
          MaxAttempts,     \* 3 in the code
          MaxEpoch,        \* bound on claims and invalidations of one task
          Cases            \* a plan each, and what may happen beside its batch

Shots == {ShotOf[t] : t \in Tasks}
Requests == Tasks \X (1..MaxEpoch)
Files == {"workflow", "ledger"}

ASSUME JsonPlanAssumption ==
  /\ IsFiniteSet(Tasks) /\ Parents \in [Tasks -> SUBSET Tasks] /\ Generated \subseteq Tasks
  /\ \A t \in Tasks : Worst[t] \in Nat /\ Bills[t] \subseteq 0..Worst[t]
  /\ \A t \in Tasks : Frames[t] \in Nat /\ (Frames[t] > 0 <=> t \in Generated)
  /\ CleanupUnits * 10 >= TotalUnits
  /\ \A c \in Cases : /\ c.plan \in Seq(Tasks) /\ c.plan # <<>>
                       /\ \A t \in Range(c.plan) : Parents[t] \subseteq Range(c.plan)
  /\ MaxAttempts \in Nat /\ MaxEpoch \in Nat /\ MaxAttempts <= MaxEpoch

VARIABLES
  plan, beside,   \* the case: the tasks of the batch in their order, and what may happen
  flow,      \* workflow.json
  book,      \* the ledger
  retired,   \* files with a retirement marker
  locked,    \* a migration holds the locks of both files
  saved,     \* batch-progress.json; stale: the workflow has changed since its digest was taken
  run,       \* the running batch
  job,       \* what the provider has of a request, and how often it was sent
  replaced,  \* tasks whose accepted artifact was replaced on disk
  expired    \* the time of the authorization is over

jsonVars == <<plan, beside, flow, book, retired, locked, saved, run, job, replaced, expired>>
case == <<plan, beside>>
documents == <<flow, book>>
TaskSet == Range(plan)
beyond == <<case, retired, locked>>   \* what neither the batch nor the operators change

-----------------------------------------------------------------------------
(* The workflow. *)

Final == {"failed", "cancelled", "rejected"}
Live == {"reserved", "submitted", "running", "unknown", "produced", "verified"}
Allowed == [reserved  |-> {"submitted", "unknown", "failed"},
            submitted |-> {"running", "produced", "unknown", "failed", "cancelled"},
            running   |-> {"produced", "unknown", "failed", "cancelled"},
            unknown   |-> {"submitted", "running", "produced", "failed", "cancelled"},
            produced  |-> {"verified", "rejected"},
            verified  |-> {"machine_accepted", "rejected"}]

NoTask == [epoch |-> 0, tries |-> 0, last |-> 0, status |-> "none", invalidated |-> FALSE,
           accepted |-> FALSE]
Current(t) == <<t, flow.tasks[t].last>>
IsLive(t) == flow.tasks[t].status \in Live
InputsAccepted(t) == \A p \in Parents[t] : flow.tasks[p].accepted
AllAccepted == \A t \in TaskSet : flow.tasks[t].accepted
Fresh(t) == \/ flow.tasks[t].tries = 0
            \/ flow.tasks[t].status \in Final
            \/ flow.tasks[t].invalidated

Claimable(t) == /\ ~flow.paused /\ ~flow.tasks[t].accepted /\ InputsAccepted(t)
                /\ Fresh(t)
                /\ flow.tasks[t].tries < MaxAttempts
Claimed(t) ==
  LET item == flow.tasks[t]
  IN [flow EXCEPT !.tasks[t] =
       [item EXCEPT !.epoch = item.epoch + 1, !.tries = item.tries + 1, !.last = item.epoch + 1,
                    !.status = "reserved", !.invalidated = FALSE]]

\* A checkpoint is fenced by the epoch and follows the table.
Recordable(t, epoch, status) ==
  LET item == flow.tasks[t]
  IN item.epoch = epoch /\ item.last = epoch /\ item.status \in DOMAIN Allowed
     /\ status \in Allowed[item.status]
Recorded(t, status) ==
  LET item == flow.tasks[t]
  IN [flow EXCEPT !.tasks[t] =
       [item EXCEPT !.status = status,
                    !.accepted = item.accepted \/ status = "machine_accepted"]]

\* All that was built on what changed.
Affected(S) ==
  LET closed == {c \in SUBSET TaskSet : /\ S \subseteq c
                                        /\ \A t \in TaskSet : Parents[t] \cap c # {} => t \in c}
  IN CHOOSE c \in closed : \A d \in closed : c \subseteq d

-----------------------------------------------------------------------------
(* The ledger. *)

NoForecast == [known |-> FALSE, remaining |-> 0, affordable |-> FALSE]
Held == {r \in Requests : book.held[r] # "none"}
CostUnknownFree(b, r) == IF b.held[r] = "settled" THEN b.billed[r]
                         ELSE IF b.held[r] = "unknown" THEN 0 ELSE Worst[r[1]]
Cost(b, r) == IF b.held[r] = "settled" THEN b.billed[r] ELSE Worst[r[1]]
Units(b) == SumOver([r \in Requests |-> Cost(b, r)], {r \in Requests : b.held[r] # "none"})
FramesTaken == SumOver([r \in Requests |-> Frames[r[1]]], Held)
\* One route: its limit is checked beside the total.
WithinBudget(t) == /\ Units(book) + Worst[t] + CleanupUnits <= TotalUnits
                   /\ Units(book) + Worst[t] <= RouteLimit
                   /\ FramesTaken + Frames[t] <= MaxFrames
Threshold(t) == (Units(book) + Worst[t]) * 100 >= TotalUnits * ReforecastPercent
\* reserve and reconcile move the forecast's basis digest along with the costs, so a
\* recorded forecast always has the current basis.
ForecastCurrent(t) == book.forecast.known /\ book.forecast.remaining >= Worst[t]
ForecastAdmits(t) == Threshold(t) =>
                       t \notin Optional /\ ForecastCurrent(t) /\ book.forecast.affordable

RoundTaken(t, round) == \E r \in Held : r[1] = t /\ book.slot[r] = round
Reservable(t, round) == /\ t \in Generated => /\ round = book.rounds[ShotOf[t]]
                                              /\ ~RoundTaken(t, round)
                        /\ WithinBudget(t) /\ ForecastAdmits(t)
Affordable(b, remaining) == Units(b) + remaining + CleanupUnits <= TotalUnits
Refreshed(b) == IF b.forecast.known
                THEN [b EXCEPT !.forecast.affordable = Affordable(b, b.forecast.remaining)]
                ELSE b
Reserved(r, round) ==
  Refreshed([book EXCEPT !.held[r] = "reserved", !.slot[r] = round,
                         !.forecast.remaining = Max({0, @ - Worst[r[1]]})])

\* No bill, or a bill that is not a second one for other units.
NoBill == -1
Reconcilable(r, bill) == \/ bill = NoBill
                         \/ book.held[r] = "settled" => book.billed[r] = bill
Reconciled(r, bill) ==
  Refreshed(IF bill # NoBill THEN [book EXCEPT !.held[r] = "settled", !.billed[r] = bill]
            ELSE IF book.held[r] = "settled" THEN book
            ELSE [book EXCEPT !.held[r] = "unknown"])

\* The worst case of all attempts that may still be reserved.
RemainingForecast ==
  LET count(t) ==
        LET item == flow.tasks[t]
            reserved == item.tries > 0 /\ Current(t) \in Held
            round == book.rounds[ShotOf[t]]
        IN IF t \in Generated
           THEN MaxRounds - round + 1
                - (IF reserved /\ book.slot[Current(t)] = round THEN 1 ELSE 0)
           ELSE MaxAttempts - item.tries + (IF item.tries > 0 /\ ~reserved THEN 1 ELSE 0)
  IN SumOver([t \in Tasks |-> Max({0, count(t)}) * Worst[t]],
             {t \in TaskSet : ~flow.tasks[t].accepted})
Forecast(remaining) == [book EXCEPT !.forecast =
  [known |-> TRUE, remaining |-> remaining, affordable |-> Affordable(book, remaining)]]

-----------------------------------------------------------------------------
(* The batch: the scan over the plan. *)

Work(position) == [phase |-> "work", position |-> position]
Sweep(position) == [phase |-> "verify", position |-> position]
\* What was accepted, and what was replaced, when the digest of the workflow was compared for
\* the last time: a history of the batch.
NoLook == [accepted |-> {}, replaced |-> {}]
Off == [pc |-> "off", at |-> Work(0), task |-> plan[1], epoch |-> 0, round |-> 0,
        submits |-> FALSE, seen |-> {}, visited |-> 0, progressed |-> FALSE,
        obs |-> "none", bill |-> NoBill, stamped |-> 0, asof |-> NoLook]
AcceptedNow == {t \in TaskSet : flow.tasks[t].accepted}
At(pc) == run.pc = pc
Goes(pc) == run' = [run EXCEPT !.pc = pc]
Ends == run' = Off
Saves(progress, stale) == saved' = [now |-> progress, stale |-> stale]

WritesFlow == {"claim", "submitted", "lost", "report", "judge", "verified", "accept"}
WritesBook == {"round", "forecast", "reserve", "lostbill", "bill", "settle"}
Blocked == locked /\ run.pc \in WritesFlow \cup WritesBook
Conflicts == \/ run.pc \in WritesFlow /\ "workflow" \in retired
             \/ run.pc \in WritesBook /\ "ledger" \in retired

\* A write of a retired file is refused, and the wait for a lock is bounded: the batch ends
\* with the error.
Refused ==
  /\ Conflicts \/ Blocked
  /\ Ends
  /\ UNCHANGED <<documents, beyond, saved, job, replaced, expired>>

Writing(pc) == At(pc) /\ ~Blocked /\ ~Conflicts

Start ==
  LET again == IF AllAccepted THEN Sweep(0) ELSE Work(0)
      begins(progress) == run' = [Off EXCEPT !.pc = "top", !.at = progress]
  IN /\ At("off") /\ ~locked /\ retired = {}
     /\ IF saved.now.phase = "complete"
        THEN Saves(again, FALSE) /\ begins(again)
        ELSE begins(saved.now) /\ UNCHANGED saved
     /\ UNCHANGED <<documents, beyond, job, replaced, expired>>

NeverStale == FALSE
\* The workflow is no longer the one whose digest the sweep recorded.
Stale == saved.stale

Top ==
  /\ At("top")
  /\ \/ flow.paused /\ Ends /\ UNCHANGED saved
     \/ /\ ~flow.paused /\ run.at.phase = "verify" /\ Stale
        /\ Saves(Work(0), FALSE) /\ run' = [run EXCEPT !.at = Work(0)]
     \/ /\ ~flow.paused /\ run.at.phase = "verify" /\ ~Stale
        /\ run' = [run EXCEPT !.pc = "restamp", !.stamped = 0] /\ UNCHANGED saved
     \/ /\ ~flow.paused /\ run.at.phase = "work"
        /\ run' = [run EXCEPT !.pc = "visit", !.seen = AcceptedNow, !.visited = 0,
                              !.progressed = FALSE]
        /\ UNCHANGED saved
  /\ UNCHANGED <<documents, beyond, job, replaced, expired>>

\* The next task of the rotating scan.
Index == run.at.position % Len(plan)
Candidate == plan[Index + 1]
Advanced == Work((Index + 1) % Len(plan))

Skip ==
  /\ At("visit") /\ run.visited < Len(plan)
  /\ \/ Candidate \in run.seen
     \/ Candidate \notin run.seen /\ ~flow.paused
        /\ (flow.tasks[Candidate].accepted \/ ~InputsAccepted(Candidate))
  /\ run' = [run EXCEPT !.visited = @ + 1, !.at = Advanced,
                        !.seen = IF Candidate \in @ THEN @ ELSE AcceptedNow]
  /\ UNCHANGED <<documents, beyond, saved, job, replaced, expired>>

\* A task is taken up; its accepted inputs are checked first, and a changed one ends the
\* batch.  A task whose last attempt in this round is over waits until the round is drained.
LiveSiblings(t) == {u \in TaskSet \ {t} : ShotOf[u] = ShotOf[t] /\ IsLive(u)}
SubmitsUnknown(t) == Fresh(t) \/ flow.tasks[t].status \in {"reserved", "unknown"}
Submits(t) == Fresh(t) \/ flow.tasks[t].status = "reserved"
TakeUp ==
  LET t == Candidate
      prior == Current(t)
      held == flow.tasks[t].tries > 0 /\ prior \in Held
      round == book.rounds[ShotOf[t]]
      again == Fresh(t) /\ t \in Generated /\ held /\ book.slot[prior] = round
      waits == again /\ LiveSiblings(t) # {}
  IN /\ At("visit") /\ run.visited < Len(plan) /\ t \notin run.seen
     /\ ~flow.paused /\ ~flow.tasks[t].accepted /\ InputsAccepted(t)
     /\ \/ Parents[t] \cap replaced # {} /\ Ends /\ UNCHANGED saved
        \/ /\ Parents[t] \cap replaced = {} /\ waits
           /\ run' = [run EXCEPT !.visited = @ + 1, !.seen = AcceptedNow, !.at = Advanced]
           /\ Saves(Advanced, FALSE)
        \/ /\ Parents[t] \cap replaced = {} /\ ~waits
           /\ run' = [run EXCEPT
                !.pc = IF again THEN "round" ELSE IF Fresh(t) THEN "claim" ELSE "forecast",
                !.task = t, !.visited = @ + 1,
                !.epoch = IF Fresh(t) THEN 0 ELSE flow.tasks[t].last,
                !.submits = Submits(t),
                !.round = IF t \notin Generated THEN 0
                          ELSE IF ~Fresh(t) /\ held THEN book.slot[prior] ELSE round]
           /\ UNCHANGED saved
     /\ UNCHANGED <<documents, beyond, job, replaced, expired>>

\* The whole plan was visited.
Turn ==
  /\ At("visit")
  /\ \/ /\ flow.paused /\ run.visited < Len(plan) /\ Candidate \notin run.seen
        /\ Ends /\ UNCHANGED saved
     \/ /\ run.visited = Len(plan) /\ AllAccepted
        /\ Saves(Sweep(0), FALSE)
        /\ run' = [run EXCEPT !.pc = "top", !.at = Sweep(0)]
     \/ /\ run.visited = Len(plan) /\ ~AllAccepted
        /\ Saves(run.at, FALSE)
        /\ IF run.progressed THEN Goes("top") ELSE Ends
  /\ UNCHANGED <<documents, beyond, job, replaced, expired>>

\* The end of the batch's time between two tasks.
TimeIsUp ==
  /\ \/ At("top") /\ UNCHANGED saved
     \/ At("visit") /\ Saves(IF AllAccepted THEN Sweep(0) ELSE run.at, FALSE)
  /\ Ends
  /\ UNCHANGED <<documents, beyond, job, replaced, expired>>

-----------------------------------------------------------------------------
(* The batch: one task. *)

Task == run.task
Request == <<run.task, run.epoch>>
Record(status, pc) ==
  IF Recordable(Task, run.epoch, status)
  THEN flow' = Recorded(Task, status) /\ Goes(pc)
  ELSE Ends /\ UNCHANGED flow
\* The task is left; the scan goes on and saves its position.
Leaves(progressed) ==
  /\ run' = [run EXCEPT !.pc = "visit", !.seen = AcceptedNow, !.at = Advanced,
                        !.progressed = @ \/ progressed]
  /\ Saves(Advanced, FALSE)

AdvanceRound ==
  LET shot == ShotOf[Task]
  IN /\ Writing("round")
     /\ \/ /\ book.rounds[shot] = run.round /\ run.round < MaxRounds /\ ~expired
           /\ book' = [book EXCEPT !.rounds[shot] = @ + 1]
           /\ run' = [run EXCEPT !.pc = "claim", !.round = @ + 1]
        \/ /\ run.round >= MaxRounds \/ expired
           /\ Ends /\ UNCHANGED book
     /\ UNCHANGED <<flow, beyond, saved, job, replaced, expired>>

Claim ==
  /\ Writing("claim")
  /\ IF Claimable(Task)
     THEN /\ flow' = Claimed(Task)
          /\ run' = [run EXCEPT !.pc = "forecast", !.epoch = flow.tasks[Task].epoch + 1]
          /\ replaced' = replaced \ {Task}   \* a request has an artifact of its own
     ELSE Ends /\ UNCHANGED <<flow, replaced>>
  /\ UNCHANGED <<book, beyond, saved, job, expired>>

\* A forecast is recorded when the reservation will ask for one that is not there.
RecordForecast ==
  LET needed == /\ Request \notin Held /\ Threshold(Task) /\ Task \notin Optional
                /\ ~(ForecastCurrent(Task) /\ book.forecast.affordable)
  IN /\ Writing("forecast")
     /\ book' = IF needed THEN Forecast(RemainingForecast) ELSE book
     /\ Goes("reserve")
     /\ UNCHANGED <<flow, beyond, saved, job, replaced, expired>>

Reserve ==
  /\ Writing("reserve")
  /\ \/ /\ Request \in Held
        /\ Goes(IF run.submits THEN "submitted" ELSE "observe")
        /\ UNCHANGED book
     \/ /\ Request \notin Held /\ ~expired /\ Reservable(Task, run.round)
        /\ book' = Reserved(Request, run.round)
        /\ Goes(IF run.submits THEN "submitted" ELSE "observe")
     \/ /\ Request \notin Held /\ (expired \/ ~Reservable(Task, run.round))
        /\ Ends /\ UNCHANGED book
  /\ UNCHANGED <<flow, beyond, saved, job, replaced, expired>>

\* The intent is recorded before the provider is called.
RecordSubmitted ==
  /\ Writing("submitted")
  /\ IF expired THEN Ends /\ UNCHANGED flow ELSE Record("submitted", "submit")
  /\ UNCHANGED <<book, beyond, saved, job, replaced, expired>>

\* The provider may have the job although the call fails.
Submit ==
  /\ At("submit")
  /\ \/ /\ job' = [job EXCEPT ![Request].sent = @ + 1, ![Request].state = "running"]
        /\ Goes("observe")
     \/ /\ \/ job' = [job EXCEPT ![Request].sent = @ + 1, ![Request].state = "running"]
           \/ job' = job
        /\ Goes("lost")
  /\ UNCHANGED <<documents, beyond, saved, replaced, expired>>

RecordLost ==
  /\ Writing("lost") /\ Record("unknown", "lostbill")
  /\ UNCHANGED <<book, beyond, saved, job, replaced, expired>>

HoldLost ==
  /\ Writing("lostbill")
  /\ book' = Reconciled(Request, NoBill) /\ Ends
  /\ UNCHANGED <<flow, beyond, saved, job, replaced, expired>>

\* What the driver says of the request; it may fail or not know, and the bill may be missing.
\* A job that was running may have ended by now.
Ended(state) == IF state = "running" THEN {"running", "produced", "failed"} ELSE {state}
Observe ==
  /\ At("observe")
  /\ \/ Ends /\ UNCHANGED job
     \/ run' = [run EXCEPT !.pc = "report", !.obs = "unknown", !.bill = NoBill] /\ UNCHANGED job
     \/ /\ job[Request].state # "none"
        /\ \E state \in Ended(job[Request].state) :
             /\ job' = [job EXCEPT ![Request].state = state]
             /\ \E bill \in IF state = "running" THEN {NoBill} ELSE Bills[Task] \cup {NoBill} :
                  run' = [run EXCEPT !.pc = "report", !.obs = state, !.bill = bill]
  /\ UNCHANGED <<documents, beyond, saved, replaced, expired>>

Report ==
  LET latest == flow.tasks[Task].status
      goes == IF run.obs = "produced" THEN "judge" ELSE "bill"
  IN /\ Writing("report")
     /\ \/ /\ latest = run.obs \/ (run.obs = "produced" /\ latest = "verified")
           /\ Goes(goes) /\ UNCHANGED flow
        \/ /\ ~(latest = run.obs \/ (run.obs = "produced" /\ latest = "verified"))
           /\ Record(run.obs, goes)
     /\ UNCHANGED <<book, beyond, saved, job, replaced, expired>>

\* A request that is not known ends the batch, before the scan has moved on.
Bill ==
  /\ Writing("bill") /\ Reconcilable(Request, run.bill)
  /\ book' = Reconciled(Request, run.bill)
  /\ IF run.obs = "unknown" THEN Ends /\ UNCHANGED saved
                            ELSE Leaves(run.obs # "running")
  /\ UNCHANGED <<flow, beyond, job, replaced, expired>>

\* The evaluation of what was produced; it may be refused, undecided or fail.
Judge ==
  /\ Writing("judge")
  /\ \/ Record("rejected", "settle")
     \/ Ends /\ UNCHANGED flow
     \/ flow.tasks[Task].status # "verified" /\ Record("verified", "accept")
     \/ flow.tasks[Task].status = "verified" /\ Goes("accept") /\ UNCHANGED flow
  /\ UNCHANGED <<book, beyond, saved, job, replaced, expired>>

Accept ==
  /\ Writing("accept") /\ Record("machine_accepted", "settle")
  /\ UNCHANGED <<book, beyond, saved, job, replaced, expired>>

Settle ==
  /\ Writing("settle") /\ Reconcilable(Request, run.bill)
  /\ book' = Reconciled(Request, run.bill)
  /\ Leaves(TRUE)
  /\ UNCHANGED <<flow, beyond, job, replaced, expired>>

-----------------------------------------------------------------------------
(* The batch: the verification sweep over what was accepted. *)

\* The stamp of a file is not the one taken with its check.
NeverChanged(i) == FALSE
HasChanged(i) == plan[i] \in replaced

\* The files that were checked are looked at one after another, before the sweep goes on and
\* once more after it: the first that has changed since takes the sweep back to it.
Restamp ==
  LET back == Sweep(run.stamped)
  IN /\ run.pc \in {"restamp", "confirm"} /\ run.stamped < run.at.position
     /\ IF ~HasChanged(run.stamped + 1)
        THEN run' = [run EXCEPT !.stamped = @ + 1] /\ UNCHANGED saved
        ELSE /\ Saves(back, saved.stale)
             /\ IF At("confirm") THEN Ends ELSE run' = [run EXCEPT !.pc = "sweep", !.at = back]
     /\ UNCHANGED <<documents, beyond, job, replaced, expired>>

Restamped ==
  /\ At("restamp") /\ run.stamped = run.at.position
  /\ Goes("sweep")
  /\ UNCHANGED <<documents, beyond, saved, job, replaced, expired>>

\* One accepted task is verified again; a changed file ends the batch.
SweepTask ==
  /\ At("sweep") /\ run.at.position < Len(plan) /\ ~Stale
  /\ IF plan[run.at.position + 1] \in replaced THEN Ends
     ELSE run' = [run EXCEPT !.at.position = @ + 1]
  /\ UNCHANGED <<documents, beyond, saved, job, replaced, expired>>

SweepStale ==
  /\ At("sweep") /\ Stale
  /\ Saves(Work(0), FALSE) /\ run' = [run EXCEPT !.pc = "top", !.at = Work(0)]
  /\ UNCHANGED <<documents, beyond, job, replaced, expired>>

\* Everything was checked, or the time is up, and the digest of the workflow is compared for
\* the last time.
SweepEnds ==
  /\ At("sweep") /\ ~Stale
  /\ Saves(run.at, FALSE)
  /\ IF run.at.position = Len(plan)
     THEN run' = [run EXCEPT !.pc = "confirm", !.stamped = 0,
                             !.asof = [accepted |-> AcceptedNow, replaced |-> replaced]]
     ELSE Ends
  /\ UNCHANGED <<documents, beyond, job, replaced, expired>>

\* No file had changed when it was looked at.
Complete ==
  /\ At("confirm") /\ run.stamped = Len(plan)
  /\ Saves([phase |-> "complete", position |-> 0], saved.stale)
  /\ Ends
  /\ UNCHANGED <<documents, beyond, job, replaced, expired>>

BatchStep ==
  \/ Start \/ Refused \/ Top \/ Skip \/ TakeUp \/ Turn \/ TimeIsUp
  \/ AdvanceRound \/ Claim \/ RecordForecast \/ Reserve \/ RecordSubmitted \/ Submit
  \/ RecordLost \/ HoldLost \/ Observe \/ Report \/ Bill \/ Judge \/ Accept \/ Settle
  \/ Restamp \/ Restamped \/ SweepTask \/ SweepStale \/ SweepEnds \/ Complete

-----------------------------------------------------------------------------
(* What happens beside the batch. *)

Dies ==
  /\ ~At("off") /\ Ends
  /\ UNCHANGED <<documents, beyond, saved, job, replaced, expired>>

\* Another process replaces the workflow: a sweep that recorded its digest is stale.
Writes(file) == ~locked /\ file \notin retired
Disturbs == saved' = [saved EXCEPT !.stale = saved.now.phase = "verify"]

Pause ==
  /\ "pause" \in beside /\ Writes("workflow")
  /\ flow' = [flow EXCEPT !.paused = ~@] /\ Disturbs
  /\ UNCHANGED <<book, beyond, run, job, replaced, expired>>

Invalidatable(S) == \A t \in S : ~IsLive(t)
Invalidate(changed) ==
  LET S == Affected({changed})
  IN /\ "invalidate" \in beside /\ Writes("workflow")
     /\ \A t \in S : flow.tasks[t].epoch + MaxAttempts - flow.tasks[t].tries < MaxEpoch
     /\ Invalidatable(S)
     /\ flow' = [flow EXCEPT !.tasks = [t \in Tasks |->
          IF t \in S
          THEN [flow.tasks[t] EXCEPT !.epoch = flow.tasks[t].epoch + 1, !.accepted = FALSE,
                                     !.invalidated = flow.tasks[t].tries > 0]
          ELSE flow.tasks[t]]]
     /\ Disturbs
     /\ UNCHANGED <<book, beyond, run, job, replaced, expired>>

\* budget-forecast: the operator's own estimate, which may be the right one or far too small.
OperatorForecast ==
  /\ "forecast" \in beside /\ Writes("ledger")
  /\ \E remaining \in {0, RemainingForecast} : book' = Forecast(remaining)
  /\ UNCHANGED <<flow, beyond, saved, run, job, replaced, expired>>

Replace(t) ==
  /\ "replace" \in beside
  /\ flow.tasks[t].accepted /\ t \notin replaced
  /\ replaced' = replaced \cup {t}
  /\ UNCHANGED <<documents, beyond, saved, run, job, expired>>

AuthorizationExpires ==
  /\ "expire" \in beside /\ ~expired
  /\ expired' = TRUE
  /\ UNCHANGED <<documents, beyond, saved, run, job, replaced>>

Others ==
  \/ Dies \/ Pause \/ OperatorForecast \/ AuthorizationExpires
  \/ \E t \in TaskSet : Invalidate(t) \/ Replace(t)

JsonInit ==
  /\ \E c \in Cases : plan = c.plan /\ beside = c.beside
  /\ flow = [paused |-> FALSE, tasks |-> [t \in Tasks |-> NoTask]]
  /\ book = [held |-> [r \in Requests |-> "none"], billed |-> [r \in Requests |-> 0],
             slot |-> [r \in Requests |-> 0], rounds |-> [s \in Shots |-> 1],
             forecast |-> NoForecast]
  /\ retired = {} /\ locked = FALSE
  /\ saved = [now |-> Work(0), stale |-> FALSE]
  /\ run = Off
  /\ job = [r \in Requests |-> [state |-> "none", sent |-> 0]]
  /\ replaced = {} /\ expired = FALSE

JsonNext == BatchStep \/ Others
JsonSpec == JsonInit /\ [][JsonNext]_jsonVars

-----------------------------------------------------------------------------
(* Properties. *)

\* The ledger implements the abstract budget: what its readers add up anew each time never
\* commits more than was authorized, and nothing but a bill frees money.
LedgerBudget ==
  INSTANCE BudgetAuthority WITH
    Charges <- Requests,
    Routes <- {"route"}, ChargeRoute <- [r \in Requests |-> "route"],
    ChargeWorst <- [r \in Requests |-> Worst[r[1]]],
    ChargeFrames <- [r \in Requests |-> Frames[r[1]]],
    Total <- TotalUnits, Reserve <- CleanupUnits,
    RouteCap <- [rt \in {"route"} |-> RouteLimit], FrameCap <- MaxFrames,
    state <- [r \in Requests |->
               IF book.held[r] = "none" THEN "open"
               ELSE IF book.held[r] = "settled" THEN "billed" ELSE "reserved"],
    bill <- book.billed

LedgerImplementsBudget == LedgerBudget!Spec

\* No request is sent twice, and what was sent is held in the ledger, wherever the batch
\* died between the two files.
SentOnceAndHeld ==
  \A r \in Requests : job[r].sent <= 1 /\ (job[r].sent > 0 => book.held[r] # "none")

\* A shot's round advances only when its last one is drained: work that is still open and has
\* its money belongs to the round the ledger is in.
RoundIsDrained ==
  \A t \in Generated :
    IsLive(t) /\ Current(t) \in Held => book.slot[Current(t)] = book.rounds[ShotOf[t]]

\* Sent work is held, and held work is in the round it belongs to.
RequestsInStep == SentOnceAndHeld /\ RoundIsDrained

\* The batch reports a production as accepted only if, at the instant it compared the digest of
\* the workflow for the last time, everything was accepted and no accepted file was replaced,
\* whenever in the sweep, or before it, that had happened.  What changes later, while the files
\* are looked at once more, may be missed: the sweep is no atomic approval.
SweptIsAccepted ==
  [][saved'.now.phase = "complete" /\ saved.now.phase # "complete"
       => run.asof = [accepted |-> TaskSet, replaced |-> {}]]_jsonVars
=============================================================================
