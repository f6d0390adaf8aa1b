----------------------------- MODULE JsonProofs -----------------------------
(* Theorems about the pair of JSON files, its batch, and the cutover to an  *)
(* indexed store, for every plan, every limit and any number of migrations. *)
EXTENDS StoreMigration, SumLemmas, SequenceTheorems

----------------------------------------------------------------------------
(* Types.                                                                  *)

Statuses == Live \cup Final \cup {"none", "machine_accepted"}
TaskRecords == [epoch: Nat, tries: Nat, last: Nat, status: Statuses,
                invalidated: BOOLEAN, accepted: BOOLEAN]
Holdings == {"none", "reserved", "unknown", "settled"}
JobStates == {"none", "running", "produced", "failed"}
Positions == [phase: {"work", "verify"}, position: Nat]
\* Where the batch is between two tasks, with a task, and with one it has money for.
Between == {"off", "top", "visit", "restamp", "sweep", "confirm"}
Reporting == {"report", "bill", "judge", "accept", "settle"}
Paid == {"submitted", "submit", "lost", "lostbill", "observe"} \cup Reporting
Busy == {"round", "claim", "forecast", "reserve"} \cup Paid
RunRecords ==
  [pc: Between \cup Busy, at: Positions, task: Tasks, epoch: Nat, round: Nat, submits: BOOLEAN,
   seen: SUBSET Tasks, visited: Nat, progressed: BOOLEAN,
   obs: JobStates \cup {"unknown"}, bill: Int, stamped: Nat,
   asof: [accepted: SUBSET Tasks, replaced: SUBSET Tasks]]

FlowTyped == DOMAIN flow = {"paused", "tasks"} /\ flow.tasks \in [Tasks -> TaskRecords]
BookTyped ==
  /\ DOMAIN book = {"held", "billed", "slot", "rounds", "forecast"}
  /\ book.held \in [Requests -> Holdings] /\ book.billed \in [Requests -> Nat]
  /\ book.slot \in [Requests -> Nat] /\ book.rounds \in [Shots -> Nat]
SavedTyped ==
  saved \in [now: [phase: {"work", "verify", "complete"}, position: Nat], stale: BOOLEAN]

JsonTyped ==
  /\ plan \in Seq(Tasks) /\ plan # <<>>
  /\ FlowTyped /\ BookTyped /\ SavedTyped
  /\ job \in [Requests -> [state: JobStates, sent: Nat]]
  /\ run \in RunRecords
  /\ replaced \subseteq TaskSet

----------------------------------------------------------------------------
(* The invariant.                                                          *)

\* A task that is open is one of the plan, in its current epoch; what may still
\* be claimed of it has an epoch left.
TaskHolds(t) ==
  /\ flow.tasks[t].last <= flow.tasks[t].epoch /\ flow.tasks[t].tries <= MaxAttempts
  /\ flow.tasks[t].epoch + MaxAttempts <= MaxEpoch + flow.tasks[t].tries
  /\ flow.tasks[t].tries > 0 => flow.tasks[t].last >= 1
  /\ IsLive(t) => t \in TaskSet /\ ~Fresh(t) /\ flow.tasks[t].epoch = flow.tasks[t].last

\* Money is held for claimed requests only, what was sent is held, and a
\* reserved request was not sent yet.
LedgerHolds ==
  /\ \A r \in Requests : book.held[r] # "none" => r[2] <= flow.tasks[r[1]].last
  /\ \A t \in Tasks : flow.tasks[t].status = "reserved" => job[Current(t)].sent = 0

\* What the batch read of the files still holds where it acts on it: a shot
\* whose round is over has no open work, the request at hand is the latest of
\* its task, and one about to be sent was never sent.
RunHolds ==
  /\ run.pc \in Busy => run.task \in TaskSet
  /\ run.pc = "round" => \A u \in Tasks : ShotOf[u] = ShotOf[run.task] => ~IsLive(u)
  /\ run.pc \in {"forecast", "reserve", "submitted", "submit"} =>
       run.epoch = flow.tasks[run.task].last /\ run.epoch >= 1
  /\ run.pc \in {"forecast", "reserve", "submitted"} /\ run.submits =>
       flow.tasks[run.task].status = "reserved"
  /\ run.pc = "submitted" => run.submits
  /\ run.pc = "submit" => flow.tasks[run.task].status = "submitted" /\ job[Request].sent = 0
  /\ run.pc \in Paid => Request \in Held
  /\ run.pc \in Reporting => run.bill \in {NoBill} \cup Bills[run.task]

\* What was replaced when the sweep ended is still replaced; none of it is among the files
\* that were looked at since.
Confirmed ==
  /\ run.asof.accepted = TaskSet /\ run.asof.replaced \subseteq replaced
  /\ \A i \in 1..run.stamped : plan[i] \notin run.asof.replaced

\* A sweep that is not stale goes over a plan of which everything is accepted.
SweepHolds ==
  /\ run.pc # "off" => saved.now.phase = run.at.phase
  /\ run.pc \in Busy \cup {"visit"} => run.at.phase = "work"
  /\ run.pc \in {"restamp", "sweep", "confirm"} => run.at.phase = "verify"
  /\ saved.now.phase = "verify" /\ ~saved.stale => AllAccepted
  /\ run.pc = "confirm" => Confirmed

JsonInv ==
  /\ JsonTyped /\ (\A t \in Tasks : TaskHolds(t)) /\ LedgerHolds /\ RequestsInStep
  /\ RunHolds /\ SweepHolds

----------------------------------------------------------------------------
(* Lemmas about the operators.                                             *)

LEMMA PlanTasks ==
  ASSUME plan \in Seq(Tasks), plan # <<>>
  PROVE  /\ Len(plan) \in Nat \ {0} /\ DOMAIN plan = 1..Len(plan)
         /\ TaskSet \subseteq Tasks /\ \A i \in 1..Len(plan) : plan[i] \in TaskSet
<1>1. Len(plan) \in Nat \ {0} /\ DOMAIN plan = 1..Len(plan)
  OBVIOUS
<1>2. \A i \in 1..Len(plan) : plan[i] \in Tasks
  BY ElementOfSeq
<1>. QED
  BY <1>1, <1>2 DEF TaskSet, Range

LEMMA RequestIs ==
  ASSUME JsonTyped, NEW t \in Tasks, NEW e \in 1..MaxEpoch
  PROVE  <<t, e>> \in Requests
BY DEF Requests

\* The latest request of a task that was claimed is one.
LEMMA CurrentIs ==
  ASSUME JsonTyped, NEW t \in Tasks, TaskHolds(t), flow.tasks[t].last >= 1
  PROVE  Current(t) \in Requests /\ flow.tasks[t].last \in 1..MaxEpoch
<1>1. flow.tasks[t] \in TaskRecords
  BY DEF JsonTyped, FlowTyped
<1>2. /\ flow.tasks[t].last \in Nat /\ flow.tasks[t].epoch \in Nat /\ flow.tasks[t].tries \in Nat
  BY <1>1 DEF TaskRecords
<1>3. flow.tasks[t].last \in 1..MaxEpoch
  BY <1>2, JsonPlanAssumption DEF TaskHolds
<1>. QED
  BY <1>3 DEF Current, Requests

\* The fields of a task's row.
LEMMA RowIs ==
  ASSUME JsonTyped, NEW t \in Tasks
  PROVE  /\ flow.tasks[t] \in TaskRecords
         /\ flow.tasks[t].last \in Nat /\ flow.tasks[t].epoch \in Nat /\ flow.tasks[t].tries \in Nat
         /\ flow.tasks[t].status \in Statuses
         /\ flow.tasks[t].invalidated \in BOOLEAN /\ flow.tasks[t].accepted \in BOOLEAN
<1>1. flow.tasks[t] \in TaskRecords
  BY DEF JsonTyped, FlowTyped
<1>. QED
  BY <1>1 DEF TaskRecords

\* The bills of a task are amounts up to its worst case; there is none of -1.
LEMMA BillsAre ==
  ASSUME NEW t \in Tasks
  PROVE  NoBill \notin Bills[t] /\ Bills[t] \subseteq 0..Worst[t] /\ Worst[t] \in Nat
BY JsonPlanAssumption DEF NoBill

----------------------------------------------------------------------------
(* Initial states.                                                         *)

LEMMA JsonStarts ==
  ASSUME JsonInit
  PROVE  JsonInv
<1>1. plan \in Seq(Tasks) /\ plan # <<>>
  BY JsonPlanAssumption DEF JsonInit
<1>2. plan[1] \in Tasks /\ TaskSet \subseteq Tasks
  BY <1>1, PlanTasks
<1>3. flow = [paused |-> FALSE, tasks |-> [t \in Tasks |-> NoTask]]
  BY DEF JsonInit
<1>4. \A t \in Tasks : flow.tasks[t] = NoTask
  BY <1>3
<1>5. NoTask \in TaskRecords
  BY DEF NoTask, TaskRecords, Statuses
<1>6. FlowTyped
  BY <1>3, <1>5 DEF FlowTyped
<1>7. BookTyped
  BY DEF JsonInit, BookTyped, Holdings
<1>8. SavedTyped /\ saved.now.phase = "work"
  BY DEF JsonInit, SavedTyped, Work
<1>9. run \in RunRecords /\ run.pc = "off"
  <2>1. run = Off /\ Off.pc = "off"
    BY DEF JsonInit, Off
  <2>2. Off \in RunRecords
    BY <1>2 DEF Off, Work, RunRecords, Positions, Between, NoBill, NoLook, JobStates
  <2>. QED
    BY <2>1, <2>2
<1>10. JsonTyped
  BY <1>1, <1>6, <1>7, <1>8, <1>9 DEF JsonTyped, JsonInit, JobStates
<1>11. \A t \in Tasks : TaskHolds(t)
  BY <1>4, JsonPlanAssumption DEF TaskHolds, NoTask, IsLive, Live
<1>12. LedgerHolds
  BY <1>4 DEF LedgerHolds, NoTask, JsonInit
<1>13. RequestsInStep
  BY <1>4, JsonPlanAssumption
  DEF RequestsInStep, SentOnceAndHeld, RoundIsDrained, IsLive, Live, NoTask, JsonInit
<1>14. RunHolds
  BY <1>9 DEF RunHolds, Busy, Paid, Reporting
<1>15. SweepHolds
  BY <1>8, <1>9 DEF SweepHolds, Busy, Paid, Reporting
<1>. QED
  BY <1>10, <1>11, <1>12, <1>13, <1>14, <1>15 DEF JsonInv

----------------------------------------------------------------------------
(* Steps that leave the documents alone.                                   *)

\* A batch that ended, or is between two tasks, relies on nothing of the files.
LEMMA Ending ==
  ASSUME JsonTyped, plan' = plan, run' = Off
  PROVE  run' \in RunRecords /\ run'.pc = "off" /\ RunHolds'
<1>1. plan[1] \in Tasks
  BY PlanTasks DEF JsonTyped
<1>2. Off.pc = "off" /\ Off \in RunRecords
  BY <1>1 DEF Off, Work, RunRecords, Positions, Between, NoBill, NoLook, JobStates
<1>. QED
  BY <1>2 DEF RunHolds, Busy, Paid, Reporting

LEMMA BetweenHolds ==
  ASSUME run'.pc \in Between
  PROVE  RunHolds'
BY DEF RunHolds, Between, Busy, Paid, Reporting

LEMMA Quiet ==
  ASSUME JsonInv, UNCHANGED <<plan, flow, book, job>>, run' \in RunRecords, SavedTyped',
         replaced' \subseteq TaskSet, RunHolds', SweepHolds'
  PROVE  JsonInv'
<1>1. JsonTyped'
  BY DEF JsonInv, JsonTyped, FlowTyped, BookTyped, TaskSet
<1>2. (\A t \in Tasks : TaskHolds(t))'
  BY DEF JsonInv, TaskHolds, IsLive, Fresh, TaskSet
<1>3. LedgerHolds'
  BY DEF JsonInv, LedgerHolds, Current
<1>4. RequestsInStep'
  BY DEF JsonInv, RequestsInStep, SentOnceAndHeld, RoundIsDrained, IsLive, Held, Current
<1>. QED
  BY <1>1, <1>2, <1>3, <1>4 DEF JsonInv

\* A step after which the batch is between two tasks.
LEMMA BetweenMoves ==
  ASSUME JsonInv, UNCHANGED <<plan, flow, book, job>>, replaced' \subseteq TaskSet,
         run' \in RunRecords, run'.pc \in Between, SavedTyped',
         run'.pc # "off" => saved'.now.phase = run'.at.phase,
         run'.pc = "visit" => run'.at.phase = "work",
         run'.pc \in {"restamp", "sweep", "confirm"} => run'.at.phase = "verify",
         saved'.now.phase = "verify" /\ ~saved'.stale => AllAccepted,
         run'.pc = "confirm" => Confirmed'
  PROVE  JsonInv'
<1>1. RunHolds'
  BY BetweenHolds
<1>2. SweepHolds'
  BY DEF SweepHolds, Between, Busy, Paid, Reporting, AllAccepted, TaskSet
<1>. QED
  BY <1>1, <1>2, Quiet

\* A step with which the batch ends.
LEMMA EndMoves ==
  ASSUME JsonInv, UNCHANGED <<plan, flow, book, job>>, replaced' \subseteq TaskSet,
         run' = Off, SavedTyped',
         saved'.now.phase = "verify" /\ ~saved'.stale => AllAccepted
  PROVE  JsonInv'
<1>1. run' \in RunRecords /\ run'.pc = "off"
  BY Ending DEF JsonInv
<1>. QED
  BY <1>1, BetweenMoves DEF Between

\* What is known of the batch before a step.
LEMMA RunIs ==
  ASSUME JsonInv
  PROVE  /\ JsonTyped /\ run \in RunRecords /\ run.at \in Positions /\ run.at.position \in Nat
         /\ run.at.phase \in {"work", "verify"} /\ run.task \in Tasks
         /\ SavedTyped /\ saved.stale \in BOOLEAN /\ replaced \subseteq TaskSet
         /\ saved = [now |-> saved.now, stale |-> saved.stale]
         /\ (saved.now.phase = "verify" /\ ~saved.stale => AllAccepted)
         /\ (run.pc # "off" => saved.now.phase = run.at.phase)
<1>1. JsonTyped /\ run \in RunRecords /\ SavedTyped /\ saved.stale \in BOOLEAN
      /\ replaced \subseteq TaskSet /\ SweepHolds
  BY DEF JsonInv, JsonTyped, SavedTyped
<1>2. run.at \in Positions /\ run.task \in Tasks
  BY <1>1 DEF RunRecords
<1>3. run.at.position \in Nat /\ run.at.phase \in {"work", "verify"}
  BY <1>2 DEF Positions
<1>4. saved = [now |-> saved.now, stale |-> saved.stale]
  BY <1>1 DEF SavedTyped
<1>. QED
  BY <1>1, <1>2, <1>3, <1>4 DEF SweepHolds

LEMMA StartMoves ==
  ASSUME JsonInv, Start
  PROVE  JsonInv'
<1>. DEFINE again == IF AllAccepted THEN Sweep(0) ELSE Work(0)
<1>1. \E at \in Positions : run' = [Off EXCEPT !.pc = "top", !.at = at] /\ saved'.now = at
        /\ SavedTyped' /\ (at.phase = "verify" /\ ~saved'.stale => AllAccepted)
  <2>1. CASE saved.now.phase = "complete"
    <3>1. saved' = [now |-> again, stale |-> FALSE] /\ run' = [Off EXCEPT !.pc = "top", !.at = again]
      BY <2>1 DEF Start, Saves
    <3>2. again \in Positions /\ (again.phase = "verify" => AllAccepted)
      BY DEF Sweep, Work, Positions
    <3>. HIDE DEF again
    <3>. QED
      BY <3>1, <3>2 DEF SavedTyped, Positions
  <2>2. CASE saved.now.phase # "complete"
    <3>1. saved' = saved /\ run' = [Off EXCEPT !.pc = "top", !.at = saved.now]
      BY <2>2 DEF Start
    <3>2. saved.now \in Positions /\ SavedTyped
      BY <2>2 DEF JsonInv, JsonTyped, SavedTyped, Positions
    <3>. QED
      BY <3>1, <3>2 DEF SavedTyped, JsonInv, SweepHolds
  <2>. QED
    BY <2>1, <2>2
<1>2. PICK at \in Positions : run' = [Off EXCEPT !.pc = "top", !.at = at] /\ saved'.now = at
        /\ SavedTyped' /\ (at.phase = "verify" /\ ~saved'.stale => AllAccepted)
  BY <1>1
<1>3. UNCHANGED <<plan, flow, book, job, replaced>>
  BY DEF Start, documents, beyond, case
<1>4. Off \in RunRecords
  <2>1. plan[1] \in Tasks
    BY PlanTasks DEF JsonInv, JsonTyped
  <2>. QED
    BY <2>1 DEF Off, Work, RunRecords, Positions, Between, NoBill, NoLook, JobStates
<1>5. run' \in RunRecords /\ run'.pc = "top" /\ run'.at = at
  BY <1>2, <1>4 DEF RunRecords, Between
<1>. QED
  BY <1>2, <1>3, <1>5, BetweenMoves, RunIs DEF Between

LEMMA TopMoves ==
  ASSUME JsonInv, Top
  PROVE  JsonInv'
<1>1. UNCHANGED <<plan, flow, book, job, replaced>> /\ run.pc = "top"
  BY DEF Top, documents, beyond, case, At
<1>2. CASE run' = Off /\ saved' = saved
  BY <1>1, <1>2, EndMoves, RunIs DEF SavedTyped
<1>3. CASE saved' = [now |-> Work(0), stale |-> FALSE] /\ run' = [run EXCEPT !.at = Work(0)]
  <2>1. run' \in RunRecords /\ run'.pc = "top" /\ run'.at.phase = "work" /\ SavedTyped'
        /\ saved'.now.phase = "work"
    BY <1>1, <1>3, RunIs DEF RunRecords, Work, Positions, SavedTyped
  <2>. QED
    BY <1>1, <2>1, BetweenMoves, RunIs DEF Between
<1>4. CASE /\ run.at.phase = "verify" /\ saved' = saved
           /\ run' = [run EXCEPT !.pc = "restamp", !.stamped = 0]
  <2>1. run' \in RunRecords /\ run'.pc = "restamp" /\ run'.at = run.at
    BY <1>4, RunIs DEF RunRecords, Between
  <2>2. SavedTyped' /\ saved' = saved
    BY <1>4, RunIs DEF SavedTyped
  <2>. QED
    BY <1>1, <1>4, <2>1, <2>2, BetweenMoves, RunIs DEF Between
<1>5. CASE /\ run.at.phase = "work" /\ saved' = saved
           /\ run' = [run EXCEPT !.pc = "visit", !.seen = AcceptedNow, !.visited = 0,
                                 !.progressed = FALSE]
  <2>1. AcceptedNow \subseteq Tasks
    BY PlanTasks, RunIs DEF AcceptedNow, JsonTyped
  <2>2. run' \in RunRecords /\ run'.pc = "visit" /\ run'.at = run.at
    BY <1>1, <1>5, <2>1, RunIs DEF RunRecords, Between
  <2>3. SavedTyped' /\ saved' = saved
    BY <1>5, RunIs DEF SavedTyped
  <2>. QED
    BY <1>1, <1>5, <2>2, <2>3, BetweenMoves, RunIs DEF Between
<1>. QED
  BY <1>2, <1>3, <1>4, <1>5 DEF Top, Ends, Saves

\* The scan stays on the plan.
LEMMA ScanIs ==
  ASSUME JsonInv
  PROVE  /\ Candidate \in TaskSet /\ Candidate \in Tasks
         /\ Advanced \in Positions /\ Advanced.phase = "work"
         /\ AcceptedNow \subseteq Tasks /\ TaskSet \subseteq Tasks
<1>1. run.at.position \in Nat /\ JsonTyped
  BY RunIs
<1>2. /\ Len(plan) \in Nat \ {0} /\ TaskSet \subseteq Tasks
      /\ \A i \in 1..Len(plan) : plan[i] \in TaskSet
  BY <1>1, PlanTasks DEF JsonTyped
<1>3. PICK n \in Nat : n = run.at.position
  BY <1>1
<1>4. PICK m \in Nat \ {0} : m = Len(plan)
  BY <1>2
<1>5. n % m \in 0..(m - 1)
  BY <1>3, <1>4
<1>6. Index \in 0..(Len(plan) - 1)
  BY <1>3, <1>4, <1>5 DEF Index
<1>7. Candidate \in TaskSet
  BY <1>2, <1>6 DEF Candidate
<1>8. (Index + 1) % Len(plan) \in Nat
  BY <1>2, <1>6
<1>9. Advanced \in Positions /\ Advanced.phase = "work"
  BY <1>8 DEF Advanced, Work, Positions
<1>. QED
  BY <1>2, <1>7, <1>9 DEF AcceptedNow

LEMMA SkipMoves ==
  ASSUME JsonInv, Skip
  PROVE  JsonInv'
<1>1. UNCHANGED <<plan, flow, book, job, replaced, saved>> /\ run.pc = "visit"
  BY DEF Skip, documents, beyond, case, At
<1>2. PICK seen \in SUBSET Tasks :
        run' = [run EXCEPT !.visited = @ + 1, !.at = Advanced, !.seen = seen]
  <2>1. run.seen \in SUBSET Tasks
    BY RunIs DEF RunRecords
  <2>2. run' = [run EXCEPT !.visited = @ + 1, !.at = Advanced,
                           !.seen = IF Candidate \in run.seen THEN run.seen ELSE AcceptedNow]
    BY RunIs DEF Skip, RunRecords
  <2>. QED
    BY <2>1, <2>2, ScanIs
<1>3. run' \in RunRecords /\ run'.pc = "visit" /\ run'.at.phase = "work"
  <2>1. PICK at \in Positions : at = Advanced /\ at.phase = "work"
    BY ScanIs
  <2>2. run \in RunRecords /\ run.visited \in Nat
    BY RunIs DEF RunRecords
  <2>3. PICK n \in Nat : n = run.visited + 1
    BY <2>2
  <2>4. run' = [run EXCEPT !.visited = n, !.at = at, !.seen = seen]
    BY <1>2, <2>1, <2>2, <2>3 DEF RunRecords
  <2>5. run' \in RunRecords
    BY <2>1, <2>2, <2>4 DEF RunRecords
  <2>. QED
    BY <1>1, <2>1, <2>2, <2>4 DEF RunRecords
<1>4. saved.now.phase = "work" /\ SavedTyped'
  <2>1. saved.now.phase = "work"
    BY <1>1 DEF JsonInv, SweepHolds
  <2>. QED
    BY <1>1, <2>1, RunIs DEF SavedTyped
<1>. QED
  BY <1>1, <1>3, <1>4, BetweenMoves, RunIs DEF Between

LEMMA TurnMoves ==
  ASSUME JsonInv, Turn
  PROVE  JsonInv'
<1>1. UNCHANGED <<plan, flow, book, job, replaced>> /\ run.pc = "visit"
  BY DEF Turn, documents, beyond, case, At
<1>2. saved.now.phase = "work" /\ run.at.phase = "work"
  BY <1>1, RunIs DEF JsonInv, SweepHolds
<1>3. CASE run' = Off /\ saved' = saved
  BY <1>1, <1>3, EndMoves, RunIs DEF SavedTyped
<1>4. CASE /\ AllAccepted /\ saved' = [now |-> Sweep(0), stale |-> FALSE]
           /\ run' = [run EXCEPT !.pc = "top", !.at = Sweep(0)]
  <2>1. run' \in RunRecords /\ run'.pc = "top" /\ run'.at = Sweep(0)
    BY <1>4, RunIs DEF RunRecords, Between, Sweep, Positions
  <2>2. SavedTyped' /\ saved'.now.phase = run'.at.phase
    BY <1>4, <2>1 DEF SavedTyped, Sweep
  <2>. QED
    BY <1>1, <1>4, <2>1, <2>2, BetweenMoves, RunIs DEF Between
<1>5. CASE /\ saved' = [now |-> run.at, stale |-> FALSE]
           /\ run' = [run EXCEPT !.pc = "top"] \/ run' = Off
  <2>1. SavedTyped' /\ saved'.now.phase = "work"
    BY <1>2, <1>5, RunIs DEF SavedTyped, Positions
  <2>2. CASE run' = Off
    BY <1>1, <2>1, <2>2, EndMoves, RunIs
  <2>3. CASE run' = [run EXCEPT !.pc = "top"]
    <3>1. run' \in RunRecords /\ run'.pc = "top" /\ run'.at = run.at
      BY <2>3, RunIs DEF RunRecords, Between
    <3>. QED
      BY <1>1, <1>2, <2>1, <3>1, BetweenMoves, RunIs DEF Between
  <2>. QED
    BY <1>5, <2>2, <2>3
<1>. QED
  BY <1>3, <1>4, <1>5 DEF Turn, Ends, Saves, Goes

LEMMA TimeIsUpMoves ==
  ASSUME JsonInv, TimeIsUp
  PROVE  JsonInv'
<1>1. UNCHANGED <<plan, flow, book, job, replaced>> /\ run' = Off
  BY DEF TimeIsUp, documents, beyond, case, Ends
<1>2. CASE saved' = saved
  BY <1>1, <1>2, EndMoves, RunIs DEF SavedTyped
<1>3. CASE run.pc = "visit" /\ saved' = [now |-> IF AllAccepted THEN Sweep(0) ELSE run.at, stale |-> FALSE]
  <2>1. run.at.phase = "work"
    BY <1>3 DEF JsonInv, SweepHolds
  <2>2. SavedTyped' /\ (saved'.now.phase = "verify" => AllAccepted)
    BY <1>3, <2>1, RunIs DEF SavedTyped, Sweep, Positions
  <2>. QED
    BY <1>1, <2>2, EndMoves, RunIs
<1>. QED
  BY <1>2, <1>3 DEF TimeIsUp, At, Saves

LEMMA SweepMoves ==
  ASSUME JsonInv, Restamp \/ Restamped \/ SweepTask \/ SweepStale \/ SweepEnds \/ Complete
  PROVE  JsonInv'
<1>1. UNCHANGED <<plan, flow, book, job, replaced>> /\ run.pc \in {"restamp", "sweep", "confirm"}
      /\ run.at.phase = "verify" /\ saved.now.phase = "verify"
  <2>1. UNCHANGED <<plan, flow, book, job, replaced>> /\ run.pc \in {"restamp", "sweep", "confirm"}
    BY DEF Restamp, Restamped, SweepTask, SweepStale, SweepEnds, Complete, documents, beyond,
           case, At
  <2>. QED
    BY <2>1, RunIs DEF JsonInv, SweepHolds
<1>2. ASSUME run' = Off, saved' = saved PROVE JsonInv'
  BY <1>1, <1>2, EndMoves, RunIs DEF SavedTyped
<1>3. CASE SweepTask
  <2>0. run.pc = "sweep"
    BY <1>3 DEF SweepTask, At
  <2>1. CASE run' = [run EXCEPT !.at.position = @ + 1] /\ saved' = saved
    <3>1. PICK n \in Nat : n = run.at.position + 1
      BY RunIs
    <3>2. PICK at : at = [run.at EXCEPT !.position = n]
      OBVIOUS
    <3>3. at \in Positions /\ at.phase = "verify"
      BY <1>1, <3>1, <3>2, RunIs DEF Positions
    <3>4. run' = [run EXCEPT !.at = at]
      BY <2>1, <3>1, <3>2, RunIs DEF RunRecords, Positions
    <3>5. run' \in RunRecords /\ run'.pc = run.pc /\ run'.at = at
      BY <3>3, <3>4, RunIs DEF RunRecords
    <3>. QED
      BY <1>1, <2>0, <2>1, <3>3, <3>5, BetweenMoves, RunIs DEF Between, SavedTyped
  <2>. QED
    BY <1>2, <1>3, <2>1 DEF SweepTask, Ends
<1>4. CASE SweepStale
  <2>1. saved' = [now |-> Work(0), stale |-> FALSE] /\ run' = [run EXCEPT !.pc = "top", !.at = Work(0)]
    BY <1>4 DEF SweepStale, Saves
  <2>2. run' \in RunRecords /\ run'.pc = "top" /\ run'.at = Work(0) /\ Work(0).phase = "work"
    BY <2>1, RunIs DEF RunRecords, Between, Work, Positions
  <2>3. SavedTyped' /\ saved'.now.phase = "work"
    BY <2>1 DEF SavedTyped, Work
  <2>. QED
    BY <1>1, <2>2, <2>3, BetweenMoves, RunIs DEF Between
<1>5. CASE SweepEnds
  <2>1. saved' = [now |-> run.at, stale |-> FALSE] /\ AllAccepted
        /\ \/ run' = Off
           \/ run' = [run EXCEPT !.pc = "confirm", !.stamped = 0,
                                 !.asof = [accepted |-> AcceptedNow, replaced |-> replaced]]
    BY <1>1, <1>5, RunIs DEF SweepEnds, Saves, Goes, Ends, Stale
  <2>2. SavedTyped' /\ saved'.now.phase = "verify"
    BY <1>1, <2>1, RunIs DEF SavedTyped, Positions
  <2>3. CASE run' = Off
    BY <1>1, <2>1, <2>2, <2>3, EndMoves, RunIs
  <2>4. CASE run' = [run EXCEPT !.pc = "confirm", !.stamped = 0,
                                !.asof = [accepted |-> AcceptedNow, replaced |-> replaced]]
    <3>1. PICK asof : asof = [accepted |-> AcceptedNow, replaced |-> replaced]
      OBVIOUS
    <3>2. asof.accepted = TaskSet /\ asof.replaced = replaced
          /\ asof \in [accepted: SUBSET Tasks, replaced: SUBSET Tasks]
      BY <2>1, <3>1, PlanTasks, RunIs DEF AcceptedNow, AllAccepted, JsonTyped
    <3>3. run' = [run EXCEPT !.pc = "confirm", !.stamped = 0, !.asof = asof]
      BY <2>4, <3>1
    <3>4. run' \in RunRecords /\ run'.pc = "confirm" /\ run'.at = run.at /\ run'.stamped = 0
          /\ run'.asof = asof
      BY <3>2, <3>3, RunIs DEF RunRecords, Between
    <3>5. Confirmed'
      BY <1>1, <3>2, <3>4 DEF Confirmed, TaskSet
    <3>. QED
      BY <1>1, <2>1, <2>2, <3>4, <3>5, BetweenMoves, RunIs DEF Between
  <2>. QED
    BY <2>1, <2>3, <2>4
<1>6. CASE Complete
  <2>1. run' = Off
        /\ saved' = [now |-> [phase |-> "complete", position |-> 0], stale |-> saved.stale]
    BY <1>6 DEF Complete, Ends, Saves
  <2>2. SavedTyped' /\ saved'.now.phase = "complete"
    BY <2>1, RunIs DEF SavedTyped
  <2>. QED
    BY <1>1, <2>1, <2>2, EndMoves, RunIs
<1>7. CASE Restamped
  <2>1. run' = [run EXCEPT !.pc = "sweep"] /\ saved' = saved
    BY <1>7 DEF Restamped, Goes
  <2>2. run' \in RunRecords /\ run'.pc = "sweep" /\ run'.at = run.at
    BY <2>1, RunIs DEF RunRecords, Between
  <2>. QED
    BY <1>1, <2>1, <2>2, BetweenMoves, RunIs DEF Between, SavedTyped
<1>8. CASE Restamp
  <2>1. PICK n \in Nat : n = run.stamped
    BY RunIs DEF RunRecords
  <2>2. PICK back \in Positions : back = Sweep(n) /\ back.phase = "verify"
    <3>1. Sweep(n) \in Positions /\ Sweep(n).phase = "verify"
      BY DEF Sweep, Positions
    <3>. QED
      BY <3>1
  <2>3. CASE ~HasChanged(n + 1) /\ run' = [run EXCEPT !.stamped = n + 1] /\ saved' = saved
    <3>1. run' \in RunRecords /\ run'.pc = run.pc /\ run'.at = run.at /\ run'.stamped = n + 1
          /\ run'.asof = run.asof
      BY <2>3, RunIs DEF RunRecords
    <3>2. ASSUME run.pc = "confirm" PROVE Confirmed'
      <4>1. Confirmed
        BY <3>2 DEF JsonInv, SweepHolds
      <4>2. \A i \in 1..(n + 1) : i \in 1..n \/ i = n + 1
        OBVIOUS
      <4>. QED
        BY <1>1, <2>1, <2>3, <3>1, <4>1, <4>2 DEF Confirmed, HasChanged, TaskSet
    <3>. QED
      BY <1>1, <2>3, <3>1, <3>2, BetweenMoves, RunIs DEF Between, SavedTyped
  <2>4. CASE /\ saved' = [now |-> back, stale |-> saved.stale]
             /\ run' = Off \/ run' = [run EXCEPT !.pc = "sweep", !.at = back]
    <3>1. SavedTyped' /\ saved'.now = back
          /\ (saved'.now.phase = "verify" /\ ~saved'.stale => AllAccepted)
      BY <1>1, <2>2, <2>4, RunIs DEF SavedTyped, Positions
    <3>2. CASE run' = Off
      BY <1>1, <3>1, <3>2, EndMoves, RunIs
    <3>3. CASE run' = [run EXCEPT !.pc = "sweep", !.at = back]
      <4>1. run' \in RunRecords /\ run'.pc = "sweep" /\ run'.at = back
        BY <3>3, RunIs DEF RunRecords, Between
      <4>. QED
        BY <1>1, <2>2, <3>1, <4>1, BetweenMoves, RunIs DEF Between
    <3>. QED
      BY <2>4, <3>2, <3>3
  <2>. QED
    BY <1>8, <2>1, <2>2, <2>3, <2>4 DEF Restamp, Saves, Ends
<1>. QED
  BY <1>3, <1>4, <1>5, <1>6, <1>7, <1>8

\* The batch dies or is refused, the time is over, or a file is replaced.
LEMMA MishapMoves ==
  ASSUME JsonInv, Refused \/ Dies \/ AuthorizationExpires \/ \E t \in TaskSet : Replace(t)
  PROVE  JsonInv'
<1>1. UNCHANGED <<plan, flow, book, job, saved>>
  BY DEF Refused, Dies, AuthorizationExpires, Replace, documents, beyond, case
<1>2. SavedTyped' /\ replaced' \subseteq TaskSet
  BY <1>1, RunIs DEF SavedTyped, Refused, Dies, AuthorizationExpires, Replace, documents, beyond, case
<1>3. CASE run' = Off
  BY <1>1, <1>2, <1>3, EndMoves, RunIs
<1>4. CASE run' = run
  <2>1. RunHolds' /\ SweepHolds'
    <3>1. plan' = plan /\ replaced \subseteq replaced'
      BY DEF Refused, Dies, AuthorizationExpires, Replace, beyond, case
    <3>2. RunHolds'
      BY <1>1, <1>4 DEF JsonInv, RunHolds, IsLive, Held, Request, TaskSet
    <3>3. Confirmed => Confirmed'
      BY <1>4, <3>1 DEF Confirmed, TaskSet
    <3>. QED
      BY <1>1, <1>4, <3>2, <3>3 DEF JsonInv, SweepHolds, TaskSet, AllAccepted
  <2>. QED
    BY <1>1, <1>2, <1>4, <2>1, Quiet, RunIs
<1>. QED
  BY <1>3, <1>4 DEF Refused, Dies, AuthorizationExpires, Replace, Ends

LEMMA TakeUpMoves ==
  ASSUME JsonInv, TakeUp
  PROVE  JsonInv'
<1>. DEFINE t == Candidate
            prior == Current(t)
            held == flow.tasks[t].tries > 0 /\ prior \in Held
            round == book.rounds[ShotOf[t]]
            again == Fresh(t) /\ t \in Generated /\ held /\ book.slot[prior] = round
            waits == again /\ LiveSiblings(t) # {}
            taken == IF t \notin Generated THEN 0
                     ELSE IF ~Fresh(t) /\ held THEN book.slot[prior] ELSE round
<1>1. UNCHANGED <<plan, flow, book, job, replaced>> /\ run.pc = "visit"
  BY DEF TakeUp, documents, beyond, case, At
<1>2. t \in TaskSet /\ t \in Tasks
  BY ScanIs
<1>3. run.at.phase = "work" /\ saved.now.phase = "work"
  BY <1>1, RunIs DEF JsonInv, SweepHolds
<1>4. PICK n \in Nat : n = run.visited + 1
  <2>1. run.visited \in Nat
    BY RunIs DEF RunRecords
  <2>. QED
    BY <2>1
<1>5. CASE run' = Off /\ saved' = saved
  BY <1>1, <1>5, EndMoves, RunIs DEF SavedTyped
<1>6. CASE /\ run' = [run EXCEPT !.visited = @ + 1, !.seen = AcceptedNow, !.at = Advanced]
           /\ saved' = [now |-> Advanced, stale |-> FALSE]
  <2>1. PICK at \in Positions : at = Advanced /\ at.phase = "work"
    BY ScanIs
  <2>2. PICK seen \in SUBSET Tasks : seen = AcceptedNow
    BY ScanIs
  <2>3. run' = [run EXCEPT !.visited = n, !.seen = seen, !.at = at] /\ run \in RunRecords
    BY <1>4, <1>6, <2>1, <2>2, RunIs DEF RunRecords
  <2>4. run' \in RunRecords
    BY <2>3 DEF RunRecords
  <2>5. run'.pc = "visit" /\ run'.at = at
    BY <1>1, <2>3 DEF RunRecords
  <2>6. SavedTyped' /\ saved'.now = at
    BY <1>6, <2>1 DEF SavedTyped, Positions
  <2>. QED
    BY <1>1, <2>1, <2>4, <2>5, <2>6, BetweenMoves, RunIs DEF Between
<1>7. CASE /\ ~waits /\ saved' = saved
           /\ run' = [run EXCEPT
                !.pc = IF again THEN "round" ELSE IF Fresh(t) THEN "claim" ELSE "forecast",
                !.task = t, !.visited = @ + 1,
                !.epoch = IF Fresh(t) THEN 0 ELSE flow.tasks[t].last,
                !.submits = Submits(t),
                !.round = taken]
  <2>1. /\ flow.tasks[t].last \in Nat /\ flow.tasks[t].tries \in Nat /\ TaskHolds(t)
    BY <1>2, RowIs, RunIs DEF JsonInv
  <2>2. taken \in Nat
    <3>1. ShotOf[t] \in Shots
      BY <1>2 DEF Shots
    <3>2. \A r \in Held : book.slot[r] \in Nat
      BY DEF Held, JsonInv, JsonTyped, BookTyped
    <3>3. round \in Nat
      BY <3>1 DEF JsonInv, JsonTyped, BookTyped
    <3>. QED
      BY <3>2, <3>3
  <2>3. PICK pc \in {"round", "claim", "forecast"}, epoch \in Nat, submits \in BOOLEAN, rnd \in Nat :
          /\ pc = IF again THEN "round" ELSE IF Fresh(t) THEN "claim" ELSE "forecast"
          /\ epoch = IF Fresh(t) THEN 0 ELSE flow.tasks[t].last
          /\ submits = Submits(t) /\ rnd = taken
    <3>1. Submits(t) \in BOOLEAN
      BY DEF Submits, Fresh
    <3>. HIDE DEF taken, t, again
    <3>. QED
      BY <2>1, <2>2, <3>1
  <2>4. PICK task \in Tasks : task = t
    BY <1>2
  <2>5. run' = [run EXCEPT !.pc = pc, !.task = task, !.visited = n, !.epoch = epoch,
                           !.submits = submits, !.round = rnd]
    <3>. HIDE DEF taken, again
    <3>. QED
      BY <1>4, <1>7, <2>3, <2>4, RunIs DEF RunRecords
  <2>6. run \in RunRecords
    BY RunIs
  <2>. HIDE DEF taken
  <2>7. run' \in RunRecords
    BY <2>5, <2>6 DEF RunRecords, Busy
  <2>8. run'.pc = pc /\ run'.task = task /\ run'.epoch = epoch /\ run'.submits = submits
        /\ run'.at = run.at
    BY <2>5, <2>6 DEF RunRecords
  <2>9. pc = "round" => \A u \in Tasks : ShotOf[u] = ShotOf[t] => ~IsLive(u)
    <3>. SUFFICES ASSUME pc = "round", NEW u \in Tasks, ShotOf[u] = ShotOf[t], IsLive(u)
                  PROVE  FALSE
      OBVIOUS
    <3>1. again
      BY <2>3
    <3>2. Fresh(t) /\ LiveSiblings(t) = {}
      BY <1>7, <3>1
    <3>3. u \in TaskSet /\ ~Fresh(u)
      BY DEF JsonInv, TaskHolds
    <3>4. u # t
      BY <3>2, <3>3
    <3>. QED
      BY <3>2, <3>3, <3>4 DEF LiveSiblings
  <2>10. pc = "forecast" => /\ epoch = flow.tasks[t].last /\ epoch >= 1
                            /\ submits => flow.tasks[t].status = "reserved"
    <3>. SUFFICES ASSUME pc = "forecast"
                  PROVE  /\ epoch = flow.tasks[t].last /\ epoch >= 1
                         /\ submits => flow.tasks[t].status = "reserved"
      OBVIOUS
    <3>1. ~Fresh(t)
      BY <2>3
    <3>2. flow.tasks[t].tries > 0
      BY <2>1, <3>1 DEF Fresh
    <3>3. epoch = flow.tasks[t].last /\ submits = Submits(t)
      BY <2>3, <3>1
    <3>4. epoch >= 1
      BY <2>1, <3>2, <3>3 DEF TaskHolds
    <3>5. submits => flow.tasks[t].status = "reserved"
      BY <3>1, <3>3 DEF Submits
    <3>. QED
      BY <3>3, <3>4, <3>5
  <2>11. RunHolds'
    <3>1. run'.pc \notin Paid /\ run'.pc \notin Reporting /\ run'.pc \notin {"reserve", "submitted", "submit"}
      BY <2>3, <2>8 DEF Paid, Reporting
    <3>2. (run.pc = "round" => \A u \in Tasks : ShotOf[u] = ShotOf[run.task] => ~IsLive(u))'
      BY <1>1, <2>4, <2>8, <2>9 DEF IsLive
    <3>3. run'.task \in TaskSet'
      BY <1>1, <1>2, <2>4, <2>8 DEF TaskSet
    <3>. HIDE DEF t
    <3>. QED
      BY <1>1, <2>4, <2>8, <2>10, <3>1, <3>2, <3>3 DEF RunHolds
  <2>12. SweepHolds'
    <3>1. run'.pc \notin {"restamp", "sweep", "confirm", "off"}
      BY <2>3, <2>8
    <3>. QED
      BY <1>1, <1>3, <1>7, <2>8, <3>1 DEF SweepHolds
  <2>13. SavedTyped' /\ replaced' \subseteq TaskSet
    BY <1>1, <1>7, RunIs DEF SavedTyped
  <2>. QED
    BY <1>1, <2>7, <2>11, <2>12, <2>13, Quiet
<1>. QED
  BY <1>5, <1>6, <1>7 DEF TakeUp, Ends, Saves

----------------------------------------------------------------------------
(* Steps of the batch with a task.                                         *)

\* A step with a task leaves the batch with it, in the scan, or ended; the sweep has not begun.
LEMMA BusyMoves ==
  ASSUME JsonInv, plan' = plan, FlowTyped', BookTyped', SavedTyped',
         job' \in [Requests -> [state: JobStates, sent: Nat]], replaced' \subseteq TaskSet,
         (\A t \in Tasks : TaskHolds(t))', LedgerHolds', RequestsInStep',
         run' \in RunRecords, RunHolds',
         saved'.now.phase = "work",
         run'.pc = "off" \/ (run'.pc \in Busy \cup {"visit"} /\ run'.at.phase = "work")
  PROVE  JsonInv'
<1>1. JsonTyped'
  BY DEF JsonInv, JsonTyped, TaskSet
<1>2. SweepHolds'
  BY DEF SweepHolds, Busy, Paid, Reporting
<1>. QED
  BY <1>1, <1>2 DEF JsonInv

\* What is known while the batch has a task.
LEMMA BusyIs ==
  ASSUME JsonInv, run.pc \in Busy
  PROVE  /\ run.task \in TaskSet /\ run.task \in Tasks /\ run.epoch \in Nat /\ run.round \in Nat
         /\ run.submits \in BOOLEAN /\ run.bill \in Int
         /\ run.at.phase = "work" /\ saved.now.phase = "work" /\ TaskHolds(run.task)
         /\ run.pc \in Paid => Request \in Requests /\ book.held[Request] # "none"
<1>1. run \in RunRecords /\ JsonTyped
  BY RunIs
<1>2. run.task \in Tasks /\ run.epoch \in Nat /\ run.round \in Nat /\ run.submits \in BOOLEAN
      /\ run.bill \in Int
  BY <1>1 DEF RunRecords
<1>3. run.task \in TaskSet /\ (run.pc \in Paid => Request \in Held)
  BY DEF JsonInv, RunHolds
<1>4. run.at.phase = "work" /\ saved.now.phase = "work"
  BY DEF JsonInv, SweepHolds, Busy, Paid, Reporting
<1>. QED
  BY <1>2, <1>3, <1>4 DEF JsonInv, Held

\* The batch goes on with its task.
LEMMA Going ==
  ASSUME JsonInv, NEW pc \in Busy, run' = [run EXCEPT !.pc = pc]
  PROVE  /\ run' \in RunRecords /\ run'.pc = pc /\ run'.at = run.at /\ run'.task = run.task
         /\ run'.epoch = run.epoch /\ run'.round = run.round /\ run'.submits = run.submits
         /\ run'.bill = run.bill /\ Request' = Request
<1>1. run \in RunRecords
  BY RunIs
<1>2. run' \in RunRecords
  BY <1>1 DEF RunRecords
<1>3. /\ run'.pc = pc /\ run'.at = run.at /\ run'.task = run.task
      /\ run'.epoch = run.epoch /\ run'.round = run.round /\ run'.submits = run.submits
      /\ run'.bill = run.bill
  BY <1>1 DEF RunRecords
<1>. QED
  BY <1>2, <1>3 DEF Request

\* Past the call of the provider, all that counts is the money and the bill.
LEMMA PaidHolds ==
  ASSUME run'.pc \in Paid \ {"submitted", "submit"}, run'.task \in TaskSet', Request' \in Held',
         run'.pc \in Reporting => run'.bill \in {NoBill} \cup Bills[run'.task]
  PROVE  RunHolds'
BY DEF RunHolds, Paid, Reporting

\* A step that leaves the workflow alone leaves its rows in order.
LEMMA SameRows ==
  ASSUME JsonInv, UNCHANGED <<plan, flow>>
  PROVE  /\ FlowTyped' /\ (\A t \in Tasks : TaskHolds(t))'
         /\ \A t : IsLive(t)' <=> IsLive(t)
         /\ \A t : Current(t)' = Current(t)
BY DEF JsonInv, JsonTyped, FlowTyped, TaskHolds, IsLive, Fresh, Current, TaskSet

LEMMA Allows ==
  /\ DOMAIN Allowed = Live
  /\ \A status \in Live : Allowed[status] \subseteq Statuses \ {"reserved", "none"}
<1>1. DOMAIN Allowed = {"reserved", "submitted", "running", "unknown", "produced", "verified"}
  BY DEF Allowed
<1>2. /\ Allowed["reserved"] = {"submitted", "unknown", "failed"}
      /\ Allowed["submitted"] = {"running", "produced", "unknown", "failed", "cancelled"}
      /\ Allowed["running"] = {"produced", "unknown", "failed", "cancelled"}
      /\ Allowed["unknown"] = {"submitted", "running", "produced", "failed", "cancelled"}
      /\ Allowed["produced"] = {"verified", "rejected"}
      /\ Allowed["verified"] = {"machine_accepted", "rejected"}
  BY DEF Allowed
<1>. QED
  BY <1>1, <1>2 DEF Live, Statuses, Final

\* A checkpoint of an open request keeps the rows and the ledger in step.
LEMMA RecordKeeps ==
  ASSUME JsonInv, NEW t \in Tasks, NEW epoch \in Nat, NEW status,
         Recordable(t, epoch, status), flow' = Recorded(t, status), UNCHANGED <<plan, book, job>>
  PROVE  /\ FlowTyped' /\ (\A u \in Tasks : TaskHolds(u))' /\ LedgerHolds' /\ RequestsInStep'
         /\ flow'.tasks[t].status = status /\ flow'.tasks[t].last = flow.tasks[t].last
         /\ flow.tasks[t].last = epoch
<1>1. flow.tasks[t] \in TaskRecords /\ flow.tasks[t].accepted \in BOOLEAN
  BY RowIs, RunIs
<1>2. IsLive(t) /\ status \in Statuses \ {"reserved", "none"}
      /\ flow.tasks[t].epoch = epoch /\ flow.tasks[t].last = epoch
  BY Allows DEF Recordable, IsLive
<1>3. PICK row : row = [flow.tasks[t] EXCEPT !.status = status,
                          !.accepted = flow.tasks[t].accepted \/ status = "machine_accepted"]
  OBVIOUS
<1>4. /\ row \in TaskRecords /\ row.status = status /\ row.last = flow.tasks[t].last
      /\ row.epoch = flow.tasks[t].epoch /\ row.tries = flow.tasks[t].tries
      /\ row.invalidated = flow.tasks[t].invalidated
  BY <1>1, <1>2, <1>3 DEF TaskRecords
<1>5. FlowTyped
  BY RunIs DEF JsonTyped
<1>6. flow' = [flow EXCEPT !.tasks[t] = row]
  BY <1>3 DEF Recorded
<1>7. /\ DOMAIN flow' = {"paused", "tasks"} /\ flow'.tasks = [flow.tasks EXCEPT ![t] = row]
  BY <1>5, <1>6 DEF FlowTyped
<1>8. /\ flow'.tasks[t] = row /\ \A u \in Tasks : u # t => flow'.tasks[u] = flow.tasks[u]
      /\ flow'.tasks \in [Tasks -> TaskRecords]
  BY <1>4, <1>5, <1>7 DEF FlowTyped
<1>9. FlowTyped'
  BY <1>7, <1>8 DEF FlowTyped
<1>10. ASSUME NEW u \in Tasks
       PROVE  TaskHolds(u)' /\ (IsLive(u)' => IsLive(u)) /\ Current(u)' = Current(u)
  <2>1. CASE u # t
    BY <1>8, <2>1 DEF JsonInv, TaskHolds, IsLive, Fresh, Current, TaskSet
  <2>2. CASE u = t
    <3>1. TaskHolds(t) /\ ~Fresh(t) /\ t \in TaskSet
      BY <1>2 DEF JsonInv, TaskHolds
    <3>2. status \in Live => status \notin Final
      BY DEF Live, Final
    <3>3. Current(u)' = Current(u)
      BY <1>4, <1>8, <2>2 DEF Current
    <3>. QED
      BY <1>2, <1>4, <1>8, <2>2, <3>1, <3>2, <3>3 DEF TaskHolds, IsLive, Fresh, TaskSet
  <2>. QED
    BY <2>1, <2>2
<1>11. LedgerHolds'
  <2>1. \A u \in Tasks : flow'.tasks[u].last = flow.tasks[u].last
    BY <1>4, <1>8
  <2>2. \A u \in Tasks : flow'.tasks[u].status = "reserved" => flow.tasks[u].status = "reserved"
    BY <1>2, <1>4, <1>8
  <2>3. \A r \in Requests : r[1] \in Tasks
    BY DEF Requests
  <2>. QED
    BY <1>10, <2>1, <2>2, <2>3 DEF JsonInv, LedgerHolds
<1>12. RequestsInStep'
  <2>1. SentOnceAndHeld'
    BY DEF JsonInv, RequestsInStep, SentOnceAndHeld
  <2>2. RoundIsDrained'
    <3>1. Generated \subseteq Tasks
      BY JsonPlanAssumption
    <3>2. Held' = Held
      BY DEF Held
    <3>. QED
      BY <1>10, <3>1, <3>2 DEF JsonInv, RequestsInStep, RoundIsDrained
  <2>. QED
    BY <2>1, <2>2 DEF RequestsInStep
<1>. QED
  BY <1>2, <1>4, <1>8, <1>9, <1>10, <1>11, <1>12

\* The fields of the batch that is about to leave a task.
LEMMA Leaving ==
  ASSUME JsonInv, NEW more \in BOOLEAN, Leaves(more)
  PROVE  /\ run' \in RunRecords /\ run'.pc = "visit" /\ run'.at.phase = "work" /\ RunHolds'
         /\ SavedTyped' /\ saved'.now.phase = "work"
<1>1. PICK at \in Positions : at = Advanced /\ at.phase = "work"
  BY ScanIs
<1>2. PICK seen \in SUBSET Tasks : seen = AcceptedNow
  BY ScanIs
<1>3. run \in RunRecords /\ run.progressed \in BOOLEAN
  BY RunIs DEF RunRecords
<1>4. PICK moved \in BOOLEAN : moved = (run.progressed \/ more)
  BY <1>3
<1>5. run' = [run EXCEPT !.pc = "visit", !.seen = seen, !.at = at, !.progressed = moved]
  BY <1>1, <1>2, <1>3, <1>4 DEF Leaves, RunRecords
<1>6. run' \in RunRecords
  BY <1>3, <1>5 DEF RunRecords, Between
<1>7. run'.pc = "visit" /\ run'.at = at
  BY <1>3, <1>5 DEF RunRecords
<1>8. RunHolds'
  BY <1>7, BetweenHolds DEF Between
<1>9. SavedTyped' /\ saved'.now = at
  BY <1>1 DEF Leaves, Saves, SavedTyped, Positions
<1>. QED
  BY <1>1, <1>6, <1>7, <1>8, <1>9

\* What is held stays held, and new money goes to a claimed request in the
\* round the ledger is in.
LEMMA BookKeeps ==
  ASSUME JsonInv, UNCHANGED <<plan, flow, job>>, BookTyped', book'.rounds = book.rounds,
         \A r \in Requests :
           \/ (book'.held[r] = "none" <=> book.held[r] = "none") /\ book'.slot[r] = book.slot[r]
           \/ /\ book'.held[r] # "none" /\ r[2] <= flow.tasks[r[1]].last
              /\ r[1] \in Generated => book'.slot[r] = book.rounds[ShotOf[r[1]]]
  PROVE  /\ FlowTyped' /\ (\A t \in Tasks : TaskHolds(t))' /\ LedgerHolds' /\ RequestsInStep'
         /\ Held \subseteq Held'
<1>1. FlowTyped' /\ (\A t \in Tasks : TaskHolds(t))' /\ (\A t : Current(t)' = Current(t))
      /\ (\A t : IsLive(t)' <=> IsLive(t))
  BY SameRows
<1>2. LedgerHolds'
  BY <1>1 DEF JsonInv, LedgerHolds
<1>3. Held \subseteq Held'
  BY DEF Held
<1>4. SentOnceAndHeld'
  BY DEF JsonInv, RequestsInStep, SentOnceAndHeld
<1>5. RoundIsDrained'
  <2>1. SUFFICES ASSUME NEW t \in Generated, IsLive(t), Current(t) \in Requests,
                        book'.held[Current(t)] # "none"
                 PROVE  book'.slot[Current(t)] = book.rounds[ShotOf[t]]
    BY <1>1 DEF RoundIsDrained, Held
  <2>2. Current(t)[1] = t
    BY DEF Current
  <2>3. book.held[Current(t)] # "none" => book.slot[Current(t)] = book.rounds[ShotOf[t]]
    BY <2>1 DEF JsonInv, RequestsInStep, RoundIsDrained, Held
  <2>. QED
    BY <2>1, <2>2, <2>3
<1>. QED
  BY <1>1, <1>2, <1>3, <1>4, <1>5 DEF RequestsInStep

\* A new estimate touches nothing else of the ledger.
LEMMA RefreshedIs ==
  ASSUME NEW b, DOMAIN b = {"held", "billed", "slot", "rounds", "forecast"}
  PROVE  /\ DOMAIN Refreshed(b) = DOMAIN b /\ Refreshed(b).held = b.held
         /\ Refreshed(b).billed = b.billed /\ Refreshed(b).slot = b.slot
         /\ Refreshed(b).rounds = b.rounds
BY DEF Refreshed

LEMMA ForecastIs ==
  ASSUME JsonTyped, NEW remaining
  PROVE  /\ DOMAIN Forecast(remaining) = DOMAIN book /\ Forecast(remaining).held = book.held
         /\ Forecast(remaining).billed = book.billed /\ Forecast(remaining).slot = book.slot
         /\ Forecast(remaining).rounds = book.rounds
BY DEF Forecast, JsonTyped, BookTyped

LEMMA ReservedIs ==
  ASSUME JsonTyped, NEW r \in Requests, NEW round
  PROVE  /\ DOMAIN Reserved(r, round) = DOMAIN book
         /\ Reserved(r, round).held = [book.held EXCEPT ![r] = "reserved"]
         /\ Reserved(r, round).slot = [book.slot EXCEPT ![r] = round]
         /\ Reserved(r, round).billed = book.billed /\ Reserved(r, round).rounds = book.rounds
<1>1. DOMAIN book = {"held", "billed", "slot", "rounds", "forecast"}
  BY DEF JsonTyped, BookTyped
<1>2. PICK b : b = [book EXCEPT !.held[r] = "reserved", !.slot[r] = round,
                         !.forecast.remaining = Max({0, @ - Worst[r[1]]})]
  OBVIOUS
<1>3. /\ DOMAIN b = DOMAIN book /\ b.held = [book.held EXCEPT ![r] = "reserved"]
      /\ b.slot = [book.slot EXCEPT ![r] = round] /\ b.billed = book.billed
      /\ b.rounds = book.rounds
  BY <1>1, <1>2
<1>4. Reserved(r, round) = Refreshed(b)
  BY <1>2 DEF Reserved
<1>. QED
  BY <1>1, <1>3, <1>4, RefreshedIs

LEMMA ReconciledIs ==
  ASSUME JsonTyped, NEW r \in Requests, NEW bill
  PROVE  /\ DOMAIN Reconciled(r, bill) = DOMAIN book
         /\ Reconciled(r, bill).slot = book.slot /\ Reconciled(r, bill).rounds = book.rounds
         /\ Reconciled(r, bill).held =
              IF bill # NoBill THEN [book.held EXCEPT ![r] = "settled"]
              ELSE IF book.held[r] = "settled" THEN book.held
              ELSE [book.held EXCEPT ![r] = "unknown"]
         /\ Reconciled(r, bill).billed =
              IF bill # NoBill THEN [book.billed EXCEPT ![r] = bill] ELSE book.billed
<1>1. DOMAIN book = {"held", "billed", "slot", "rounds", "forecast"}
  BY DEF JsonTyped, BookTyped
<1>2. PICK b : b = IF bill # NoBill THEN [book EXCEPT !.held[r] = "settled", !.billed[r] = bill]
                   ELSE IF book.held[r] = "settled" THEN book
                   ELSE [book EXCEPT !.held[r] = "unknown"]
  OBVIOUS
<1>3. /\ DOMAIN b = DOMAIN book /\ b.slot = book.slot /\ b.rounds = book.rounds
      /\ b.held = IF bill # NoBill THEN [book.held EXCEPT ![r] = "settled"]
                  ELSE IF book.held[r] = "settled" THEN book.held
                  ELSE [book.held EXCEPT ![r] = "unknown"]
      /\ b.billed = IF bill # NoBill THEN [book.billed EXCEPT ![r] = bill] ELSE book.billed
  BY <1>1, <1>2
<1>4. Reconciled(r, bill) = Refreshed(b)
  BY <1>2 DEF Reconciled
<1>. QED
  BY <1>1, <1>3, <1>4, RefreshedIs

\* A settlement or a doubt about a held request keeps the ledger in step.
LEMMA ReconciledKeeps ==
  ASSUME JsonInv, NEW r \in Requests, book.held[r] # "none", NEW bill,
         bill = NoBill \/ bill \in Nat,
         book' = Reconciled(r, bill), UNCHANGED <<plan, flow, job>>
  PROVE  /\ BookTyped' /\ FlowTyped' /\ (\A t \in Tasks : TaskHolds(t))'
         /\ LedgerHolds' /\ RequestsInStep' /\ Held \subseteq Held'
<1>1. JsonTyped /\ BookTyped
  BY DEF JsonInv, JsonTyped
<1>2. PICK b : b = Reconciled(r, bill)
  OBVIOUS
<1>3. /\ DOMAIN b = DOMAIN book
      /\ b.slot = book.slot /\ b.rounds = book.rounds
      /\ b.held = IF bill # NoBill THEN [book.held EXCEPT ![r] = "settled"]
                  ELSE IF book.held[r] = "settled" THEN book.held
                  ELSE [book.held EXCEPT ![r] = "unknown"]
      /\ b.billed = IF bill # NoBill THEN [book.billed EXCEPT ![r] = bill] ELSE book.billed
  BY <1>1, <1>2, ReconciledIs
<1>4. b.held \in [Requests -> Holdings] /\ b.billed \in [Requests -> Nat]
      /\ \A q \in Requests : b.held[q] = "none" <=> book.held[q] = "none"
  BY <1>1, <1>3 DEF BookTyped, Holdings
<1>5. BookTyped'
  BY <1>1, <1>2, <1>3, <1>4 DEF BookTyped
<1>. QED
  BY <1>2, <1>3, <1>4, <1>5, BookKeeps

LEMMA AdvanceRoundMoves ==
  ASSUME JsonInv, AdvanceRound
  PROVE  JsonInv'
<1>1. run.pc = "round" /\ run.pc \in Busy /\ UNCHANGED <<plan, flow, saved, job, replaced>>
  BY DEF AdvanceRound, Writing, At, Busy, beyond, case
<1>2. /\ FlowTyped' /\ (\A t \in Tasks : TaskHolds(t))' /\ SavedTyped' /\ saved'.now.phase = "work"
      /\ job' \in [Requests -> [state: JobStates, sent: Nat]] /\ replaced' \subseteq TaskSet
  BY <1>1, SameRows, BusyIs, RunIs DEF SavedTyped, JsonTyped
<1>3. CASE run' = Off /\ book' = book
  <2>1. BookTyped' /\ LedgerHolds' /\ RequestsInStep'
    BY <1>1, <1>3, SameRows
    DEF JsonInv, JsonTyped, BookTyped, LedgerHolds, RequestsInStep, SentOnceAndHeld,
        RoundIsDrained, Held
  <2>. QED
    BY <1>1, <1>2, <1>3, <2>1, Ending, BusyMoves, RunIs
<1>4. CASE /\ book' = [book EXCEPT !.rounds[ShotOf[run.task]] = @ + 1]
           /\ run' = [run EXCEPT !.pc = "claim", !.round = @ + 1]
  <2>1. ShotOf[run.task] \in Shots
    BY <1>1, BusyIs DEF Shots
  <2>2. PICK s \in Shots : s = ShotOf[run.task]
    BY <2>1
  <2>3. BookTyped
    BY RunIs DEF JsonTyped
  <2>4. /\ DOMAIN book' = DOMAIN book /\ book'.held = book.held /\ book'.billed = book.billed
        /\ book'.slot = book.slot /\ book'.rounds = [book.rounds EXCEPT ![s] = book.rounds[s] + 1]
    BY <1>4, <2>2, <2>3 DEF BookTyped
  <2>5. BookTyped' /\ Held' = Held
    <3>1. book.rounds[s] + 1 \in Nat
      BY <2>3 DEF BookTyped
    <3>. QED
      BY <2>3, <2>4, <3>1 DEF BookTyped, Held
  <2>6. LedgerHolds' /\ SentOnceAndHeld'
    BY <1>1, <2>4, SameRows DEF JsonInv, LedgerHolds, RequestsInStep, SentOnceAndHeld
  <2>7. RoundIsDrained'
    <3>1. SUFFICES ASSUME NEW t \in Generated, IsLive(t), Current(t) \in Held
                   PROVE  book.slot[Current(t)] = book'.rounds[ShotOf[t]]
      BY <1>1, <2>4, <2>5, SameRows DEF RoundIsDrained
    <3>2. t \in Tasks
      BY JsonPlanAssumption
    <3>3. ShotOf[t] # s /\ ShotOf[t] \in Shots
      BY <1>1, <2>2, <3>1, <3>2 DEF JsonInv, RunHolds, Shots
    <3>4. book'.rounds[ShotOf[t]] = book.rounds[ShotOf[t]]
      BY <2>3, <2>4, <3>3 DEF BookTyped
    <3>. QED
      BY <3>1, <3>4 DEF JsonInv, RequestsInStep, RoundIsDrained
  <2>8. PICK n \in Nat : n = run.round + 1
    BY <1>1, BusyIs
  <2>9. run \in RunRecords /\ run' = [run EXCEPT !.pc = "claim", !.round = n]
    BY <1>4, <2>8, RunIs DEF RunRecords
  <2>10. run' \in RunRecords
    BY <2>9 DEF RunRecords, Busy
  <2>11. run'.pc = "claim" /\ run'.at = run.at /\ run'.task = run.task
    BY <2>9 DEF RunRecords
  <2>12. RunHolds'
    BY <1>1, <2>11, BusyIs DEF RunHolds, Paid, Reporting, TaskSet
  <2>. QED
    BY <1>1, <1>2, <2>5, <2>6, <2>7, <2>10, <2>11, <2>12, BusyIs, BusyMoves
    DEF RequestsInStep, Busy
<1>. QED
  BY <1>3, <1>4 DEF AdvanceRound, Ends, Task

LEMMA ClaimMoves ==
  ASSUME JsonInv, Claim
  PROVE  JsonInv'
<1>1. run.pc = "claim" /\ run.pc \in Busy /\ UNCHANGED <<plan, book, saved, job>>
  BY DEF Claim, Writing, At, Busy, beyond, case
<1>2. CASE run' = Off /\ UNCHANGED <<flow, replaced>>
  BY <1>1, <1>2, EndMoves, RunIs DEF SavedTyped
<1>3. CASE /\ Claimable(run.task) /\ flow' = Claimed(run.task) /\ replaced' = replaced \ {run.task}
           /\ run' = [run EXCEPT !.pc = "forecast", !.epoch = flow.tasks[run.task].epoch + 1]
  <2>1. PICK t \in Tasks : t = run.task
    BY <1>1, BusyIs
  <2>2. PICK old \in TaskRecords : old = flow.tasks[t]
    BY RowIs, RunIs
  <2>3. PICK epoch \in Nat, tries \in Nat :
          epoch = old.epoch + 1 /\ tries = old.tries + 1
    BY DEF TaskRecords
  <2>4. PICK row : row = [old EXCEPT !.epoch = epoch, !.tries = tries, !.last = epoch,
                                     !.status = "reserved", !.invalidated = FALSE]
    OBVIOUS
  <2>5. row \in TaskRecords
    BY <2>4 DEF TaskRecords, Statuses, Live
  <2>6. /\ row.epoch = epoch /\ row.tries = tries /\ row.last = epoch
        /\ row.status = "reserved" /\ row.invalidated = FALSE
    BY <2>4 DEF TaskRecords
  <2>7. FlowTyped /\ flow' = [flow EXCEPT !.tasks[t] = row]
    BY <1>3, <2>1, <2>2, <2>3, <2>4, RunIs DEF Claimed, JsonTyped
  <2>8. DOMAIN flow' = {"paused", "tasks"} /\ flow'.tasks = [flow.tasks EXCEPT ![t] = row]
    BY <2>7 DEF FlowTyped
  <2>9. /\ flow'.tasks[t] = row /\ \A u \in Tasks : u # t => flow'.tasks[u] = flow.tasks[u]
        /\ flow'.tasks \in [Tasks -> TaskRecords]
    BY <2>5, <2>7, <2>8 DEF FlowTyped
  <2>10. FlowTyped'
    BY <2>8, <2>9 DEF FlowTyped
  <2>11. TaskHolds(t) /\ old.tries < MaxAttempts
         /\ old.epoch \in Nat /\ old.tries \in Nat /\ old.last \in Nat
    BY <1>3, <2>1, <2>2 DEF JsonInv, Claimable, TaskRecords
  <2>12. old.last < epoch /\ epoch \in 1..MaxEpoch /\ tries <= MaxAttempts
         /\ epoch + MaxAttempts <= MaxEpoch + tries /\ tries > 0
    <3>1. MaxAttempts \in Nat /\ MaxEpoch \in Nat
      BY JsonPlanAssumption
    <3>2. old.last <= old.epoch /\ old.epoch + MaxAttempts <= MaxEpoch + old.tries
      BY <2>2, <2>11 DEF TaskHolds
    <3>. QED
      BY <2>3, <2>11, <3>1, <3>2
  <2>13. ASSUME NEW u \in Tasks, u # t
         PROVE  /\ TaskHolds(u)' /\ (IsLive(u)' <=> IsLive(u)) /\ Current(u)' = Current(u)
    BY <1>1, <2>9, <2>13 DEF JsonInv, TaskHolds, IsLive, Fresh, Current, TaskSet
  <2>14. TaskHolds(t)' /\ Current(t)' = <<t, epoch>>
    <3>1. t \in TaskSet'
      BY <1>1, <2>1, BusyIs DEF TaskSet
    <3>2. row.status \notin Final
      BY <2>6 DEF Final
    <3>3. flow'.tasks[t].last <= flow'.tasks[t].epoch /\ flow'.tasks[t].tries <= MaxAttempts
          /\ flow'.tasks[t].epoch + MaxAttempts <= MaxEpoch + flow'.tasks[t].tries
          /\ flow'.tasks[t].last >= 1
      BY <2>6, <2>9, <2>12
    <3>4. ~Fresh(t)'
      BY <2>6, <2>9, <2>12, <3>2 DEF Fresh
    <3>. QED
      BY <2>6, <2>9, <3>1, <3>3, <3>4 DEF TaskHolds, Current
  <2>15. \A r \in Requests : book.held[r] # "none" /\ r[1] = t => r[2] < epoch
    <3>1. \A r \in Requests : r[2] \in Nat
      BY JsonPlanAssumption DEF Requests
    <3>. QED
      BY <2>2, <2>11, <2>12, <3>1 DEF JsonInv, LedgerHolds
  <2>16. PICK request \in Requests : request = <<t, epoch>> /\ request[1] = t /\ request[2] = epoch
    <3>1. <<t, epoch>> \in Requests
      BY <2>12 DEF Requests
    <3>. QED
      BY <3>1
  <2>17. book.held[request] = "none" /\ job[request].sent = 0
    <3>1. book.held[request] = "none"
      BY <2>12, <2>15, <2>16
    <3>2. job[request].sent \in Nat
      BY RunIs DEF JsonTyped
    <3>. QED
      BY <3>1, <3>2 DEF JsonInv, RequestsInStep, SentOnceAndHeld
  <2>18. LedgerHolds'
    <3>1. \A r \in Requests : book.held[r] # "none" => r[2] <= flow'.tasks[r[1]].last
      <4>1. SUFFICES ASSUME NEW r \in Requests, book.held[r] # "none"
                     PROVE  r[2] <= flow'.tasks[r[1]].last
        OBVIOUS
      <4>2. r[1] \in Tasks /\ r[2] \in Nat
        BY JsonPlanAssumption DEF Requests
      <4>3. CASE r[1] = t
        BY <2>6, <2>9, <2>15, <4>1, <4>2, <4>3
      <4>4. CASE r[1] # t
        BY <2>9, <4>1, <4>2, <4>4 DEF JsonInv, LedgerHolds
      <4>. QED
        BY <4>3, <4>4
    <3>2. \A u \in Tasks : flow'.tasks[u].status = "reserved" => job[Current(u)'].sent = 0
      BY <2>9, <2>13, <2>14, <2>16, <2>17 DEF JsonInv, LedgerHolds
    <3>. QED
      BY <1>1, <3>1, <3>2 DEF LedgerHolds
  <2>19. RequestsInStep'
    <3>1. SentOnceAndHeld' /\ Held' = Held
      BY <1>1 DEF JsonInv, RequestsInStep, SentOnceAndHeld, Held
    <3>2. Generated \subseteq Tasks
      BY JsonPlanAssumption
    <3>3. RoundIsDrained'
      BY <1>1, <2>13, <2>14, <2>16, <2>17, <3>1, <3>2
      DEF JsonInv, RequestsInStep, RoundIsDrained, Held
    <3>. QED
      BY <3>1, <3>3 DEF RequestsInStep
  <2>20. run \in RunRecords /\ run' = [run EXCEPT !.pc = "forecast", !.epoch = epoch]
    BY <1>3, <2>1, <2>2, <2>3, RunIs
  <2>21. run' \in RunRecords
    BY <2>20 DEF RunRecords, Busy
  <2>22. run'.pc = "forecast" /\ run'.at = run.at /\ run'.task = run.task /\ run'.epoch = epoch
    BY <2>20 DEF RunRecords
  <2>23. RunHolds'
    <3>1. run'.pc \notin Paid /\ run'.pc \notin Reporting
      BY <2>22 DEF Paid, Reporting
    <3>2. flow'.tasks[run'.task].last = epoch /\ flow'.tasks[run'.task].status = "reserved"
      BY <2>1, <2>6, <2>9, <2>22
    <3>3. run'.task \in TaskSet' /\ epoch >= 1
      BY <1>1, <2>12, <2>22, BusyIs DEF TaskSet
    <3>. QED
      BY <2>22, <3>1, <3>2, <3>3 DEF RunHolds
  <2>24. BookTyped' /\ SavedTyped' /\ saved'.now.phase = "work"
         /\ job' \in [Requests -> [state: JobStates, sent: Nat]] /\ replaced' \subseteq TaskSet
    BY <1>1, <1>3, BusyIs, RunIs DEF SavedTyped, BookTyped, JsonTyped
  <2>25. (\A u \in Tasks : TaskHolds(u))'
    BY <2>13, <2>14
  <2>. QED
    BY <1>1, <2>10, <2>18, <2>19, <2>21, <2>22, <2>23, <2>24, <2>25, BusyIs, BusyMoves DEF Busy
<1>. QED
  BY <1>2, <1>3 DEF Claim, Ends, Task

\* The batch goes on with a task it has money for, past the call of the provider.
LEMMA PaidGoes ==
  ASSUME JsonInv, run.pc \in Paid, NEW pc \in Paid \ {"submitted", "submit"},
         pc \in Reporting => run.pc \in Reporting,
         UNCHANGED plan, Held \subseteq Held', Goes(pc)
  PROVE  run' \in RunRecords /\ RunHolds' /\ run'.pc = pc /\ run'.at.phase = "work"
<1>1. run.pc \in Busy /\ pc \in Busy
  BY DEF Busy
<1>2. /\ run' \in RunRecords /\ run'.pc = pc /\ run'.at = run.at /\ run'.task = run.task
      /\ run'.bill = run.bill /\ Request' = Request
  BY <1>1, Going DEF Goes
<1>3. run'.task \in TaskSet' /\ Request' \in Held' /\ run'.at.phase = "work"
  BY <1>1, <1>2, BusyIs DEF TaskSet, Held
<1>4. run'.pc \in Reporting => run'.bill \in {NoBill} \cup Bills[run'.task]
  BY <1>2 DEF JsonInv, RunHolds
<1>. QED
  BY <1>2, <1>3, <1>4, PaidHolds

\* A checkpoint, after which the batch goes on with the same task or ends.
LEMMA RecordMoves ==
  ASSUME JsonInv, run.pc \in Paid, NEW status, NEW pc \in Paid \ {"submitted", "submit"},
         pc \in Reporting => run.pc \in Reporting,
         Record(status, pc), UNCHANGED <<plan, book, saved, job, replaced>>
  PROVE  JsonInv'
<1>1. run.pc \in Busy /\ pc \in Busy
  BY DEF Busy
<1>2. CASE run' = Off /\ flow' = flow
  BY <1>2, EndMoves, RunIs DEF SavedTyped
<1>3. CASE Recordable(run.task, run.epoch, status) /\ flow' = Recorded(run.task, status) /\ Goes(pc)
  <2>1. /\ FlowTyped' /\ (\A u \in Tasks : TaskHolds(u))' /\ LedgerHolds' /\ RequestsInStep'
    BY <1>1, <1>3, BusyIs, RecordKeeps
  <2>2. BookTyped' /\ SavedTyped' /\ saved'.now.phase = "work"
        /\ job' \in [Requests -> [state: JobStates, sent: Nat]] /\ replaced' \subseteq TaskSet
    BY <1>1, BusyIs, RunIs DEF SavedTyped, BookTyped, JsonTyped
  <2>3. Held \subseteq Held'
    BY DEF Held
  <2>4. run' \in RunRecords /\ RunHolds' /\ run'.pc = pc /\ run'.at.phase = "work"
    BY <1>3, <2>3, PaidGoes
  <2>. QED
    BY <1>1, <2>1, <2>2, <2>4, BusyMoves
<1>. QED
  BY <1>2, <1>3 DEF Record, Ends, Task

\* The batch goes on with its task, or ends, and nothing else changes.
LEMMA PaidMoves ==
  ASSUME JsonInv, run.pc \in Paid, NEW pc \in Paid \ {"submitted", "submit"},
         pc \in Reporting => run.pc \in Reporting,
         Goes(pc), UNCHANGED <<plan, flow, book, saved, job, replaced>>
  PROVE  JsonInv'
<1>1. run.pc \in Busy /\ pc \in Busy
  BY DEF Busy
<1>2. Held \subseteq Held'
  BY DEF Held
<1>3. run' \in RunRecords /\ RunHolds' /\ run'.pc = pc /\ run'.at.phase = "work"
  BY <1>2, PaidGoes
<1>4. SavedTyped' /\ saved'.now.phase = "work" /\ replaced' \subseteq TaskSet
  BY <1>1, BusyIs, RunIs DEF SavedTyped
<1>5. SweepHolds'
  BY <1>1, <1>3, <1>4 DEF SweepHolds, Busy, Paid, Reporting
<1>. QED
  BY <1>3, <1>4, <1>5, Quiet

LEMMA RecordForecastMoves ==
  ASSUME JsonInv, RecordForecast
  PROVE  JsonInv'
<1>1. run.pc = "forecast" /\ run.pc \in Busy /\ UNCHANGED <<plan, flow, saved, job, replaced>>
      /\ Goes("reserve")
  BY DEF RecordForecast, Writing, At, Busy, beyond, case
<1>2. JsonTyped /\ BookTyped
  BY RunIs DEF JsonTyped
<1>3. /\ DOMAIN book' = DOMAIN book /\ book'.held = book.held /\ book'.billed = book.billed
      /\ book'.slot = book.slot /\ book'.rounds = book.rounds
  BY <1>2, ForecastIs DEF RecordForecast
<1>4. BookTyped'
  BY <1>2, <1>3 DEF BookTyped
<1>5. FlowTyped' /\ (\A t \in Tasks : TaskHolds(t))' /\ LedgerHolds' /\ RequestsInStep'
      /\ Held \subseteq Held'
  BY <1>1, <1>3, <1>4, BookKeeps
<1>6. /\ run' \in RunRecords /\ run'.pc = "reserve" /\ run'.at = run.at /\ run'.task = run.task
      /\ run'.epoch = run.epoch /\ run'.submits = run.submits
  BY <1>1, Going DEF Goes, Busy
<1>7. RunHolds'
  <2>1. run'.pc \notin Paid /\ run'.pc \notin Reporting
    BY <1>6 DEF Paid, Reporting
  <2>2. run'.task \in TaskSet'
    BY <1>1, <1>6, BusyIs DEF TaskSet
  <2>3. /\ run'.epoch = flow'.tasks[run'.task].last /\ run'.epoch >= 1
        /\ run'.submits => flow'.tasks[run'.task].status = "reserved"
    BY <1>1, <1>6 DEF JsonInv, RunHolds
  <2>. QED
    BY <1>6, <2>1, <2>2, <2>3 DEF RunHolds
<1>8. SavedTyped' /\ saved'.now.phase = "work" /\ run'.at.phase = "work"
      /\ job' \in [Requests -> [state: JobStates, sent: Nat]] /\ replaced' \subseteq TaskSet
  BY <1>1, <1>6, BusyIs, RunIs DEF SavedTyped, JsonTyped
<1>. QED
  BY <1>1, <1>4, <1>5, <1>6, <1>7, <1>8, BusyMoves DEF Busy

LEMMA ReserveMoves ==
  ASSUME JsonInv, Reserve
  PROVE  JsonInv'
<1>1. run.pc = "reserve" /\ run.pc \in Busy /\ UNCHANGED <<plan, flow, saved, job, replaced>>
  BY DEF Reserve, Writing, At, Busy, beyond, case
<1>2. JsonTyped /\ BookTyped
  BY RunIs DEF JsonTyped
<1>3. CASE run' = Off /\ book' = book
  BY <1>1, <1>3, EndMoves, RunIs DEF SavedTyped
<1>4. CASE /\ Goes(IF run.submits THEN "submitted" ELSE "observe")
           /\ \/ Request \in Held /\ book' = book
              \/ Reservable(run.task, run.round) /\ book' = Reserved(Request, run.round)
  <2>1. run.task \in Tasks /\ run.epoch = flow.tasks[run.task].last /\ run.epoch >= 1
        /\ TaskHolds(run.task) /\ run.round \in Nat
        /\ (run.submits => flow.tasks[run.task].status = "reserved")
    BY <1>1, BusyIs DEF JsonInv, RunHolds
  <2>2. PICK request \in Requests : request = Request /\ request[1] = run.task
                                    /\ request[2] = run.epoch
    <3>1. Current(run.task) \in Requests
      BY <1>2, <2>1, CurrentIs
    <3>2. Current(run.task) = Request
      BY <2>1 DEF Current, Request
    <3>. QED
      BY <3>1, <3>2 DEF Request
  <2>3. /\ BookTyped' /\ Request \in Held' /\ FlowTyped' /\ (\A t \in Tasks : TaskHolds(t))'
        /\ LedgerHolds' /\ RequestsInStep'
    <3>1. CASE Request \in Held /\ book' = book
      <4>1. BookTyped' /\ Held' = Held
        BY <1>2, <3>1 DEF BookTyped, Held
      <4>. QED
        BY <1>1, <3>1, <4>1, BookKeeps
    <3>2. CASE Reservable(run.task, run.round) /\ book' = Reserved(Request, run.round)
      <4>1. PICK b : b = Reserved(request, run.round)
        OBVIOUS
      <4>2. /\ DOMAIN b = DOMAIN book
            /\ b.held = [book.held EXCEPT ![request] = "reserved"]
            /\ b.slot = [book.slot EXCEPT ![request] = run.round]
            /\ b.billed = book.billed /\ b.rounds = book.rounds
        BY <1>2, <4>1, ReservedIs
      <4>3. book' = b
        BY <2>2, <3>2, <4>1
      <4>4. /\ b.held \in [Requests -> Holdings] /\ b.slot \in [Requests -> Nat]
            /\ b.held[request] = "reserved" /\ b.slot[request] = run.round
            /\ \A r \in Requests : r # request => b.held[r] = book.held[r] /\ b.slot[r] = book.slot[r]
        BY <1>2, <2>1, <4>2 DEF BookTyped, Holdings
      <4>5. BookTyped'
        BY <1>2, <4>2, <4>3, <4>4 DEF BookTyped
      <4>6. run.task \in Generated => run.round = book.rounds[ShotOf[run.task]]
        BY <3>2 DEF Reservable
      <4>7. request[2] <= flow.tasks[request[1]].last
        BY <1>1, <2>1, <2>2, BusyIs
      <4>8. Request \in Held'
        BY <2>2, <4>3, <4>4 DEF Held
      <4>. QED
        BY <1>1, <2>2, <4>2, <4>3, <4>4, <4>5, <4>6, <4>7, <4>8, BookKeeps
    <3>. QED
      BY <1>4, <3>1, <3>2
  <2>4. PICK pc \in {"submitted", "observe"} : pc = IF run.submits THEN "submitted" ELSE "observe"
    OBVIOUS
  <2>5. /\ run' \in RunRecords /\ run'.pc = pc /\ run'.at = run.at /\ run'.task = run.task
        /\ run'.epoch = run.epoch /\ run'.submits = run.submits /\ Request' = Request
    BY <1>1, <1>4, <2>4, Going DEF Goes, Busy, Paid
  <2>6. RunHolds'
    <3>1. run'.pc \notin {"round", "forecast", "reserve", "submit"} /\ run'.pc \notin Reporting
          /\ run'.task \in TaskSet'
      BY <1>1, <2>4, <2>5, BusyIs DEF Reporting, TaskSet
    <3>2. /\ run'.pc = "submitted" => run'.submits
          /\ run'.epoch = flow'.tasks[run'.task].last /\ run'.epoch >= 1
          /\ run'.submits => flow'.tasks[run'.task].status = "reserved"
          /\ Request' \in Held'
      BY <1>1, <2>1, <2>3, <2>4, <2>5, BusyIs
    <3>. QED
      BY <3>1, <3>2 DEF RunHolds
  <2>7. SavedTyped' /\ saved'.now.phase = "work" /\ run'.at.phase = "work"
        /\ job' \in [Requests -> [state: JobStates, sent: Nat]] /\ replaced' \subseteq TaskSet
    BY <1>1, <2>5, BusyIs, RunIs DEF SavedTyped, JsonTyped
  <2>. QED
    BY <1>1, <2>3, <2>4, <2>5, <2>6, <2>7, BusyMoves DEF Busy, Paid
<1>. QED
  BY <1>3, <1>4 DEF Reserve, Ends, Task

LEMMA RecordSubmittedMoves ==
  ASSUME JsonInv, RecordSubmitted
  PROVE  JsonInv'
<1>1. run.pc = "submitted" /\ run.pc \in Busy /\ run.pc \in Paid
      /\ UNCHANGED <<plan, book, saved, job, replaced>>
  BY DEF RecordSubmitted, Writing, At, Busy, Paid, beyond, case
<1>2. CASE run' = Off /\ flow' = flow
  BY <1>1, <1>2, EndMoves, RunIs DEF SavedTyped
<1>3. CASE /\ Recordable(run.task, run.epoch, "submitted") /\ flow' = Recorded(run.task, "submitted")
           /\ Goes("submit")
  <2>1. /\ FlowTyped' /\ (\A u \in Tasks : TaskHolds(u))' /\ LedgerHolds' /\ RequestsInStep'
        /\ flow'.tasks[run.task].status = "submitted"
        /\ flow'.tasks[run.task].last = flow.tasks[run.task].last
    BY <1>1, <1>3, BusyIs, RecordKeeps
  <2>2. /\ run' \in RunRecords /\ run'.pc = "submit" /\ run'.at = run.at /\ run'.task = run.task
        /\ run'.epoch = run.epoch /\ Request' = Request
    BY <1>3, Going DEF Goes, Busy, Paid
  <2>3. BookTyped' /\ SavedTyped' /\ saved'.now.phase = "work" /\ run'.at.phase = "work"
        /\ job' \in [Requests -> [state: JobStates, sent: Nat]] /\ replaced' \subseteq TaskSet
    BY <1>1, <2>2, BusyIs, RunIs DEF SavedTyped, BookTyped, JsonTyped
  <2>4. /\ run.epoch = flow.tasks[run.task].last /\ run.epoch >= 1
        /\ flow.tasks[run.task].status = "reserved"
    BY <1>1 DEF JsonInv, RunHolds
  <2>5. job[Request].sent = 0
    BY <1>1, <2>4, BusyIs DEF JsonInv, LedgerHolds, Current, Request
  <2>6. RunHolds'
    <3>1. run'.task \in TaskSet' /\ Request' \in Held'
      BY <1>1, <2>2, BusyIs DEF TaskSet, Held
    <3>. QED
      BY <1>1, <2>1, <2>2, <2>4, <2>5, <3>1 DEF RunHolds, Reporting
  <2>. QED
    BY <1>1, <2>1, <2>2, <2>3, <2>6, BusyMoves DEF Busy, Paid
<1>. QED
  BY <1>2, <1>3 DEF RecordSubmitted, Record, Ends, Task

\* A change of what the provider has of a request, short of sending it again.
LEMMA JobKeeps ==
  ASSUME JsonInv, UNCHANGED <<plan, flow, book>>, NEW r \in Requests, book.held[r] # "none",
         NEW entry \in [state: JobStates, sent: Nat], job' = [job EXCEPT ![r] = entry],
         entry.sent = job[r].sent \/ (job[r].sent = 0 /\ entry.sent = 1
           /\ \A t \in Tasks : flow.tasks[t].status = "reserved" => Current(t) # r)
  PROVE  /\ job' \in [Requests -> [state: JobStates, sent: Nat]]
         /\ FlowTyped' /\ BookTyped' /\ (\A t \in Tasks : TaskHolds(t))' /\ LedgerHolds'
         /\ RequestsInStep' /\ Held' = Held
<1>1. JsonTyped /\ job \in [Requests -> [state: JobStates, sent: Nat]]
  BY RunIs DEF JsonTyped
<1>2. /\ job'[r] = entry /\ \A q \in Requests : q # r => job'[q] = job[q]
      /\ job' \in [Requests -> [state: JobStates, sent: Nat]]
  BY <1>1
<1>3. FlowTyped' /\ (\A t \in Tasks : TaskHolds(t))' /\ (\A t : Current(t)' = Current(t))
      /\ (\A t : IsLive(t)' <=> IsLive(t))
  BY SameRows
<1>4. BookTyped' /\ Held' = Held
  BY <1>1 DEF JsonTyped, BookTyped, Held
<1>5. LedgerHolds'
  <2>1. SUFFICES ASSUME NEW t \in Tasks, flow.tasks[t].status = "reserved"
                 PROVE  job'[Current(t)].sent = 0
    BY <1>3 DEF JsonInv, LedgerHolds
  <2>2. job[Current(t)].sent = 0
    BY <2>1 DEF JsonInv, LedgerHolds
  <2>3. CASE Current(t) = r
    BY <1>2, <2>1, <2>2, <2>3
  <2>4. CASE Current(t) # r
    <3>1. flow.tasks[t].last >= 1
      <4>1. IsLive(t) /\ TaskHolds(t)
        BY <2>1 DEF IsLive, Live, JsonInv
      <4>. QED
        BY <4>1, RowIs, <1>1 DEF TaskHolds, Fresh
    <3>2. Current(t) \in Requests
      BY <1>1, <3>1, CurrentIs DEF JsonInv
    <3>. QED
      BY <1>2, <2>2, <2>4, <3>2
  <2>. QED
    BY <2>3, <2>4
<1>6. SentOnceAndHeld'
  BY <1>2 DEF JsonInv, RequestsInStep, SentOnceAndHeld
<1>7. RoundIsDrained'
  BY <1>3, <1>4 DEF JsonInv, RequestsInStep, RoundIsDrained
<1>. QED
  BY <1>2, <1>3, <1>4, <1>5, <1>6, <1>7 DEF RequestsInStep

LEMMA SubmitMoves ==
  ASSUME JsonInv, Submit
  PROVE  JsonInv'
<1>1. run.pc = "submit" /\ run.pc \in Busy /\ run.pc \in Paid
      /\ UNCHANGED <<plan, flow, book, saved, replaced>>
  BY DEF Submit, At, Busy, Paid, beyond, case, documents
<1>2. PICK pc \in {"observe", "lost"} : Goes(pc)
  BY DEF Submit
<1>3. pc \in Paid \ {"submitted", "submit"} /\ pc \notin Reporting /\ Held \subseteq Held'
  BY <1>1 DEF Paid, Reporting, Held
<1>4. run' \in RunRecords /\ RunHolds' /\ run'.pc = pc /\ run'.at.phase = "work"
  BY <1>1, <1>2, <1>3, PaidGoes
<1>5. CASE job' = job
  BY <1>1, <1>2, <1>3, <1>5, PaidMoves
<1>6. CASE job' = [job EXCEPT ![Request].sent = @ + 1, ![Request].state = "running"]
  <2>1. PICK r \in Requests : r = Request /\ book.held[r] # "none"
    BY <1>1, BusyIs
  <2>2. job \in [Requests -> [state: JobStates, sent: Nat]] /\ job[r].sent = 0
    BY <1>1, <2>1, RunIs DEF JsonInv, RunHolds, JsonTyped
  <2>3. PICK entry : entry = [state |-> "running", sent |-> 1]
    OBVIOUS
  <2>4. entry \in [state: JobStates, sent: Nat] /\ entry.sent = 1
    BY <2>3 DEF JobStates
  <2>5. job' = [job EXCEPT ![r] = entry]
    <3>1. PICK old \in [state: JobStates, sent: Nat] : old = job[r] /\ old.sent = 0
      BY <2>2
    <3>2. PICK one : one = [old EXCEPT !.sent = old.sent + 1]
      OBVIOUS
    <3>3. PICK state \in JobStates : old = [state |-> state, sent |-> 0]
      BY <3>1
    <3>4. one = [state |-> state, sent |-> 1]
      BY <3>2, <3>3
    <3>5. entry = [one EXCEPT !.state = "running"]
      BY <2>3, <3>4
    <3>6. PICK jobs : jobs = [job EXCEPT ![r].sent = @ + 1]
      OBVIOUS
    <3>7. jobs = [job EXCEPT ![r] = one]
      BY <3>1, <3>2, <3>6, Zenon
    <3>8. job' = [jobs EXCEPT ![r].state = "running"]
      BY <1>6, <2>1, <3>6
    <3>9. jobs[r] = one /\ DOMAIN jobs = Requests
      BY <2>2, <3>7
    <3>10. job' = [jobs EXCEPT ![r] = entry]
      BY <3>5, <3>8, <3>9
    <3>. QED
      BY <2>2, <3>7, <3>10
  <2>6. \A t \in Tasks : flow.tasks[t].status = "reserved" => Current(t) # r
    BY <1>1, <2>1 DEF JsonInv, RunHolds, Current, Request
  <2>7. /\ job' \in [Requests -> [state: JobStates, sent: Nat]]
        /\ FlowTyped' /\ BookTyped' /\ (\A t \in Tasks : TaskHolds(t))' /\ LedgerHolds'
        /\ RequestsInStep'
    BY <1>1, <2>1, <2>2, <2>4, <2>5, <2>6, JobKeeps
  <2>8. SavedTyped' /\ saved'.now.phase = "work" /\ replaced' \subseteq TaskSet
    BY <1>1, BusyIs, RunIs DEF SavedTyped
  <2>. QED
    BY <1>1, <1>3, <1>4, <2>7, <2>8, BusyMoves DEF Busy
<1>. QED
  BY <1>5, <1>6 DEF Submit

LEMMA ObserveMoves ==
  ASSUME JsonInv, Observe
  PROVE  JsonInv'
<1>1. run.pc = "observe" /\ run.pc \in Busy /\ run.pc \in Paid
      /\ UNCHANGED <<plan, flow, book, saved, replaced>>
  BY DEF Observe, At, Busy, Paid, beyond, case, documents
<1>2. CASE run' = Off /\ job' = job
  BY <1>1, <1>2, EndMoves, RunIs DEF SavedTyped
<1>3. ASSUME NEW obs \in JobStates \cup {"unknown"}, NEW bill \in {NoBill} \cup Bills[run.task],
             run' = [run EXCEPT !.pc = "report", !.obs = obs, !.bill = bill],
             \/ job' = job
             \/ obs \in JobStates /\ job' = [job EXCEPT ![Request].state = obs]
      PROVE  JsonInv'
  <2>1. bill \in Int
    <3>1. run.task \in Tasks
      BY <1>1, BusyIs
    <3>2. Bills[run.task] \subseteq Int
      BY <3>1, BillsAre
    <3>. QED
      BY <3>2 DEF NoBill
  <2>2. run \in RunRecords
    BY RunIs
  <2>3. run' \in RunRecords
    BY <1>3, <2>1, <2>2 DEF RunRecords, Busy, Paid, Reporting
  <2>4. /\ run'.pc = "report" /\ run'.at = run.at /\ run'.task = run.task
        /\ run'.epoch = run.epoch /\ run'.bill = bill
    BY <1>3, <2>2 DEF RunRecords
  <2>5. PICK r \in Requests : r = Request /\ book.held[r] # "none"
    BY <1>1, BusyIs
  <2>6. JsonTyped /\ job \in [Requests -> [state: JobStates, sent: Nat]]
    BY RunIs DEF JsonTyped
  <2>7. PICK entry \in [state: JobStates, sent: Nat] :
          entry.sent = job[r].sent /\ job' = [job EXCEPT ![r] = entry]
    <3>1. CASE job' = job
      BY <2>6, <3>1
    <3>2. CASE obs \in JobStates /\ job' = [job EXCEPT ![Request].state = obs]
      <4>1. PICK entry : entry = [job[r] EXCEPT !.state = obs]
        OBVIOUS
      <4>2. entry \in [state: JobStates, sent: Nat] /\ entry.sent = job[r].sent
        BY <2>6, <3>2, <4>1
      <4>3. job' = [job EXCEPT ![r] = entry]
        BY <2>5, <3>2, <4>1
      <4>. QED
        BY <4>2, <4>3
    <3>. QED
      BY <1>3, <3>1, <3>2
  <2>8. /\ job' \in [Requests -> [state: JobStates, sent: Nat]]
        /\ FlowTyped' /\ BookTyped' /\ (\A t \in Tasks : TaskHolds(t))' /\ LedgerHolds'
        /\ RequestsInStep' /\ Held' = Held
    BY <1>1, <2>5, <2>7, JobKeeps
  <2>9. SavedTyped' /\ saved'.now.phase = "work" /\ replaced' \subseteq TaskSet
        /\ run'.at.phase = "work"
    BY <1>1, <2>4, BusyIs, RunIs DEF SavedTyped
  <2>10. RunHolds'
    <3>1. run'.task \in TaskSet' /\ Request' \in Held'
      BY <1>1, <2>4, <2>8, BusyIs DEF TaskSet, Request, Held
    <3>. QED
      BY <2>4, <3>1, PaidHolds DEF Paid, Reporting
  <2>. QED
    BY <1>1, <2>3, <2>4, <2>8, <2>9, <2>10, BusyMoves DEF Busy, Paid, Reporting
<1>4. CASE run' = [run EXCEPT !.pc = "report", !.obs = "unknown", !.bill = NoBill] /\ job' = job
  BY <1>3, <1>4
<1>5. CASE \E state \in Ended(job[Request].state) :
             /\ job' = [job EXCEPT ![Request].state = state]
             /\ \E bill \in Bills[run.task] \cup {NoBill} :
                  run' = [run EXCEPT !.pc = "report", !.obs = state, !.bill = bill]
  <2>1. job[Request].state \in JobStates
    BY <1>1, BusyIs, RunIs DEF JsonTyped
  <2>2. Ended(job[Request].state) \subseteq JobStates
    BY <2>1 DEF Ended, JobStates
  <2>3. PICK state \in JobStates, bill \in {NoBill} \cup Bills[run.task] :
          /\ job' = [job EXCEPT ![Request].state = state]
          /\ run' = [run EXCEPT !.pc = "report", !.obs = state, !.bill = bill]
    BY <1>5, <2>2
  <2>4. state \in JobStates \cup {"unknown"}
    OBVIOUS
  <2>. QED
    BY <1>3, <2>3, <2>4
<1>. QED
  BY <1>2, <1>4, <1>5 DEF Observe, Ends, Task

\* What the provider said, the evaluation and the acceptance are recorded in the workflow.
LEMMA RecordsMove ==
  ASSUME JsonInv, RecordLost \/ Report \/ Judge \/ Accept
  PROVE  JsonInv'
<1>1. run.pc \in Paid /\ UNCHANGED <<plan, book, saved, job, replaced>>
  BY DEF RecordLost, Report, Judge, Accept, Writing, At, Paid, Reporting, beyond, case
<1>2. CASE run' = Off /\ flow' = flow
  BY <1>1, <1>2, EndMoves, RunIs DEF SavedTyped
<1>3. CASE RecordLost
  BY <1>1, <1>3, RecordMoves DEF RecordLost, Paid, Reporting
<1>4. CASE Report
  <2>1. run.pc \in Reporting
    BY <1>4 DEF Report, Writing, At, Reporting
  <2>2. PICK pc \in {"judge", "bill"} :
          (Goes(pc) /\ flow' = flow) \/ Record(run.obs, pc)
    BY <1>4 DEF Report
  <2>3. pc \in Paid \ {"submitted", "submit"}
    BY DEF Paid, Reporting
  <2>4. CASE Goes(pc) /\ flow' = flow
    BY <1>1, <2>1, <2>3, <2>4, PaidMoves
  <2>5. CASE Record(run.obs, pc)
    BY <1>1, <2>1, <2>3, <2>5, RecordMoves
  <2>. QED
    BY <2>2, <2>4, <2>5
<1>5. CASE Judge
  <2>1. run.pc \in Reporting
    BY <1>5 DEF Judge, Writing, At, Reporting
  <2>2. {"settle", "accept"} \subseteq Paid \ {"submitted", "submit"}
    BY DEF Paid, Reporting
  <2>3. \/ Record("rejected", "settle")
        \/ run' = Off /\ flow' = flow
        \/ Record("verified", "accept")
        \/ Goes("accept") /\ flow' = flow
    BY <1>5 DEF Judge, Ends
  <2>4. CASE Record("rejected", "settle")
    BY <1>1, <2>1, <2>2, <2>4, RecordMoves
  <2>5. CASE Record("verified", "accept")
    BY <1>1, <2>1, <2>2, <2>5, RecordMoves
  <2>6. CASE Goes("accept") /\ flow' = flow
    BY <1>1, <2>1, <2>2, <2>6, PaidMoves
  <2>. QED
    BY <1>2, <2>3, <2>4, <2>5, <2>6
<1>6. CASE Accept
  <2>1. run.pc \in Reporting /\ "settle" \in Paid \ {"submitted", "submit"}
    BY <1>6 DEF Accept, Writing, At, Paid, Reporting
  <2>. QED
    BY <1>1, <1>6, <2>1, RecordMoves DEF Accept
<1>. QED
  BY <1>3, <1>4, <1>5, <1>6

\* The ledger learns the bill, or that there is none, and the batch leaves the task.
LEMMA BillsMove ==
  ASSUME JsonInv, HoldLost \/ Bill \/ Settle
  PROVE  JsonInv'
<1>1. run.pc \in Paid /\ run.pc \in Busy /\ UNCHANGED <<plan, flow, job, replaced>>
  BY DEF HoldLost, Bill, Settle, Writing, At, Busy, Paid, Reporting, beyond, case
<1>2. PICK bill : (bill = NoBill \/ bill \in Nat) /\ book' = Reconciled(Request, bill)
  <2>1. CASE HoldLost
    BY <2>1 DEF HoldLost
  <2>2. CASE Bill \/ Settle
    <3>1. run.bill \in {NoBill} \cup Bills[run.task] /\ book' = Reconciled(Request, run.bill)
      BY <2>2 DEF Bill, Settle, Writing, At, JsonInv, RunHolds, Reporting
    <3>2. run.task \in Tasks
      BY <1>1, BusyIs
    <3>3. Bills[run.task] \subseteq Nat
      BY <3>2, BillsAre
    <3>. QED
      BY <3>1, <3>3
  <2>. QED
    BY <2>1, <2>2
<1>3. PICK r \in Requests : r = Request /\ book.held[r] # "none"
  BY <1>1, BusyIs
<1>4. /\ BookTyped' /\ FlowTyped' /\ (\A t \in Tasks : TaskHolds(t))'
      /\ LedgerHolds' /\ RequestsInStep'
  BY <1>1, <1>2, <1>3, ReconciledKeeps
<1>5. job' \in [Requests -> [state: JobStates, sent: Nat]] /\ replaced' \subseteq TaskSet
  BY <1>1, RunIs DEF JsonTyped
<1>6. CASE run' = Off /\ saved' = saved
  <2>1. run' \in RunRecords /\ run'.pc = "off" /\ RunHolds'
    BY <1>1, <1>6, RunIs, Ending
  <2>2. SavedTyped' /\ saved'.now.phase = "work"
    BY <1>1, <1>6, BusyIs, RunIs DEF SavedTyped
  <2>. QED
    BY <1>1, <1>4, <1>5, <2>1, <2>2, BusyMoves
<1>7. ASSUME NEW more \in BOOLEAN, Leaves(more)
      PROVE  JsonInv'
  BY <1>1, <1>4, <1>5, <1>7, Leaving, BusyMoves
<1>8. (run.obs # "running") \in BOOLEAN
  OBVIOUS
<1>. QED
  BY <1>6, <1>7, <1>8 DEF HoldLost, Bill, Settle, Ends

-----------------------------------------------------------------------------
(* Steps of the operators. *)

\* The files change while the batch is anywhere: its fields stay what they were.
LEMMA BesideMoves ==
  ASSUME JsonInv, UNCHANGED <<plan, run, job, replaced>>, FlowTyped', BookTyped',
         (\A t \in Tasks : TaskHolds(t))', LedgerHolds', RequestsInStep', Held \subseteq Held',
         \A t \in Tasks : flow'.tasks[t].last = flow.tasks[t].last
                          /\ flow'.tasks[t].status = flow.tasks[t].status,
         SavedTyped', saved'.now = saved.now,
         saved'.now.phase = "verify" /\ ~saved'.stale => AllAccepted'
  PROVE  JsonInv'
<1>1. JsonTyped'
  BY DEF JsonInv, JsonTyped, TaskSet
<1>2. run.task \in Tasks /\ (run.pc \in Busy => run.task \in TaskSet)
  BY RunIs DEF JsonInv, RunHolds
<1>3. \A t \in Tasks : IsLive(t)' <=> IsLive(t)
  BY DEF IsLive
<1>4. RunHolds'
  <2>1. Request' = Request /\ TaskSet' = TaskSet
    BY DEF Request, TaskSet
  <2>2. /\ run'.pc = "round" => (\A u \in Tasks : ShotOf[u] = ShotOf[run.task] => ~IsLive(u))'
        /\ flow'.tasks[run.task].last = flow.tasks[run.task].last
        /\ flow'.tasks[run.task].status = flow.tasks[run.task].status
    BY <1>2, <1>3 DEF JsonInv, RunHolds
  <2>. QED
    BY <1>2, <2>1, <2>2 DEF JsonInv, RunHolds
<1>5. SweepHolds'
  <2>1. Confirmed => Confirmed'
    BY DEF Confirmed, TaskSet
  <2>. QED
    BY <2>1 DEF JsonInv, SweepHolds
<1>. QED
  BY <1>1, <1>4, <1>5 DEF JsonInv

LEMMA DisturbedIs ==
  ASSUME JsonInv, Disturbs
  PROVE  /\ SavedTyped' /\ saved'.now = saved.now
         /\ saved'.now.phase = "verify" => saved'.stale
<1>1. PICK stale \in BOOLEAN : stale = (saved.now.phase = "verify")
  OBVIOUS
<1>2. saved' = [saved EXCEPT !.stale = stale] /\ SavedTyped
  BY <1>1, RunIs DEF Disturbs
<1>3. SavedTyped'
  BY <1>2 DEF SavedTyped
<1>4. saved'.now = saved.now /\ saved'.stale = stale
  BY <1>2 DEF SavedTyped
<1>. QED
  BY <1>1, <1>3, <1>4

LEMMA PauseMoves ==
  ASSUME JsonInv, Pause
  PROVE  JsonInv'
<1>1. UNCHANGED <<plan, run, job, replaced, book>> /\ Disturbs
  BY DEF Pause, beyond, case
<1>2. FlowTyped
  BY RunIs DEF JsonTyped
<1>3. DOMAIN flow' = DOMAIN flow /\ flow'.tasks = flow.tasks
  BY <1>2 DEF Pause, FlowTyped
<1>4. FlowTyped' /\ BookTyped'
  BY <1>1, <1>2, <1>3, RunIs DEF FlowTyped, BookTyped, JsonTyped
<1>5. /\ \A t : IsLive(t)' <=> IsLive(t)
      /\ \A t : Current(t)' = Current(t)
  BY <1>3 DEF IsLive, Current
<1>6. (\A t \in Tasks : TaskHolds(t))'
  BY <1>1, <1>3, <1>5 DEF JsonInv, TaskHolds, Fresh, TaskSet
<1>7. LedgerHolds' /\ RequestsInStep' /\ Held' = Held
  BY <1>1, <1>3, <1>5
  DEF JsonInv, LedgerHolds, RequestsInStep, SentOnceAndHeld, RoundIsDrained, Held
<1>. QED
  BY <1>1, <1>3, <1>4, <1>6, <1>7, DisturbedIs, BesideMoves

LEMMA InvalidateMoves ==
  ASSUME JsonInv, NEW changed, Invalidate(changed)
  PROVE  JsonInv'
<1>1. UNCHANGED <<plan, run, job, replaced, book>> /\ Disturbs
  BY DEF Invalidate, beyond, case
<1>2. FlowTyped /\ BookTyped
  BY RunIs DEF JsonTyped
<1>3. PICK S : S = Affected({changed})
  OBVIOUS
<1>4. /\ \A t \in S : flow.tasks[t].epoch + MaxAttempts - flow.tasks[t].tries < MaxEpoch
      /\ \A t \in S : ~IsLive(t)
      /\ flow' = [flow EXCEPT !.tasks = [t \in Tasks |->
           IF t \in S
           THEN [flow.tasks[t] EXCEPT !.epoch = flow.tasks[t].epoch + 1, !.accepted = FALSE,
                                      !.invalidated = flow.tasks[t].tries > 0]
           ELSE flow.tasks[t]]]
  BY <1>3 DEF Invalidate, Invalidatable
<1>5. /\ DOMAIN flow' = DOMAIN flow
      /\ flow'.tasks = [t \in Tasks |->
           IF t \in S
           THEN [flow.tasks[t] EXCEPT !.epoch = flow.tasks[t].epoch + 1, !.accepted = FALSE,
                                      !.invalidated = flow.tasks[t].tries > 0]
           ELSE flow.tasks[t]]
  BY <1>2, <1>4 DEF FlowTyped
<1>6. ASSUME NEW t \in Tasks
      PROVE  /\ flow'.tasks[t] \in TaskRecords
             /\ flow'.tasks[t].last = flow.tasks[t].last
             /\ flow'.tasks[t].status = flow.tasks[t].status
             /\ flow'.tasks[t].tries = flow.tasks[t].tries
             /\ t \notin S => flow'.tasks[t] = flow.tasks[t]
             /\ t \in S => flow'.tasks[t].epoch = flow.tasks[t].epoch + 1
  <2>1. PICK old \in TaskRecords : old = flow.tasks[t]
    BY <1>2 DEF FlowTyped
  <2>2. old.epoch \in Nat /\ old.tries \in Nat
    BY <2>1 DEF TaskRecords
  <2>3. CASE t \in S
    <3>1. PICK epoch \in Nat : epoch = old.epoch + 1
      BY <2>2
    <3>6. (old.tries > 0) \in BOOLEAN
      OBVIOUS
    <3>5. PICK invalidated \in BOOLEAN : invalidated = (old.tries > 0)
      BY <3>6, Zenon
    <3>2. flow'.tasks[t] = [old EXCEPT !.epoch = epoch, !.accepted = FALSE,
                                       !.invalidated = invalidated]
      BY <1>5, <2>1, <2>3, <3>1, <3>5
    <3>3. flow'.tasks[t] \in TaskRecords
      BY <2>1, <3>1, <3>2 DEF TaskRecords
    <3>4. /\ flow'.tasks[t].last = old.last /\ flow'.tasks[t].status = old.status
          /\ flow'.tasks[t].tries = old.tries /\ flow'.tasks[t].epoch = epoch
      BY <2>1, <3>2 DEF TaskRecords
    <3>. QED
      BY <2>1, <2>3, <3>1, <3>3, <3>4
  <2>4. CASE t \notin S
    BY <1>5, <2>1, <2>4
  <2>. QED
    BY <2>3, <2>4
<1>7. FlowTyped' /\ BookTyped'
  BY <1>1, <1>2, <1>5, <1>6 DEF FlowTyped, BookTyped
<1>8. \A t \in Tasks : (IsLive(t)' <=> IsLive(t)) /\ Current(t)' = Current(t)
  BY <1>6 DEF IsLive, Current
<1>9. ASSUME NEW t \in Tasks PROVE TaskHolds(t)'
  <2>1. /\ flow.tasks[t].epoch \in Nat /\ flow.tasks[t].tries \in Nat /\ flow.tasks[t].last \in Nat
        /\ MaxAttempts \in Nat /\ MaxEpoch \in Nat /\ TaskHolds(t)
    BY RowIs, RunIs, JsonPlanAssumption DEF JsonInv
  <2>2. CASE t \in S
    <3>1. ~IsLive(t)'
      BY <1>4, <1>8, <2>2
    <3>2. /\ flow'.tasks[t].epoch = flow.tasks[t].epoch + 1
          /\ flow'.tasks[t].last = flow.tasks[t].last /\ flow'.tasks[t].tries = flow.tasks[t].tries
          /\ flow.tasks[t].epoch + MaxAttempts - flow.tasks[t].tries < MaxEpoch
      BY <1>4, <1>6, <2>2
    <3>. QED
      BY <2>1, <3>1, <3>2 DEF TaskHolds
  <2>3. CASE t \notin S
    BY <1>1, <1>6, <1>8, <2>1, <2>3 DEF TaskHolds, Fresh, TaskSet
  <2>. QED
    BY <2>2, <2>3
<1>10. LedgerHolds' /\ RequestsInStep' /\ Held' = Held
  <2>1. Held' = Held /\ SentOnceAndHeld'
    BY <1>1 DEF JsonInv, RequestsInStep, SentOnceAndHeld, Held
  <2>2. LedgerHolds'
    <3>1. \A r \in Requests : r[1] \in Tasks
      BY DEF Requests
    <3>. QED
      BY <1>1, <1>6, <1>8, <3>1 DEF JsonInv, LedgerHolds
  <2>3. RoundIsDrained'
    <3>1. Generated \subseteq Tasks
      BY JsonPlanAssumption
    <3>. QED
      BY <1>1, <1>8, <2>1, <3>1 DEF JsonInv, RequestsInStep, RoundIsDrained
  <2>. QED
    BY <2>1, <2>2, <2>3 DEF RequestsInStep
<1>. QED
  BY <1>1, <1>6, <1>7, <1>9, <1>10, DisturbedIs, BesideMoves

LEMMA OperatorForecastMoves ==
  ASSUME JsonInv, OperatorForecast
  PROVE  JsonInv'
<1>1. UNCHANGED <<plan, flow, saved, run, job, replaced>>
  BY DEF OperatorForecast, beyond, case
<1>2. PICK remaining : book' = Forecast(remaining)
  BY DEF OperatorForecast
<1>3. JsonTyped /\ BookTyped
  BY RunIs DEF JsonTyped
<1>4. /\ DOMAIN book' = DOMAIN book /\ book'.held = book.held /\ book'.billed = book.billed
      /\ book'.slot = book.slot /\ book'.rounds = book.rounds
  BY <1>2, <1>3, ForecastIs
<1>5. BookTyped'
  BY <1>3, <1>4 DEF BookTyped
<1>6. FlowTyped' /\ (\A t \in Tasks : TaskHolds(t))' /\ LedgerHolds' /\ RequestsInStep'
      /\ Held \subseteq Held'
  BY <1>1, <1>4, <1>5, BookKeeps
<1>7. SavedTyped' /\ (saved'.now.phase = "verify" /\ ~saved'.stale => AllAccepted')
  BY <1>1, RunIs DEF SavedTyped, AllAccepted, TaskSet
<1>. QED
  BY <1>1, <1>5, <1>6, <1>7, BesideMoves

-----------------------------------------------------------------------------
(* The invariant of the two files, their batch and its operators. *)

LEMMA JsonStays ==
  ASSUME JsonInv, UNCHANGED <<plan, flow, book, saved, run, job, replaced>>
  PROVE  JsonInv'
<1>1. RunHolds' /\ SweepHolds'
  <2>1. RunHolds'
    BY DEF JsonInv, RunHolds, IsLive, Held, Request, TaskSet
  <2>2. Confirmed => Confirmed'
    BY DEF Confirmed, TaskSet
  <2>. QED
    BY <2>1, <2>2 DEF JsonInv, SweepHolds, TaskSet, AllAccepted
<1>2. run' \in RunRecords /\ SavedTyped' /\ replaced' \subseteq TaskSet
  BY RunIs DEF SavedTyped
<1>. QED
  BY <1>1, <1>2, Quiet

LEMMA JsonStep ==
  ASSUME JsonInv, JsonNext
  PROVE  JsonInv'
<1>1. CASE BatchStep
  <2>1. CASE Start \/ Top \/ Skip \/ TakeUp \/ Turn \/ TimeIsUp
    BY <2>1, StartMoves, TopMoves, SkipMoves, TakeUpMoves, TurnMoves, TimeIsUpMoves
  <2>2. CASE AdvanceRound \/ Claim \/ RecordForecast \/ Reserve \/ RecordSubmitted \/ Submit
             \/ Observe
    BY <2>2, AdvanceRoundMoves, ClaimMoves, RecordForecastMoves, ReserveMoves,
       RecordSubmittedMoves, SubmitMoves, ObserveMoves
  <2>3. CASE RecordLost \/ Report \/ Judge \/ Accept \/ HoldLost \/ Bill \/ Settle
    BY <2>3, RecordsMove, BillsMove
  <2>4. CASE \/ Restamp \/ Restamped \/ SweepTask \/ SweepStale \/ SweepEnds \/ Complete
             \/ Refused
    BY <2>4, SweepMoves, MishapMoves
  <2>. QED
    BY <1>1, <2>1, <2>2, <2>3, <2>4 DEF BatchStep
<1>2. CASE Others
  BY <1>2, PauseMoves, InvalidateMoves, OperatorForecastMoves, MishapMoves DEF Others
<1>. QED
  BY <1>1, <1>2 DEF JsonNext

\* A cutover changes neither file.
LEMMA CutoverFrame ==
  ASSUME MigrationStep
  PROVE  UNCHANGED <<plan, beside, flow, book, saved, run, job, replaced, expired>>
BY DEF MigrationStep, Lock, Create, Register, Import, PublishReceipt, Activate, CutoverDies,
       Retire, Migrate, Recover, StoreWorks, jsonVars, jsonButLocks, case, documents

LEMMA MigrationKeepsJson ==
  ASSUME JsonInv, [MigrationNext]_allVars
  PROVE  JsonInv'
<1>1. CASE JsonNext
  BY <1>1, JsonStep
<1>2. CASE MigrationStep
  BY <1>2, CutoverFrame, JsonStays
<1>3. CASE UNCHANGED allVars
  BY <1>3, JsonStays DEF allVars, jsonVars
<1>. QED
  BY <1>1, <1>2, <1>3 DEF MigrationNext

(* The rows of the workflow, the ledger, the batch and what the provider    *)
(* has are in step wherever a process died between the two files.           *)
THEOREM JsonCorrect == MigrationSpec => []JsonInv
<1>1. MigrationInit => JsonInv
  BY JsonStarts DEF MigrationInit
<1>2. JsonInv /\ [MigrationNext]_allVars => JsonInv'
  BY MigrationKeepsJson
<1>. QED
  BY <1>1, <1>2, PTL DEF MigrationSpec

(* No request is ever sent twice, what was sent is held in the ledger, and  *)
(* open work that is paid for belongs to the round the ledger is in.        *)
THEOREM FilesInStep == MigrationSpec => []RequestsInStep
<1>1. JsonInv => RequestsInStep
  BY DEF JsonInv
<1>. QED
  BY <1>1, JsonCorrect, PTL

-----------------------------------------------------------------------------
(* The sweep. *)

\* Only the last comparison of a sweep completes the production.
LEMMA OnlySweepsComplete ==
  ASSUME JsonInv, JsonNext, saved'.now.phase = "complete", saved.now.phase # "complete"
  PROVE  Complete
<1>1. /\ \A n : Work(n).phase = "work" /\ Sweep(n).phase = "verify"
      /\ Advanced.phase = "work" /\ run.at.phase \in {"work", "verify"}
  BY RunIs DEF Work, Sweep, Advanced
<1>2. \A now, stale : Saves(now, stale) => saved'.now = now
  BY DEF Saves
<1>3. ~Start
  BY <1>1, <1>2 DEF Start
<1>4. ~Top
  BY <1>1, <1>2 DEF Top
<1>5. ~TakeUp /\ ~Turn /\ ~TimeIsUp /\ ~SweepStale /\ ~SweepEnds /\ ~Restamp
  BY <1>1, <1>2 DEF TakeUp, Turn, TimeIsUp, SweepStale, SweepEnds, Restamp
<1>6. ~HoldLost /\ ~Bill /\ ~Settle
  BY <1>1, <1>2 DEF HoldLost, Bill, Settle, Leaves
<1>7. saved' # saved
  OBVIOUS
<1>8. ~Refused /\ ~Skip /\ ~AdvanceRound /\ ~Claim /\ ~RecordForecast /\ ~Reserve /\ ~SweepTask
      /\ ~RecordSubmitted /\ ~Submit /\ ~RecordLost /\ ~Observe /\ ~Report /\ ~Judge /\ ~Accept
      /\ ~Restamped
  BY <1>7 DEF Restamped, Refused, Skip, AdvanceRound, Claim, RecordForecast, Reserve, SweepTask,
              RecordSubmitted, Submit, RecordLost, Observe, Report, Judge, Accept
<1>9. ~Dies /\ ~OperatorForecast /\ ~AuthorizationExpires /\ \A t : ~Replace(t)
  BY <1>7 DEF Dies, OperatorForecast, AuthorizationExpires, Replace
<1>10. ~Disturbs
  BY DisturbedIs
<1>11. ~Pause /\ \A t : ~Invalidate(t)
  BY <1>10 DEF Pause, Invalidate
<1>. QED
  BY <1>3, <1>4, <1>5, <1>6, <1>8, <1>9, <1>11 DEF JsonNext, BatchStep, Others

(* A production is reported complete only if, at the last comparison of the *)
(* workflow's digest, everything was accepted and every accepted file was   *)
(* in its place.                                                            *)
THEOREM SweptIsAcceptedAlways == MigrationSpec => SweptIsAccepted
<1>1. JsonInv /\ [MigrationNext]_allVars =>
        [saved'.now.phase = "complete" /\ saved.now.phase # "complete"
           => run.asof = [accepted |-> TaskSet, replaced |-> {}]]_jsonVars
  <2>. SUFFICES ASSUME JsonInv, [MigrationNext]_allVars,
                       saved'.now.phase = "complete", saved.now.phase # "complete"
                PROVE  run.asof = [accepted |-> TaskSet, replaced |-> {}]
    OBVIOUS
  <2>1. saved' # saved
    OBVIOUS
  <2>2. JsonNext
    BY <2>1, CutoverFrame DEF MigrationNext, allVars, jsonVars
  <2>3. Complete
    BY <2>2, OnlySweepsComplete
  <2>4. JsonTyped /\ plan \in Seq(Tasks) /\ plan # <<>> /\ replaced \subseteq TaskSet
    BY RunIs DEF JsonTyped
  <2>5. Len(plan) \in Nat /\ DOMAIN plan = 1..Len(plan)
    BY <2>4, PlanTasks
  <2>6. Confirmed /\ run.stamped = Len(plan)
    BY <2>3 DEF Complete, At, JsonInv, SweepHolds
  <2>7. run.asof.replaced = {}
    BY <2>4, <2>5, <2>6 DEF Confirmed, TaskSet, Range
  <2>8. run.asof \in [accepted: SUBSET Tasks, replaced: SUBSET Tasks]
    BY RunIs DEF RunRecords
  <2>. QED
    BY <2>6, <2>7, <2>8 DEF Confirmed
<1>. QED
  BY <1>1, JsonCorrect, PTL DEF MigrationSpec, SweptIsAccepted

-----------------------------------------------------------------------------
(* The refinement of the abstract budget. *)

ChargeState == [r \in Requests |-> IF book.held[r] = "none" THEN "open"
                                   ELSE IF book.held[r] = "settled" THEN "billed" ELSE "reserved"]

LEMMA SameSumOver ==
  ASSUME NEW f, NEW S
  PROVE  LedgerBudget!SumOver(f, S) = SumOver(f, S)
BY Zenon DEF SumOver, FoldFunctionOnSet, MapThenFoldSet,
             LedgerBudget!SumOver, LedgerBudget!FoldFunctionOnSet, LedgerBudget!MapThenFoldSet

\* The sums the readers of the ledger make are those of the abstract budget.
LEMMA SameSums ==
  /\ LedgerBudget!Taken = Held
  /\ LedgerBudget!Committed(LedgerBudget!Taken) = Units(book)
  /\ LedgerBudget!Committed(LedgerBudget!OnRoute("route")) = Units(book)
  /\ LedgerBudget!FramesTaken = FramesTaken
<1>1. \A r \in Requests : /\ ChargeState[r] # "open" <=> book.held[r] # "none"
                          /\ ChargeState[r] = "billed" <=> book.held[r] = "settled"
  BY DEF ChargeState
<1>2. LedgerBudget!Taken = {r \in Requests : ChargeState[r] # "open"}
  BY DEF LedgerBudget!Taken, ChargeState
<1>3. LedgerBudget!Taken = Held
  BY <1>1, <1>2 DEF Held
<1>4. LedgerBudget!OnRoute("route") = Held
  <2>1. LedgerBudget!OnRoute("route")
          = {r \in LedgerBudget!Taken : [q \in Requests |-> "route"][r] = "route"}
    BY DEF LedgerBudget!OnRoute
  <2>. QED
    BY <1>3, <2>1 DEF Held
<1>5. LedgerBudget!Units = [r \in Requests |-> Cost(book, r)]
  <2>1. LedgerBudget!Units = [r \in Requests |-> IF ChargeState[r] = "billed" THEN book.billed[r]
                                                 ELSE [q \in Requests |-> Worst[q[1]]][r]]
    BY DEF LedgerBudget!Units, ChargeState
  <2>. QED
    BY <1>1, <2>1 DEF Cost
<1>6. \A S : LedgerBudget!Committed(S) = SumOver([r \in Requests |-> Cost(book, r)], S)
  BY <1>5, SameSumOver DEF LedgerBudget!Committed
<1>7. Units(book) = SumOver([r \in Requests |-> Cost(book, r)], Held)
  BY DEF Units, Held
<1>8. LedgerBudget!FramesTaken = FramesTaken
  BY <1>3, SameSumOver DEF LedgerBudget!FramesTaken, FramesTaken
<1>. QED
  BY <1>3, <1>4, <1>6, <1>7, <1>8

\* A reservation the ledger admits is one of the abstract budget.
LEMMA ReservesCharge ==
  ASSUME JsonTyped, NEW r \in Requests, book.held[r] = "none", NEW round,
         WithinBudget(r[1]), book' = Reserved(r, round)
  PROVE  LedgerBudget!ReserveCharge(r)
<1>1. /\ book'.held = [book.held EXCEPT ![r] = "reserved"] /\ book'.billed = book.billed
  BY ReservedIs
<1>2. book.held \in [Requests -> Holdings]
  BY DEF JsonTyped, BookTyped
<1>3. ChargeState[r] = "open" /\ ChargeState' = [ChargeState EXCEPT ![r] = "reserved"]
  <2>1. ChargeState[r] = "open" /\ ChargeState'[r] = "reserved"
    BY <1>1, <1>2 DEF ChargeState
  <2>2. \A q \in Requests : q # r => ChargeState'[q] = ChargeState[q]
    BY <1>1, <1>2 DEF ChargeState
  <2>3. ChargeState' \in [Requests -> {"open", "billed", "reserved"}]
        /\ ChargeState \in [Requests -> {"open", "billed", "reserved"}]
    BY DEF ChargeState
  <2>. HIDE DEF ChargeState
  <2>. QED
    BY <2>1, <2>2, <2>3
<1>4. /\ Units(book) + Worst[r[1]] + CleanupUnits <= TotalUnits
      /\ Units(book) + Worst[r[1]] <= RouteLimit
      /\ FramesTaken + Frames[r[1]] <= MaxFrames
  BY DEF WithinBudget
<1>5. /\ LedgerBudget!Committed(LedgerBudget!Taken) + Worst[r[1]] + CleanupUnits <= TotalUnits
      /\ LedgerBudget!Committed(LedgerBudget!OnRoute("route")) + Worst[r[1]] <= RouteLimit
      /\ LedgerBudget!FramesTaken + Frames[r[1]] <= MaxFrames
  BY <1>4, SameSums, Zenon
<1>6. /\ [q \in Requests |-> "route"][r] = "route" /\ [q \in Requests |-> Worst[q[1]]][r] = Worst[r[1]]
      /\ [q \in Requests |-> Frames[q[1]]][r] = Frames[r[1]]
      /\ [rt \in {"route"} |-> RouteLimit]["route"] = RouteLimit
  OBVIOUS
<1>. QED
  BY <1>1, <1>3, <1>5, <1>6 DEF LedgerBudget!ReserveCharge, ChargeState

\* A first bill is a bill of the abstract budget; the same bill again, and a doubt, change nothing.
LEMMA ReconcilesCharge ==
  ASSUME JsonTyped, NEW r \in Requests, book.held[r] # "none",
         NEW units, units = NoBill \/ units \in 0..Worst[r[1]], Reconcilable(r, units),
         book' = Reconciled(r, units)
  PROVE  LedgerBudget!BillCharge(r) \/ (ChargeState' = ChargeState /\ book'.billed = book.billed)
<1>1. /\ book'.held = IF units # NoBill THEN [book.held EXCEPT ![r] = "settled"]
                      ELSE IF book.held[r] = "settled" THEN book.held
                      ELSE [book.held EXCEPT ![r] = "unknown"]
      /\ book'.billed = IF units # NoBill THEN [book.billed EXCEPT ![r] = units] ELSE book.billed
  BY ReconciledIs
<1>2. book.held \in [Requests -> Holdings] /\ book.billed \in [Requests -> Nat]
  BY DEF JsonTyped, BookTyped
<1>3. CASE units = NoBill
  <2>1. \A q \in Requests : /\ book'.held[q] = "none" <=> book.held[q] = "none"
                            /\ book'.held[q] = "settled" <=> book.held[q] = "settled"
    BY <1>1, <1>2, <1>3
  <2>. QED
    BY <1>1, <1>3, <2>1 DEF ChargeState
<1>4. CASE units # NoBill /\ book.held[r] = "settled"
  <2>1. book.billed[r] = units
    BY <1>4 DEF Reconcilable
  <2>2. book'.held = book.held /\ book'.billed = book.billed
    BY <1>1, <1>2, <1>4, <2>1
  <2>. QED
    BY <2>2 DEF ChargeState
<1>5. CASE units # NoBill /\ book.held[r] # "settled"
  <2>1. ChargeState[r] = "reserved" /\ ChargeState'[r] = "billed"
    BY <1>1, <1>2, <1>5 DEF ChargeState
  <2>2. \A q \in Requests : q # r => ChargeState'[q] = ChargeState[q]
    BY <1>1, <1>2 DEF ChargeState
  <2>3. ChargeState' \in [Requests -> {"open", "billed", "reserved"}]
        /\ ChargeState \in [Requests -> {"open", "billed", "reserved"}]
    BY DEF ChargeState
  <2>4. ChargeState' = [ChargeState EXCEPT ![r] = "billed"]
    <3>. HIDE DEF ChargeState
    <3>. QED
      BY <2>1, <2>2, <2>3
  <2>5. units \in 0..[q \in Requests |-> Worst[q[1]]][r]
        /\ book'.billed = [book.billed EXCEPT ![r] = units]
    BY <1>1, <1>5
  <2>6. LedgerBudget!BillCharge(r)
    BY <2>1, <2>4, <2>5 DEF LedgerBudget!BillCharge, ChargeState
  <2>. QED
    BY <2>6
<1>. QED
  BY <1>3, <1>4, <1>5

\* The book moves with a reservation, with what the provider said of a bill, and otherwise in
\* its rounds and its forecast alone.
LEMMA MoneyMoves ==
  ASSUME JsonInv, JsonNext
  PROVE  \/ \E ch \in Requests : LedgerBudget!ReserveCharge(ch) \/ LedgerBudget!BillCharge(ch)
         \/ ChargeState' = ChargeState /\ book'.billed = book.billed
<1>1. JsonTyped /\ BookTyped
  BY RunIs DEF JsonTyped
<1>2. ASSUME book' = book PROVE ChargeState' = ChargeState /\ book'.billed = book.billed
  BY <1>2 DEF ChargeState
<1>3. ASSUME book'.held = book.held, book'.billed = book.billed
      PROVE  ChargeState' = ChargeState /\ book'.billed = book.billed
  BY <1>3 DEF ChargeState
<1>4. CASE Reserve
  <2>1. run.pc = "reserve" /\ run.pc \in Busy
    BY <1>4 DEF Reserve, Writing, At, Busy
  <2>2. CASE book' = book
    BY <1>2, <2>2
  <2>3. CASE /\ Request \notin Held /\ Reservable(run.task, run.round)
             /\ book' = Reserved(Request, run.round)
    <3>1. run.epoch = flow.tasks[run.task].last /\ run.epoch >= 1 /\ run.task \in Tasks
          /\ TaskHolds(run.task)
      BY <2>1, BusyIs DEF JsonInv, RunHolds
    <3>2. Current(run.task) \in Requests /\ Current(run.task) = Request
      BY <1>1, <3>1, CurrentIs DEF Current, Request
    <3>3. PICK r \in Requests : r = Request /\ r[1] = run.task
      BY <3>2 DEF Request
    <3>4. book.held[r] = "none" /\ WithinBudget(r[1]) /\ book' = Reserved(r, run.round)
      BY <2>3, <3>3 DEF Reservable, Held
    <3>5. LedgerBudget!ReserveCharge(r)
      BY <1>1, <3>4, ReservesCharge
    <3>. QED
      BY <3>5
  <2>. QED
    BY <1>4, <2>2, <2>3 DEF Reserve, Task
<1>5. CASE HoldLost \/ Bill \/ Settle
  <2>1. run.pc \in Paid /\ run.pc \in Busy
    BY <1>5 DEF HoldLost, Bill, Settle, Writing, At, Busy, Paid, Reporting
  <2>2. run.task \in Tasks /\ Request \in Requests /\ book.held[Request] # "none"
        /\ Request[1] = run.task
    BY <2>1, BusyIs DEF Request
  <2>3. PICK units : /\ units = NoBill \/ units \in Bills[run.task]
                     /\ Reconcilable(Request, units) /\ book' = Reconciled(Request, units)
    <3>1. CASE HoldLost
      BY <3>1 DEF HoldLost, Reconcilable
    <3>2. CASE Bill \/ Settle
      BY <3>2 DEF Bill, Settle, Writing, At, JsonInv, RunHolds, Reporting
    <3>. QED
      BY <1>5, <3>1, <3>2
  <2>4. units = NoBill \/ units \in 0..Worst[Request[1]]
    BY <2>2, <2>3, BillsAre
  <2>. QED
    BY <1>1, <2>2, <2>3, <2>4, ReconcilesCharge
<1>6. CASE AdvanceRound
  <2>1. book'.held = book.held /\ book'.billed = book.billed
    BY <1>1, <1>6 DEF AdvanceRound, BookTyped
  <2>. QED
    BY <1>3, <2>1
<1>7. CASE RecordForecast \/ OperatorForecast
  <2>1. book'.held = book.held /\ book'.billed = book.billed
    BY <1>1, <1>7, ForecastIs DEF RecordForecast, OperatorForecast
  <2>. QED
    BY <1>3, <2>1
<1>8. CASE \/ Start \/ Refused \/ Top \/ Skip \/ TakeUp \/ Turn \/ TimeIsUp \/ Claim
           \/ RecordSubmitted \/ Submit \/ RecordLost \/ Observe \/ Report \/ Judge \/ Accept
           \/ Restamp \/ Restamped \/ SweepTask \/ SweepStale \/ SweepEnds \/ Complete
  <2>1. book' = book
    BY <1>8 DEF Start, Refused, Top, Skip, TakeUp, Turn, TimeIsUp, Claim, RecordSubmitted, Submit,
                RecordLost, Observe, Report, Judge, Accept, Restamp, Restamped, SweepTask, SweepStale,
                SweepEnds, Complete, documents
  <2>. QED
    BY <1>2, <2>1
<1>9. CASE Dies \/ Pause \/ AuthorizationExpires \/ \E t \in TaskSet : Invalidate(t) \/ Replace(t)
  <2>1. book' = book
    BY <1>9 DEF Dies, Pause, AuthorizationExpires, Invalidate, Replace, documents
  <2>. QED
    BY <1>2, <2>1
<1>. QED
  BY <1>4, <1>5, <1>6, <1>7, <1>8, <1>9 DEF JsonNext, BatchStep, Others

(* What the readers of the ledger add up anew each time never commits more  *)
(* than was authorized, each charge is billed at most once and not above    *)
(* its worst case, and nothing but a bill frees money.                      *)
THEOREM LedgerIsBudget == MigrationSpec => LedgerImplementsBudget
<1>1. MigrationInit => LedgerBudget!Init
  <2>. SUFFICES ASSUME MigrationInit PROVE LedgerBudget!Init
    OBVIOUS
  <2>1. book.held = [r \in Requests |-> "none"] /\ book.billed = [r \in Requests |-> 0]
    BY DEF MigrationInit, JsonInit
  <2>. QED
    BY <2>1 DEF LedgerBudget!Init
<1>2. JsonInv /\ [MigrationNext]_allVars => [LedgerBudget!Next]_(LedgerBudget!bvars)
  <2>. SUFFICES ASSUME JsonInv, [MigrationNext]_allVars
                PROVE  [LedgerBudget!Next]_(LedgerBudget!bvars)
    OBVIOUS
  <2>1. ASSUME ChargeState' = ChargeState, book'.billed = book.billed
        PROVE  UNCHANGED LedgerBudget!bvars
    BY <2>1 DEF LedgerBudget!bvars, ChargeState
  <2>2. CASE JsonNext
    BY <2>1, <2>2, MoneyMoves DEF LedgerBudget!Next
  <2>3. CASE MigrationStep \/ UNCHANGED allVars
    <3>1. book' = book
      BY <2>3, CutoverFrame DEF allVars, jsonVars
    <3>. QED
      BY <2>1, <3>1 DEF ChargeState
  <2>. QED
    BY <2>2, <2>3 DEF MigrationNext
<1>. QED
  BY <1>1, <1>2, JsonCorrect, PTL
  DEF MigrationSpec, LedgerImplementsBudget, LedgerBudget!Spec

-----------------------------------------------------------------------------
(* The cutover. *)

\* What was declared of the files: nothing in them is open, and every claim has its money.
QuiescentIn(tasks, declared) ==
  /\ \A t \in tasks : declared.flow.tasks[t].status \notin Live
  /\ Cardinality({r \in Requests : declared.book.held[r] # "none"})
       = SumOver([t \in tasks |-> declared.flow.tasks[t].tries], tasks)

Sealed == {"sealed_prepared", "active"}
Activations == {"none", "building"} \cup Sealed
CutoverTyped ==
  /\ DOMAIN target = Targets
  /\ \A d \in Targets : DOMAIN target[d] = DOMAIN NoTarget /\ target[d].activation \in Activations
  /\ cutover.pc \in {"off", "lock", "create", "register", "import", "receipt", "retire"}
  /\ cutover.pc # "off" => /\ DOMAIN cutover = {"pc", "target", "of", "recovers"}
                           /\ cutover.target \in Targets

\* A sealed store is the one the registry names; an active one has the files as they were.
TargetHolds(d) ==
  /\ target[d].activation \in Sealed =>
       registered = {d} /\ QuiescentIn(TaskSet, target[d].imported)
  /\ target[d].receipt => target[d].activation \in Sealed
  /\ target[d].activation = "active" => retired = Files /\ Identity = target[d].imported

\* Under the locks the files are what the command has declared, and its target is where the
\* command believes it to be.
CommandHolds ==
  /\ locked <=> cutover.pc \notin {"off", "lock"}
  /\ cutover.pc # "off" => QuiescentIn(TaskSet, cutover.of)
  /\ cutover.pc \notin {"off", "lock"} => cutover.of = Identity
  /\ cutover.pc = "lock" /\ cutover.recovers => target[cutover.target].imported = cutover.of
  /\ cutover.pc = "register" => registered = {}
  /\ cutover.pc = "import" => registered = {cutover.target}
  /\ cutover.pc \in {"register", "import"} => target[cutover.target].activation = "building"
  /\ cutover.pc \in {"receipt", "retire"} => /\ target[cutover.target].activation \in Sealed
                                             /\ target[cutover.target].imported = cutover.of

CutoverInv == CutoverTyped /\ (\A d \in Targets : TargetHolds(d)) /\ CommandHolds

\* Every writer of a file takes its lock and looks for its retirement marker.
LEMMA WritersStop ==
  ASSUME JsonNext
  PROVE  /\ UNCHANGED <<plan, beside, retired, locked>>
         /\ locked \/ retired = Files => UNCHANGED <<flow, book>>
<1>1. UNCHANGED <<plan, beside, retired, locked>>
  BY ZenonT(60) DEF JsonNext, BatchStep, Others, Start, Refused, Top, Skip, TakeUp, Turn, TimeIsUp,
         AdvanceRound, Claim, RecordForecast, Reserve, RecordSubmitted, Submit, RecordLost,
         HoldLost, Observe, Report, Bill, Judge, Accept, Settle, Restamp, Restamped, SweepTask,
         SweepStale, SweepEnds, Complete, Dies, Pause, OperatorForecast, AuthorizationExpires, Invalidate, Replace,
         beyond, case
<1>2. ASSUME locked \/ retired = Files
      PROVE  /\ \A pc \in WritesFlow \cup WritesBook : ~Writing(pc)
             /\ ~Writes("workflow") /\ ~Writes("ledger")
  BY <1>2 DEF Writing, At, Blocked, Conflicts, Writes, Files
<1>3. {"claim", "submitted", "lost", "report", "judge", "accept", "round", "forecast", "reserve",
       "lostbill", "bill", "settle"} \subseteq WritesFlow \cup WritesBook
  BY DEF WritesFlow, WritesBook
<1>4. ASSUME locked \/ retired = Files PROVE UNCHANGED <<flow, book>>
  <2>1. ~(\/ AdvanceRound \/ Claim \/ RecordForecast \/ Reserve \/ RecordSubmitted \/ RecordLost
          \/ HoldLost \/ Report \/ Bill \/ Judge \/ Accept \/ Settle)
    BY <1>2, <1>3, <1>4
    DEF AdvanceRound, Claim, RecordForecast, Reserve, RecordSubmitted, RecordLost, HoldLost,
        Report, Bill, Judge, Accept, Settle
  <2>2. ~Pause /\ ~OperatorForecast /\ \A t : ~Invalidate(t)
    BY <1>2, <1>4 DEF Pause, OperatorForecast, Invalidate
  <2>3. CASE \/ Start \/ Refused \/ Top \/ Skip \/ TakeUp \/ Turn \/ TimeIsUp \/ Submit \/ Observe
             \/ Restamp \/ Restamped \/ SweepTask \/ SweepStale \/ SweepEnds \/ Complete
    BY <2>3 DEF Start, Refused, Top, Skip, TakeUp, Turn, TimeIsUp, Submit, Observe, Restamp,
                Restamped, SweepTask, SweepStale, SweepEnds, Complete, documents
  <2>4. CASE Dies \/ AuthorizationExpires \/ \E t \in TaskSet : Replace(t)
    BY <2>4 DEF Dies, AuthorizationExpires, Replace, documents
  <2>. QED
    BY <2>1, <2>2, <2>3, <2>4 DEF JsonNext, BatchStep, Others
<1>. QED
  BY <1>1, <1>4

\* What goes on beside a cutover leaves it alone.
LEMMA BesideCutover ==
  ASSUME CutoverInv, UNCHANGED <<plan, retired, locked, target, registered, cutover>>,
         locked \/ retired = Files => UNCHANGED <<flow, book>>
  PROVE  CutoverInv'
<1>1. TaskSet' = TaskSet /\ (locked \/ retired = Files => Identity' = Identity)
  BY DEF TaskSet, Identity
<1>2. CutoverTyped'
  BY DEF CutoverInv, CutoverTyped
<1>3. (\A d \in Targets : TargetHolds(d))'
  BY <1>1 DEF CutoverInv, TargetHolds
<1>4. CommandHolds'
  BY <1>1 DEF CutoverInv, CommandHolds
<1>. QED
  BY <1>2, <1>3, <1>4 DEF CutoverInv

\* The command stops, and the locks are free.
LEMMA StopMoves ==
  ASSUME CutoverInv, Stops, UNCHANGED <<plan, flow, book, retired, target, registered>>
  PROVE  CutoverInv'
<1>1. TaskSet' = TaskSet /\ Identity' = Identity /\ cutover'.pc = "off" /\ ~locked'
  BY DEF TaskSet, Identity, Stops, NoCutover
<1>2. CutoverTyped'
  BY <1>1 DEF CutoverInv, CutoverTyped
<1>3. (\A d \in Targets : TargetHolds(d))'
  BY <1>1 DEF CutoverInv, TargetHolds
<1>4. CommandHolds'
  BY <1>1 DEF CommandHolds
<1>. QED
  BY <1>2, <1>3, <1>4 DEF CutoverInv

\* The fields of a command that goes on.
LEMMA MovesOn ==
  ASSUME CutoverTyped, cutover.pc # "off", NEW pc, Moves(pc)
  PROVE  /\ cutover'.pc = pc /\ cutover'.target = cutover.target /\ cutover'.of = cutover.of
         /\ cutover'.recovers = cutover.recovers
         /\ DOMAIN cutover' = {"pc", "target", "of", "recovers"} /\ cutover.target \in Targets
BY DEF CutoverTyped, Moves

LEMMA MigrateMoves ==
  ASSUME JsonInv, CutoverInv, NEW d \in Targets, Migrate(d) \/ Recover(d)
  PROVE  CutoverInv'
<1>1. UNCHANGED <<plan, flow, book, retired, locked, target, registered>> /\ cutover.pc = "off"
  BY DEF Migrate, Recover, jsonVars, case, Step
<1>2. TaskSet' = TaskSet /\ Identity' = Identity
  BY <1>1 DEF TaskSet, Identity
<1>3. PICK declared, recovers :
        /\ cutover' = [pc |-> "lock", target |-> d, of |-> declared, recovers |-> recovers]
        /\ QuiescentIn(TaskSet, declared)
        /\ recovers => target[d].imported = declared
  <2>1. CASE Migrate(d)
    <3>1. QuiescentIn(TaskSet, Identity)
      BY <2>1 DEF Migrate, Quiescent, QuiescentIn, Identity, IsLive, Held
    <3>. QED
      BY <2>1, <3>1 DEF Migrate
  <2>2. CASE Recover(d)
    <3>1. QuiescentIn(TaskSet, target[d].imported)
      BY <2>2 DEF Recover, CutoverInv, TargetHolds
    <3>. QED
      BY <2>2, <3>1 DEF Recover
  <2>. QED
    BY <2>1, <2>2
<1>4. /\ cutover'.pc = "lock" /\ cutover'.target = d /\ cutover'.of = declared
      /\ cutover'.recovers = recovers /\ DOMAIN cutover' = {"pc", "target", "of", "recovers"}
  BY <1>3
<1>5. CutoverTyped'
  BY <1>1, <1>4 DEF CutoverInv, CutoverTyped
<1>6. (\A e \in Targets : TargetHolds(e))'
  BY <1>1, <1>2 DEF CutoverInv, TargetHolds
<1>7. CommandHolds'
  BY <1>1, <1>2, <1>3, <1>4 DEF CutoverInv, CommandHolds
<1>. QED
  BY <1>5, <1>6, <1>7 DEF CutoverInv

LEMMA LockMoves ==
  ASSUME CutoverInv, Lock
  PROVE  CutoverInv'
<1>1. UNCHANGED <<plan, flow, book, retired, target, registered>> /\ cutover.pc = "lock"
  BY DEF Lock, jsonButLocks, case, documents, Step
<1>2. TaskSet' = TaskSet /\ Identity' = Identity
  BY <1>1 DEF TaskSet, Identity
<1>3. CASE Stops
  BY <1>1, <1>3, StopMoves
<1>4. CASE /\ StillDeclared /\ (cutover.recovers => Recoverable(cutover.target))
           /\ locked' = TRUE
           /\ Moves(IF cutover.recovers THEN "retire" ELSE "create")
  <2>1. PICK pc \in {"retire", "create"} :
          Moves(pc) /\ (pc = "retire" <=> cutover.recovers)
    BY <1>4
  <2>2. /\ cutover'.pc = pc /\ cutover'.target = cutover.target /\ cutover'.of = cutover.of
        /\ DOMAIN cutover' = {"pc", "target", "of", "recovers"} /\ cutover.target \in Targets
    BY <1>1, <2>1, MovesOn DEF CutoverInv
  <2>3. CutoverTyped'
    BY <1>1, <2>1, <2>2 DEF CutoverInv, CutoverTyped
  <2>4. (\A e \in Targets : TargetHolds(e))'
    BY <1>1, <1>2 DEF CutoverInv, TargetHolds
  <2>5. pc = "retire" => /\ target[cutover.target].activation \in Sealed
                         /\ target[cutover.target].imported = cutover.of
    BY <1>1, <1>4, <2>1 DEF Recoverable, Sealed, CutoverInv, CommandHolds
  <2>6. CommandHolds'
    BY <1>1, <1>2, <1>4, <2>1, <2>2, <2>5 DEF CutoverInv, CommandHolds, StillDeclared
  <2>. QED
    BY <2>3, <2>4, <2>6 DEF CutoverInv
<1>. QED
  BY <1>3, <1>4 DEF Lock

\* A target after a step that changes some of its fields, and no other target.
LEMMA OneTarget ==
  ASSUME CutoverTyped, NEW d \in Targets, NEW new, DOMAIN new = DOMAIN NoTarget,
         new.activation \in Activations, target' = [target EXCEPT ![d] = new]
  PROVE  /\ DOMAIN target' = Targets /\ (\A e \in Targets : DOMAIN target'[e] = DOMAIN NoTarget)
         /\ (\A e \in Targets : target'[e].activation \in Activations)
         /\ target'[d] = new /\ \A e \in Targets \ {d} : target'[e] = target[e]
BY DEF CutoverTyped

LEMMA CreateMoves ==
  ASSUME CutoverInv, Create
  PROVE  CutoverInv'
<1>1. UNCHANGED <<plan, flow, book, retired, registered>> /\ cutover.pc = "create"
  BY DEF Create, jsonButLocks, case, documents, Step
<1>2. TaskSet' = TaskSet /\ Identity' = Identity
  BY <1>1 DEF TaskSet, Identity
<1>3. CutoverTyped /\ cutover.target \in Targets
  BY <1>1 DEF CutoverInv, CutoverTyped
<1>4. PICK d \in Targets : d = cutover.target
  BY <1>3
<1>5. PICK old : old = target[d] /\ DOMAIN old = {"activation", "imported", "receipt",
                                                   "otherIntent", "worked"}
  BY <1>3 DEF CutoverTyped, NoTarget
<1>6. PICK other, creates \in BOOLEAN :
        /\ target' = [target EXCEPT ![d].otherIntent = other,
                                    ![d].activation = IF creates THEN "building" ELSE @]
        /\ creates => registered = {} /\ old.activation = "none"
        /\ IF creates THEN Moves("register") /\ UNCHANGED locked ELSE Stops
  BY <1>4, <1>5 DEF Create
<1>7. PICK activation : activation = IF creates THEN "building" ELSE old.activation
  OBVIOUS
<1>8. PICK new : new = [[old EXCEPT !.otherIntent = other] EXCEPT !.activation = activation]
  OBVIOUS
<1>9. /\ DOMAIN new = DOMAIN NoTarget /\ new.activation = activation
      /\ new.imported = old.imported /\ new.receipt = old.receipt
  BY <1>5, <1>8 DEF NoTarget
<1>10. target' = [target EXCEPT ![d] = new]
  <2>1. PICK between : between = [target EXCEPT ![d].otherIntent = other]
    OBVIOUS
  <2>6. PICK half : half = [old EXCEPT !.otherIntent = other]
    OBVIOUS
  <2>2. half = [old EXCEPT !.otherIntent = other] /\ half.activation = old.activation
    BY <1>5, <2>6
  <2>3. between = [target EXCEPT ![d] = half] /\ between[d] = half
    BY <1>3, <1>5, <2>1, <2>2 DEF CutoverTyped
  <2>4. target' = [between EXCEPT ![d] = [half EXCEPT !.activation = activation]]
    BY <1>6, <1>7, <2>1, <2>2, <2>3
  <2>5. new = [half EXCEPT !.activation = activation]
    BY <1>8, <2>2
  <2>. QED
    BY <2>3, <2>4, <2>5
<1>11. /\ DOMAIN target' = Targets /\ (\A e \in Targets : DOMAIN target'[e] = DOMAIN NoTarget)
       /\ (\A e \in Targets : target'[e].activation \in Activations)
       /\ target'[d] = new /\ \A e \in Targets \ {d} : target'[e] = target[e]
  BY <1>3, <1>5, <1>7, <1>9, <1>10, OneTarget DEF CutoverTyped, Activations
<1>12. (\A e \in Targets : TargetHolds(e))'
  <2>1. ASSUME NEW e \in Targets PROVE TargetHolds(e)'
    <3>1. CASE e # d
      BY <1>1, <1>2, <1>11, <3>1 DEF CutoverInv, TargetHolds
    <3>2. CASE e = d /\ ~creates
      BY <1>1, <1>2, <1>5, <1>7, <1>9, <1>11, <3>2 DEF CutoverInv, TargetHolds
    <3>3. CASE e = d /\ creates
      <4>1. ~old.receipt
        BY <1>5, <1>6, <3>3 DEF CutoverInv, TargetHolds, Sealed
      <4>. QED
        BY <1>7, <1>9, <1>11, <3>3, <4>1 DEF TargetHolds, Sealed
    <3>. QED
      BY <3>1, <3>2, <3>3
  <2>. QED
    BY <2>1
<1>13. CASE creates
  <2>1. /\ cutover'.pc = "register" /\ cutover'.target = cutover.target /\ cutover'.of = cutover.of
        /\ DOMAIN cutover' = {"pc", "target", "of", "recovers"} /\ locked' = locked
    BY <1>1, <1>3, <1>6, <1>13, MovesOn
  <2>2. CutoverTyped'
    BY <1>3, <1>11, <2>1 DEF CutoverTyped
  <2>3. CommandHolds'
    BY <1>1, <1>2, <1>4, <1>6, <1>7, <1>9, <1>11, <1>13, <2>1 DEF CutoverInv, CommandHolds
  <2>. QED
    BY <1>12, <2>2, <2>3 DEF CutoverInv
<1>14. CASE ~creates
  <2>1. cutover'.pc = "off" /\ ~locked'
    BY <1>6, <1>14 DEF Stops, NoCutover
  <2>2. CutoverTyped' /\ CommandHolds'
    BY <1>11, <2>1 DEF CutoverTyped, CommandHolds
  <2>. QED
    BY <1>12, <2>2 DEF CutoverInv
<1>. QED
  BY <1>13, <1>14

LEMMA RegisterMoves ==
  ASSUME CutoverInv, Register
  PROVE  CutoverInv'
<1>1. UNCHANGED <<plan, flow, book, retired, locked, target>> /\ cutover.pc = "register"
      /\ registered' = {cutover.target} /\ Moves("import")
  BY DEF Register, jsonVars, case, Step
<1>2. TaskSet' = TaskSet /\ Identity' = Identity
  BY <1>1 DEF TaskSet, Identity
<1>3. /\ cutover'.pc = "import" /\ cutover'.target = cutover.target /\ cutover'.of = cutover.of
      /\ DOMAIN cutover' = {"pc", "target", "of", "recovers"} /\ cutover.target \in Targets
  BY <1>1, MovesOn DEF CutoverInv
<1>4. CutoverTyped'
  BY <1>1, <1>3 DEF CutoverInv, CutoverTyped
<1>5. registered = {}
  BY <1>1 DEF CutoverInv, CommandHolds
<1>6. \A d \in Targets : target[d].activation \notin Sealed
  BY <1>5 DEF CutoverInv, TargetHolds
<1>7. (\A d \in Targets : TargetHolds(d))'
  BY <1>1, <1>6 DEF CutoverInv, TargetHolds, Sealed
<1>8. CommandHolds'
  BY <1>1, <1>2, <1>3 DEF CutoverInv, CommandHolds
<1>. QED
  BY <1>4, <1>7, <1>8 DEF CutoverInv

LEMMA ImportMoves ==
  ASSUME CutoverInv, Import
  PROVE  CutoverInv'
<1>1. UNCHANGED <<plan, flow, book, retired, registered>> /\ cutover.pc = "import"
  BY DEF Import, jsonButLocks, case, documents, Step
<1>2. TaskSet' = TaskSet /\ Identity' = Identity
  BY <1>1 DEF TaskSet, Identity
<1>3. CutoverTyped
  BY DEF CutoverInv
<1>4. PICK d \in Targets : d = cutover.target
  BY <1>1 DEF CutoverInv, CutoverTyped
<1>5. PICK old : old = target[d] /\ DOMAIN old = {"activation", "imported", "receipt",
                                                   "otherIntent", "worked"}
  BY <1>3 DEF CutoverTyped, NoTarget
<1>6. CASE Stops /\ target' = target
  BY <1>1, <1>6, StopMoves
<1>7. CASE /\ target' = [target EXCEPT ![d].activation = "sealed_prepared",
                                       ![d].imported = cutover.of]
           /\ Moves("receipt") /\ UNCHANGED locked
  <2>1. PICK of : of = cutover.of
    OBVIOUS
  <2>2. PICK half : half = [old EXCEPT !.activation = "sealed_prepared"]
    OBVIOUS
  <2>3. PICK new : new = [half EXCEPT !.imported = of]
    OBVIOUS
  <2>4. /\ DOMAIN new = DOMAIN NoTarget /\ new.activation = "sealed_prepared"
        /\ new.imported = of /\ new.receipt = old.receipt
    BY <1>5, <2>2, <2>3 DEF NoTarget
  <2>5. target' = [target EXCEPT ![d] = new]
    <3>1. PICK between : between = [target EXCEPT ![d].activation = "sealed_prepared"]
      OBVIOUS
    <3>2. between = [target EXCEPT ![d] = half] /\ between[d] = half
      BY <1>3, <1>5, <2>2, <3>1 DEF CutoverTyped
    <3>3. target' = [between EXCEPT ![d].imported = of]
      BY <1>7, <2>1, <3>1
    <3>. QED
      BY <2>3, <3>2, <3>3
  <2>6. /\ DOMAIN target' = Targets /\ (\A e \in Targets : DOMAIN target'[e] = DOMAIN NoTarget)
        /\ (\A e \in Targets : target'[e].activation \in Activations)
        /\ target'[d] = new /\ \A e \in Targets \ {d} : target'[e] = target[e]
    BY <1>3, <2>4, <2>5, OneTarget DEF CutoverTyped, Activations, Sealed
  <2>7. /\ cutover'.pc = "receipt" /\ cutover'.target = d /\ cutover'.of = of
        /\ DOMAIN cutover' = {"pc", "target", "of", "recovers"}
    BY <1>1, <1>3, <1>4, <1>7, <2>1, MovesOn
  <2>8. registered = {d} /\ QuiescentIn(TaskSet, of) /\ of = Identity /\ locked
        /\ old.activation = "building"
    BY <1>1, <1>4, <1>5, <2>1 DEF CutoverInv, CommandHolds
  <2>9. ASSUME NEW e \in Targets PROVE TargetHolds(e)'
    <3>1. CASE e # d
      BY <1>1, <1>2, <2>6, <3>1 DEF CutoverInv, TargetHolds
    <3>2. CASE e = d
      BY <1>1, <1>2, <2>4, <2>6, <2>8, <3>2 DEF TargetHolds, Sealed
    <3>. QED
      BY <3>1, <3>2
  <2>10. CutoverTyped'
    BY <1>4, <2>6, <2>7 DEF CutoverTyped
  <2>11. CommandHolds'
    BY <1>2, <1>7, <2>4, <2>6, <2>7, <2>8 DEF CommandHolds, Sealed
  <2>. QED
    BY <2>9, <2>10, <2>11 DEF CutoverInv
<1>. QED
  BY <1>4, <1>6, <1>7 DEF Import

LEMMA ReceiptMoves ==
  ASSUME CutoverInv, PublishReceipt
  PROVE  CutoverInv'
<1>1. UNCHANGED <<plan, flow, book, retired, locked, registered>> /\ cutover.pc = "receipt"
      /\ Moves("retire")
  BY DEF PublishReceipt, jsonVars, case, Step
<1>2. TaskSet' = TaskSet /\ Identity' = Identity
  BY <1>1 DEF TaskSet, Identity
<1>3. CutoverTyped
  BY DEF CutoverInv
<1>4. /\ cutover'.pc = "retire" /\ cutover'.target = cutover.target /\ cutover'.of = cutover.of
      /\ DOMAIN cutover' = {"pc", "target", "of", "recovers"} /\ cutover.target \in Targets
  BY <1>1, <1>3, MovesOn
<1>5. PICK d \in Targets : d = cutover.target
  BY <1>4
<1>6. PICK old : old = target[d] /\ DOMAIN old = {"activation", "imported", "receipt",
                                                   "otherIntent", "worked"}
  BY <1>3 DEF CutoverTyped, NoTarget
<1>7. PICK new : new = [old EXCEPT !.receipt = TRUE]
  OBVIOUS
<1>8. /\ DOMAIN new = DOMAIN NoTarget /\ new.activation = old.activation
      /\ new.imported = old.imported
  BY <1>6, <1>7 DEF NoTarget
<1>9. target' = [target EXCEPT ![d] = new]
  BY <1>5, <1>6, <1>7 DEF PublishReceipt
<1>10. /\ DOMAIN target' = Targets /\ (\A e \in Targets : DOMAIN target'[e] = DOMAIN NoTarget)
       /\ (\A e \in Targets : target'[e].activation \in Activations)
       /\ target'[d] = new /\ \A e \in Targets \ {d} : target'[e] = target[e]
  BY <1>3, <1>6, <1>8, <1>9, OneTarget DEF CutoverTyped, Activations, Sealed
<1>11. old.activation \in Sealed /\ old.imported = cutover.of
  BY <1>1, <1>5, <1>6 DEF CutoverInv, CommandHolds
<1>12. ASSUME NEW e \in Targets PROVE TargetHolds(e)'
  <2>1. CASE e # d
    BY <1>1, <1>2, <1>10, <2>1 DEF CutoverInv, TargetHolds
  <2>2. CASE e = d
    BY <1>1, <1>2, <1>6, <1>8, <1>10, <1>11, <2>2 DEF CutoverInv, TargetHolds
  <2>. QED
    BY <2>1, <2>2
<1>13. CutoverTyped'
  BY <1>4, <1>10 DEF CutoverTyped
<1>14. CommandHolds'
  BY <1>1, <1>2, <1>4, <1>5, <1>8, <1>10, <1>11 DEF CutoverInv, CommandHolds
<1>. QED
  BY <1>12, <1>13, <1>14 DEF CutoverInv

LEMMA RetireMoves ==
  ASSUME CutoverInv, NEW file \in Files, Retire(file)
  PROVE  CutoverInv'
<1>1. UNCHANGED <<plan, flow, book, locked, target, registered, cutover>>
      /\ file \notin retired
  BY DEF Retire, case, documents, migrationVars
<1>2. TaskSet' = TaskSet /\ Identity' = Identity
  BY <1>1 DEF TaskSet, Identity
<1>3. retired # Files
  BY <1>1
<1>4. CutoverTyped'
  BY <1>1 DEF CutoverInv, CutoverTyped
<1>5. (\A e \in Targets : TargetHolds(e))'
  BY <1>1, <1>2, <1>3 DEF CutoverInv, TargetHolds
<1>6. CommandHolds'
  BY <1>1, <1>2 DEF CutoverInv, CommandHolds
<1>. QED
  BY <1>4, <1>5, <1>6 DEF CutoverInv

LEMMA ActivateMoves ==
  ASSUME CutoverInv, Activate
  PROVE  CutoverInv'
<1>1. UNCHANGED <<plan, flow, book, retired, registered>> /\ cutover.pc = "retire"
      /\ retired = Files /\ Stops
  BY DEF Activate, jsonButLocks, case, documents, Step
<1>2. TaskSet' = TaskSet /\ Identity' = Identity
  BY <1>1 DEF TaskSet, Identity
<1>3. CutoverTyped
  BY DEF CutoverInv
<1>4. PICK d \in Targets : d = cutover.target
  BY <1>1, <1>3 DEF CutoverTyped
<1>5. PICK old : old = target[d] /\ DOMAIN old = {"activation", "imported", "receipt",
                                                   "otherIntent", "worked"}
  BY <1>3 DEF CutoverTyped, NoTarget
<1>6. PICK new : new = [old EXCEPT !.activation = "active"]
  OBVIOUS
<1>7. /\ DOMAIN new = DOMAIN NoTarget /\ new.activation = "active"
      /\ new.imported = old.imported /\ new.receipt = old.receipt
  BY <1>5, <1>6 DEF NoTarget
<1>8. target' = [target EXCEPT ![d] = new]
  BY <1>4, <1>5, <1>6 DEF Activate
<1>9. /\ DOMAIN target' = Targets /\ (\A e \in Targets : DOMAIN target'[e] = DOMAIN NoTarget)
      /\ (\A e \in Targets : target'[e].activation \in Activations)
      /\ target'[d] = new /\ \A e \in Targets \ {d} : target'[e] = target[e]
  BY <1>3, <1>7, <1>8, OneTarget DEF CutoverTyped, Activations, Sealed
<1>10. old.activation \in Sealed /\ old.imported = Identity
  BY <1>1, <1>4, <1>5 DEF CutoverInv, CommandHolds
<1>11. ASSUME NEW e \in Targets PROVE TargetHolds(e)'
  <2>1. CASE e # d
    BY <1>1, <1>2, <1>9, <2>1 DEF CutoverInv, TargetHolds
  <2>2. CASE e = d
    <3>1. registered = {d} /\ QuiescentIn(TaskSet, old.imported)
      BY <1>5, <1>10 DEF CutoverInv, TargetHolds
    <3>. QED
      BY <1>1, <1>2, <1>7, <1>9, <1>10, <2>2, <3>1 DEF TargetHolds, Sealed
  <2>. QED
    BY <2>1, <2>2
<1>12. cutover'.pc = "off" /\ ~locked'
  BY <1>1 DEF Stops, NoCutover
<1>13. CutoverTyped' /\ CommandHolds'
  BY <1>9, <1>12 DEF CutoverTyped, CommandHolds
<1>. QED
  BY <1>11, <1>13 DEF CutoverInv

LEMMA WorkMoves ==
  ASSUME CutoverInv, NEW d \in Targets, StoreWorks(d)
  PROVE  CutoverInv'
<1>1. UNCHANGED <<plan, flow, book, retired, locked, registered, cutover>>
  BY DEF StoreWorks, jsonVars, case
<1>2. TaskSet' = TaskSet /\ Identity' = Identity
  BY <1>1 DEF TaskSet, Identity
<1>3. CutoverTyped
  BY DEF CutoverInv
<1>4. PICK old : old = target[d] /\ DOMAIN old = {"activation", "imported", "receipt",
                                                   "otherIntent", "worked"}
  BY <1>3 DEF CutoverTyped, NoTarget
<1>5. PICK new : new = [old EXCEPT !.worked = TRUE]
  OBVIOUS
<1>6. /\ DOMAIN new = DOMAIN NoTarget /\ new.activation = old.activation
      /\ new.imported = old.imported /\ new.receipt = old.receipt
  BY <1>4, <1>5 DEF NoTarget
<1>7. target' = [target EXCEPT ![d] = new]
  BY <1>4, <1>5 DEF StoreWorks
<1>8. /\ DOMAIN target' = Targets /\ (\A e \in Targets : DOMAIN target'[e] = DOMAIN NoTarget)
      /\ (\A e \in Targets : target'[e].activation \in Activations)
      /\ target'[d] = new /\ \A e \in Targets \ {d} : target'[e] = target[e]
  BY <1>3, <1>4, <1>6, <1>7, OneTarget DEF CutoverTyped, Activations, Sealed
<1>9. \A e \in Targets : /\ target'[e].activation = target[e].activation
                         /\ target'[e].imported = target[e].imported
                         /\ target'[e].receipt = target[e].receipt
  BY <1>4, <1>6, <1>8
<1>10. CutoverTyped'
  BY <1>1, <1>3, <1>8 DEF CutoverTyped
<1>11. (\A e \in Targets : TargetHolds(e))'
  BY <1>1, <1>2, <1>9 DEF CutoverInv, TargetHolds
<1>12. CommandHolds'
  BY <1>1, <1>2, <1>3, <1>9 DEF CutoverInv, CutoverTyped, CommandHolds
<1>. QED
  BY <1>10, <1>11, <1>12 DEF CutoverInv

LEMMA CutoverStep ==
  ASSUME JsonInv, CutoverInv, [MigrationNext]_allVars
  PROVE  CutoverInv'
<1>1. CASE JsonNext /\ UNCHANGED migrationVars
  BY <1>1, WritersStop, BesideCutover DEF migrationVars
<1>2. CASE MigrationStep
  <2>1. CASE CutoverDies
    BY <2>1, StopMoves DEF CutoverDies, jsonButLocks, case, documents
  <2>. QED
    BY <1>2, <2>1, LockMoves, CreateMoves, RegisterMoves, ImportMoves, ReceiptMoves, ActivateMoves,
       RetireMoves, MigrateMoves, WorkMoves DEF MigrationStep
<1>3. CASE UNCHANGED allVars
  BY <1>3, BesideCutover DEF allVars, jsonVars, migrationVars, case
<1>. QED
  BY <1>1, <1>2, <1>3 DEF MigrationNext

(* A cutover holds what it declared under the locks, and a sealed store is  *)
(* the one the registry names, wherever a command died.                     *)
THEOREM CutoverCorrect == MigrationSpec => []CutoverInv
<1>1. MigrationInit => CutoverInv
  <2>. SUFFICES ASSUME MigrationInit PROVE CutoverInv
    OBVIOUS
  <2>1. /\ target = [d \in Targets |-> NoTarget] /\ registered = {} /\ cutover = NoCutover
        /\ ~locked
    BY DEF MigrationInit, JsonInit
  <2>2. CutoverTyped
    BY <2>1 DEF CutoverTyped, NoCutover, NoTarget, Activations
  <2>3. \A d \in Targets : TargetHolds(d)
    BY <2>1 DEF TargetHolds, NoTarget, Sealed
  <2>4. CommandHolds
    BY <2>1 DEF CommandHolds, NoCutover
  <2>. QED
    BY <2>2, <2>3, <2>4 DEF CutoverInv
<1>2. JsonInv /\ CutoverInv /\ [MigrationNext]_allVars => CutoverInv'
  BY CutoverStep
<1>. QED
  BY <1>1, <1>2, JsonCorrect, PTL DEF MigrationSpec

(* Once a store is active, both files are retired as they were imported,    *)
(* nothing of them is open or about to be sent, and no other target can     *)
(* ever become active: there are never two authorities.                     *)
THEOREM NeverTwoAuthorities == MigrationSpec => []OneAuthority
<1>1. JsonInv /\ CutoverInv => OneAuthority
  <2>. SUFFICES ASSUME JsonInv, CutoverInv, NEW d \in Targets, target[d].activation = "active"
                PROVE  /\ retired = Files /\ Identity = target[d].imported
                       /\ Quiescent /\ ~At("submit")
                       /\ \A other \in Targets \ {d} : target[other].activation \in {"none", "building"}
    BY DEF OneAuthority
  <2>1. retired = Files /\ Identity = target[d].imported /\ registered = {d}
        /\ QuiescentIn(TaskSet, Identity)
    BY DEF CutoverInv, TargetHolds, Sealed
  <2>2. Quiescent
    BY <2>1 DEF QuiescentIn, Quiescent, Identity, IsLive, Held
  <2>3. ~At("submit")
    <3>1. run.pc = "submit" => /\ run.task \in TaskSet
                               /\ flow.tasks[run.task].status = "submitted"
      BY DEF JsonInv, RunHolds, Busy, Paid
    <3>. QED
      BY <2>2, <3>1 DEF At, Quiescent, IsLive, Live
  <2>4. \A other \in Targets \ {d} : target[other].activation \in {"none", "building"}
    BY <2>1 DEF CutoverInv, CutoverTyped, TargetHolds, Activations
  <2>. QED
    BY <2>1, <2>2, <2>3, <2>4
<1>. QED
  BY <1>1, JsonCorrect, CutoverCorrect, PTL
=============================================================================
