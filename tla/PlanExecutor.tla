----------------------------- MODULE PlanExecutor -----------------------------
(***************************************************************************)
(* The plan executor: one command executes the steps of a plan in their    *)
(* topological order, reuses what the journal and the bytes on disk still  *)
(* vouch for, hands generation to an executor or, with workorders, to an   *)
(* agent, and holds back the assembly until every shot that needs one has  *)
(* an approved review.  With a recovery policy a controller bounds the     *)
(* attempts, records an intent before each and classifies each pass.  The  *)
(* command may die between any two steps; agents, reviewers and editors of *)
(* files work beside it.                                                   *)
(*                                                                         *)
(* A digest is the thing it is the digest of: the k-th content a step's    *)
(* artifact ever had is k, 0 is an absent file, and the digest of a step's *)
(* inputs is the function from the files it covers to their contents.      *)
(***************************************************************************)
EXTENDS Naturals, Sequences, FiniteSets, SequencesExt

CONSTANTS Listed,       \* the steps of the plan, in the order of its list
          Kind,         \* "tool", "qc" or "assembly"
          Deps,         \* depends_on
          Target,       \* the step whose artifact a QC step inspects, as a set
          Consumes,     \* the steps whose artifacts an assembly takes
          Source,       \* the step whose artifact a shot continues from, as a set
          Reviewed,     \* steps whose context says review_required
          Modes,        \* the ways the command may be run, see ModeType
          MaxTries, MaxDispatches, MaxNewPerRun,  \* the recovery policy
          MaxContents,  \* bound on the contents of one artifact
          MaxRuns,      \* bound on the run ids drawn at random
          MaxRefusals   \* bound on the attempts an agent gives up

Steps == ToSet(Listed)
Producers == {s \in Steps : Kind[s] = "tool"}
ModeType == [steps : SUBSET Steps, handoff : BOOLEAN, recovering : BOOLEAN,
             resume : BOOLEAN, runGiven : BOOLEAN,
             edits : Nat,   \* bound on the edits of artifacts by others
             stops : Nat]   \* bound on the deaths and interruptions of the command

ASSUME StepsAssumption ==
  /\ Listed \in Seq(Steps) /\ IsInjective(Listed)   \* the compiler numbers the steps
  /\ Kind \in [Steps -> {"tool", "qc", "assembly"}]
  /\ {Deps, Target, Consumes, Source} \subseteq [Steps -> SUBSET Steps]
  \* A check is of one artifact and waits for the step that makes it.
  /\ \A s \in Steps : IF Kind[s] = "qc"
                      THEN \E t \in Deps[s] : Target[s] = {t} /\ Kind[t] # "qc"
                      ELSE Target[s] = {}
  /\ Reviewed \subseteq Producers
  /\ Modes \subseteq ModeType
  /\ \A m \in Modes : m.recovering => m.resume   \* RECOVERY_NO_RESUME_FORBIDDEN
ASSUME PolicyAssumption ==
  {MaxTries, MaxDispatches, MaxNewPerRun} \subseteq Nat \ {0}

VARIABLES
  mode,      \* how the command is run
  disk,      \* the content of each step's artifact; of a QC step, the content it reports on
  origin,    \* what each content was made from
  journal,   \* fsf_execution_journal.json; run 0: none
  reviews,   \* fsf_consistency_reviews.json
  orders,    \* handoff/workorders, by run, step and attempt: the inputs named in them
  work,      \* contents an agent has made for a workorder and not yet reported
  answers,   \* handoff/results
  recovery,  \* fsf_generation_recovery.json
  sent,      \* the submissions of each attempt: "no", "open", "known" or "twice"
  exec,      \* the running command
  usage      \* what has been used up of the bounds

\* A table with an entry added or replaced.
With(table, key, entry) ==
  [k \in DOMAIN table \cup {key} |-> IF k = key THEN entry ELSE table[k]]

planVars == <<mode, disk, origin, journal, reviews, orders, work, answers, recovery,
              sent, exec, usage>>
files == <<disk, origin>>
agents == <<reviews, orders, work, answers>>

-----------------------------------------------------------------------------
(* Plans, entries and digests. *)

\* Members of a set in the order of the list.
InListOrder(S) ==
  LET upTo[n \in 0..Len(Listed)] ==
        IF n = 0 THEN <<>>
        ELSE IF Listed[n] \in S THEN Append(upTo[n - 1], Listed[n]) ELSE upTo[n - 1]
  IN upTo[Len(Listed)]

\* The order in which the steps are visited: a queue of steps whose dependencies are visited.
\* (The code refuses a plan in which that leaves steps over.)
TopoOrder(plan) ==
  LET visit[n \in 0..Cardinality(plan)] ==
        IF n = 0
        THEN [queue |-> InListOrder({s \in plan : Deps[s] = {}}), order |-> <<>>]
        ELSE IF visit[n - 1].queue = <<>> THEN visit[n - 1]
        ELSE LET curr == Head(visit[n - 1].queue)
                 order == Append(visit[n - 1].order, curr)
             IN [order |-> order,
                 queue |-> Tail(visit[n - 1].queue) \o
                           InListOrder({s \in plan : /\ curr \in Deps[s]
                                                     /\ Deps[s] \subseteq ToSet(order)})]
  IN visit[Cardinality(plan)].order
Orders == [plan \in {m.steps : m \in Modes} |-> TopoOrder(plan)]
StepOrder == Orders[mode.steps]

Blank == [status |-> "none", inputs |-> <<>>, sha |-> 0, attempt |-> 0, order |-> 0,
          code |-> "none"]
Entry(status, inputs) == [Blank EXCEPT !.status = status, !.inputs = inputs]
Entries == [s \in Steps |-> Blank]
NoJournal == [run |-> 0, steps |-> Entries]
Idle == [phase |-> "off", at |-> 0, results |-> Entries, prior |-> NoJournal, run |-> 0,
         inputs |-> <<>>, attempt |-> 1, fresh |-> 0, collects |-> FALSE, reel |-> <<>>,
         touched |-> FALSE, overtaken |-> {}]
NoReview == [verdict |-> "none", sha |-> 0, order |-> <<0, 0>>, needs |-> <<>>]

\* The files a step's inputs digest covers; a QC dependency stands for its target as well.
Covered(s) ==
  CASE Kind[s] = "qc" -> Target[s]
    [] Kind[s] = "assembly" -> Consumes[s]
    [] OTHER -> Deps[s] \cup (UNION {Target[d] : d \in Deps[s]}) \cup Source[s]
Digest(s) == [t \in Covered(s) |-> disk[t]]

IsDone(e) == e.status \in {"completed", "reused"}
IsHandoff(s) == mode.handoff /\ Kind[s] = "tool"
Conforms(q) == \A t \in Target[q] : disk[t] > 0 /\ origin[t][disk[t]].good
\* The content a step writes now, made from what is on disk.
Made(s, good, foreign) == [from |-> Digest(s), good |-> good, foreign |-> foreign]
CanMake(s) == Len(origin[s]) < MaxContents
Write(s, content) == /\ origin' = [origin EXCEPT ![s] = Append(@, content)]
                     /\ disk' = [disk EXCEPT ![s] = Len(origin[s]) + 1]

OrderId(e) == <<e.order, e.attempt>>
Needs(s, e) == [t \in Source[s] |-> e.inputs[t]]

Approves(review, s, e) == /\ review.verdict = "approved"
                          /\ review.sha = e.sha
                          /\ review.needs = Needs(s, e)
                          /\ review.order = OrderId(e)
\* Every input of an assembly resolves to one recorded file, and every reviewed one is
\* unchanged on disk and approved as it is.
GateOpen(s) ==
  \A p \in Consumes[s] :
    LET e == exec.results[p]
    IN /\ e.sha # 0
       /\ p \in Reviewed => disk[p] = e.sha /\ Approves(reviews[p], p, e)

-----------------------------------------------------------------------------
(* The loop over the steps: what happens before a step is executed. *)

Current == StepOrder[exec.at]
AtStep == exec.phase = "consider" /\ exec.at <= Len(StepOrder)
Unblocked == AtStep /\ \A d \in Deps[Current] : IsDone(exec.results[d])

Record(e) == exec' = [exec EXCEPT !.results[Current] = e, !.at = @ + 1]

Blocked ==
  /\ AtStep /\ ~Unblocked
  /\ Record(Entry("blocked", <<>>))
  /\ UNCHANGED <<mode, files, agents, journal, recovery, sent, usage>>

\* The source of a continued shot is complete and its file is what was recorded.
Resolved(s) == \A t \in Source[s] : IsDone(exec.results[t]) /\ disk[t] = exec.results[t].sha

Unresolved ==
  /\ Unblocked /\ ~Resolved(Current)
  /\ Record(Entry("failed", <<>>))
  /\ UNCHANGED <<mode, files, agents, journal, recovery, sent, usage>>

Ready == Unblocked /\ Resolved(Current)
DepsReused(s) == exec.prior.run # 0 /\ \A d \in Deps[s] : exec.results[d].status = "reused"
HeldUngated(s) == FALSE
\* The gate is asked again before an assembled output may be reused.
Gated(s) == Kind[s] = "assembly" /\ DepsReused(s)
Held(s) == Gated(s) /\ ~GateOpen(s)
\* The digest of the inputs with which a step is looked up in the journal: it is taken
\* before the gate, and others may write files and verdicts after the gate.
Compares == exec.phase = "gated" \/ (Ready /\ ~Gated(Current))
Inputs(s) == IF exec.phase = "gated" THEN exec.inputs ELSE Digest(s)
\* The journal's entry of a step still describes its inputs and the bytes on disk.
Reusable(s) ==
  LET prior == exec.prior.steps[s]
  IN /\ DepsReused(s)
     /\ prior.status = "completed"
     /\ s \notin recovery.force
     /\ prior.inputs = Inputs(s)
     /\ prior.sha = disk[s]
     /\ Kind[s] = "qc" => Conforms(s)

GateHolds ==
  /\ Ready /\ Held(Current)
  /\ Record(Entry("blocked", <<>>))
  /\ UNCHANGED <<mode, files, agents, journal, recovery, sent, usage>>

\* A content that is gone never comes back, so what the digest and the gate read of each
\* file one after the other they might have read at once.
GatePasses ==
  /\ Ready /\ Gated(Current) /\ ~Held(Current)
  /\ exec' = [exec EXCEPT !.phase = "gated", !.inputs = Digest(Current), !.overtaken = {}]
  /\ UNCHANGED <<mode, files, agents, journal, recovery, sent, usage>>

\* The entry of a reused step carries neither its workorder nor its attempt.
Reuse ==
  /\ Compares /\ Reusable(Current)
  /\ exec' = [exec EXCEPT !.phase = "consider", !.at = @ + 1,
       !.results[Current] = [exec.prior.steps[Current] EXCEPT !.status = "reused",
                                                              !.attempt = 0, !.order = 0]]
  /\ UNCHANGED <<mode, files, agents, journal, recovery, sent, usage>>

Dispatch ==
  LET intended == mode.recovering /\ Current \in Producers
  IN /\ Compares /\ ~Reusable(Current)
     /\ exec' = [exec EXCEPT !.inputs = Inputs(Current),
                             !.collects = FALSE,
                             !.phase = IF intended THEN "intent" ELSE "execute"]
     /\ UNCHANGED <<mode, files, agents, journal, recovery, sent, usage>>

\* The result of the current step; the controller's checkpoint follows it.
Results(e) ==
  exec' = [exec EXCEPT !.results[Current] = e,
                       !.phase = IF mode.recovering THEN "journal" ELSE "consider",
                       !.at = IF mode.recovering THEN @ ELSE @ + 1]

-----------------------------------------------------------------------------
(* The controller's intent before a producer is executed. *)

\* Why the controller refuses to dispatch, in the order of its checks; "collect" is an
\* attempt that is already under way.
Ruling(s) ==
  LET record == recovery.steps[s]
  IN CASE recovery.status \in {"auth", "quota", "unknown"} -> recovery.status
       [] usage.late -> "exhausted"
       [] record.status = "inflight" /\ ~IsHandoff(s) -> "unknown"
       [] record.status \in {"waiting", "inflight"} -> "collect"
       [] exec.fresh >= MaxNewPerRun -> "batch"
       [] recovery.dispatches >= MaxDispatches -> "exhausted"
       [] record.attempt + 1 > MaxTries -> "exhausted"
       [] OTHER -> "new"

AtIntent == exec.phase = "intent"

Refuse ==
  /\ AtIntent /\ Ruling(Current) \notin {"collect", "new"}
  /\ Results([Entry("failed", exec.inputs) EXCEPT !.code = Ruling(Current)])
  /\ UNCHANGED <<mode, files, agents, journal, recovery, sent, usage>>

Collect ==
  /\ AtIntent /\ Ruling(Current) = "collect"
  /\ exec' = [exec EXCEPT !.attempt = recovery.steps[Current].attempt,
                          !.collects = TRUE, !.phase = "execute"]
  /\ UNCHANGED <<mode, files, agents, journal, recovery, sent, usage>>

\* The durable intent: a dispatch is counted and the attempt is in flight before it is made.
Intent(s, attempt) ==
  [recovery EXCEPT !.dispatches = @ + 1,
                   !.steps[s] = [attempt |-> attempt, status |-> "inflight"]]

NewAttempt ==
  LET attempt == recovery.steps[Current].attempt + 1
  IN /\ AtIntent /\ Ruling(Current) = "new"
     /\ recovery' = Intent(Current, attempt)
     /\ exec' = [exec EXCEPT !.attempt = attempt, !.fresh = @ + 1, !.phase = "execute"]
     /\ UNCHANGED <<mode, files, agents, journal, sent, usage>>

-----------------------------------------------------------------------------
(* Execution of a step. *)

Executes(kind) == exec.phase = "execute" /\ Kind[Current] = kind

\* The technical check of a file: a report on its present content.
ExecuteQC ==
  LET absent == \E t \in Target[Current] : disk[t] = 0
      seen == CHOOSE v \in {disk[t] : t \in Target[Current]} : TRUE
  IN /\ Executes("qc")
     /\ \/ /\ absent
           /\ Results(Entry("failed", exec.inputs))
           /\ UNCHANGED disk
        \/ /\ ~absent
           /\ disk' = [disk EXCEPT ![Current] = seen]
           /\ Results(IF Conforms(Current)
                      THEN [Entry("completed", exec.inputs) EXCEPT !.sha = seen]
                      ELSE [Entry("failed", exec.inputs) EXCEPT !.code = "does_not_conform"])
     /\ UNCHANGED <<mode, origin, agents, journal, recovery, sent, usage>>

\* The call of an executor; one that is already under way is collected, not made again.
CallExecutor ==
  /\ Executes("tool") /\ ~IsHandoff(Current)
  /\ exec' = [exec EXCEPT !.phase = "await"]
  /\ sent' = IF ~mode.recovering \/ exec.collects THEN sent
             ELSE [sent EXCEPT ![Current][exec.attempt] = IF @ = "no" THEN "open" ELSE "twice"]
  /\ UNCHANGED <<mode, files, agents, journal, recovery, usage>>

Known == IF mode.recovering THEN [sent EXCEPT ![Current][exec.attempt] =
                                              IF @ = "open" THEN "known" ELSE @]
         ELSE sent

ExecutorCompletes ==
  /\ exec.phase = "await" /\ CanMake(Current)
  /\ \E good \in BOOLEAN : Write(Current, Made(Current, good, FALSE))
  /\ Results([Entry("completed", exec.inputs) EXCEPT !.sha = disk'[Current]])
  /\ sent' = Known
  /\ UNCHANGED <<mode, agents, journal, recovery, usage>>

\* A connection that is refused, limited or lost matters to the controller only.
ExecutorFails ==
  /\ exec.phase = "await"
  /\ \E code \in IF mode.recovering THEN {"other", "auth", "quota", "unknown"} ELSE {"other"} :
       /\ Results([Entry("failed", exec.inputs) EXCEPT !.code = code])
       /\ sent' = IF code = "unknown" THEN sent ELSE Known
  /\ UNCHANGED <<mode, files, agents, journal, recovery, usage>>

ExecutorContinues ==
  /\ exec.phase = "await" /\ mode.recovering
  /\ Results(Entry("pending_external", exec.inputs))
  /\ UNCHANGED <<mode, files, agents, journal, recovery, sent, usage>>

\* The gate before an assembly; one that holds leaves no output.
AssemblyGate ==
  /\ Executes("assembly")
  /\ IF GateOpen(Current)
     THEN exec' = [exec EXCEPT !.phase = "encode", !.reel = <<>>, !.overtaken = {}]
     ELSE Results(Entry("blocked", exec.inputs))
  /\ UNCHANGED <<mode, files, agents, journal, recovery, sent, usage>>

Encodes == exec.phase = "encode"

\* The clips are read one after the other, as they are then: nothing holds the files, and
\* what the gate saw of them is not looked at again.
ReadClip(t) ==
  /\ Encodes /\ t \in Consumes[Current] \ DOMAIN exec.reel
  /\ disk[t] # 0
  /\ exec' = [exec EXCEPT !.reel = With(@, t, disk[t])]
  /\ UNCHANGED <<mode, files, agents, journal, recovery, sent, usage>>

\* A clip that is missing by then, or the encoder, fails the step.
EncodeFails ==
  /\ Encodes
  /\ Results(Entry("failed", exec.inputs))
  /\ UNCHANGED <<mode, files, agents, journal, recovery, sent, usage>>

\* The output of what was read; it may not conform.
Assemble ==
  /\ Encodes /\ CanMake(Current)
  /\ DOMAIN exec.reel = Consumes[Current]
  /\ \E good \in BOOLEAN :
       /\ Write(Current, [from |-> exec.reel, good |-> good, foreign |-> FALSE])
       /\ Results(IF good
                  THEN [Entry("completed", exec.inputs) EXCEPT !.sha = disk'[Current]]
                  ELSE Entry("failed", exec.inputs))
  /\ UNCHANGED <<mode, agents, journal, recovery, sent, usage>>

-----------------------------------------------------------------------------
(* Handoff: workorders, and the ingestion of what an agent reports. *)

Attempts(run, s) == {k[3] : k \in {o \in DOMAIN orders : o[1] = run /\ o[2] = s}}
LatestAttempt(run, s) ==
  IF Attempts(run, s) = {} THEN 1
  ELSE CHOOSE n \in Attempts(run, s) : \A m \in Attempts(run, s) : m <= n
PriorUnfinished(s, latest) == exec.prior.steps[s].status \in {"failed", "pending_handoff"}
\* The journal says that the latest attempt failed.
PriorFailed(s, latest) == /\ exec.prior.steps[s].status = "failed"
                          /\ exec.prior.steps[s].attempt >= latest
HandoffAttempt(s) ==
  LET latest == LatestAttempt(exec.run, s)
  IN IF mode.recovering THEN exec.attempt
     ELSE IF PriorFailed(s, latest) THEN latest + 1 ELSE latest
Key(s) == <<exec.run, s, HandoffAttempt(s)>>

EchoesAny(answer) == TRUE
\* The report echoes the digest of the inputs as they are now.
Echoes(answer) == answer.inputs = exec.inputs
\* An accepted attempt is not replaced by other bytes under its number.
Conflicts(s) == LET prior == exec.prior.steps[s]
                IN prior.attempt = HandoffAttempt(s) /\ prior.sha \notin {0, disk[s]}
Ingests(s, answer) == /\ Echoes(answer) /\ answer.ok
                      /\ disk[s] # 0 /\ answer.sha = disk[s]
                      /\ ~Conflicts(s)

ExecuteHandoff ==
  LET key == Key(Current)
      outcome(status) == [Entry(status, exec.inputs) EXCEPT !.attempt = key[3], !.order = key[1]]
  IN /\ Executes("tool") /\ IsHandoff(Current)
     /\ \/ /\ key \notin DOMAIN answers
           /\ orders' = With(orders, key, exec.inputs)
           /\ Results(outcome("pending_handoff"))
        \/ /\ key \in DOMAIN answers
           /\ Results(IF Ingests(Current, answers[key])
                      THEN [outcome("completed") EXCEPT !.sha = disk[Current]]
                      ELSE outcome("failed"))
           /\ UNCHANGED orders
     /\ UNCHANGED <<mode, files, reviews, work, answers, journal, recovery, sent, usage>>

-----------------------------------------------------------------------------
(* The journal and the controller's checkpoints and classification. *)

AsCompleted(e) == IF e.status = "reused" THEN [e EXCEPT !.status = "completed"] ELSE e

\* The checkpoint after a step: the journal of the steps so far, then the attempts' states,
\* then the state of the whole, each written by itself.
Checkpoint ==
  /\ exec.phase = "journal"
  /\ journal' = [run |-> exec.run, steps |-> [s \in Steps |-> AsCompleted(exec.results[s])]]
  /\ exec' = [exec EXCEPT !.phase = "states"]
  /\ UNCHANGED <<mode, files, agents, recovery, sent, usage>>

Observed(e) == IF e.status \in {"pending_handoff", "pending_external"} THEN "waiting"
               ELSE e.status
CheckpointStates ==
  /\ exec.phase = "states"
  /\ recovery' = [recovery EXCEPT !.steps = [s \in Steps |->
       IF s \in Producers /\ @[s].attempt > 0 /\ exec.results[s].status \notin {"none", "blocked"}
       THEN [@[s] EXCEPT !.status = Observed(exec.results[s])] ELSE @[s]]]
  /\ exec' = [exec EXCEPT !.phase = "pause"]
  /\ UNCHANGED <<mode, files, agents, journal, sent, usage>>

Codes == {exec.results[s].code : s \in {t \in Steps : exec.results[t].status = "failed"}}
PauseNeeded ==
  CASE "auth" \in Codes -> "auth"
    [] "quota" \in Codes -> "quota"
    [] "unknown" \in Codes -> "unknown"
    [] OTHER -> "none"

CheckpointPause ==
  /\ exec.phase = "pause"
  /\ recovery' = IF PauseNeeded = "none" THEN recovery
                 ELSE [recovery EXCEPT !.status = PauseNeeded]
  /\ exec' = [exec EXCEPT !.phase = "consider", !.at = @ + 1]
  /\ UNCHANGED <<mode, files, agents, journal, sent, usage>>

Unnumbered(e, status) == [Blank EXCEPT !.status = status]
Numbered(e, status) == [Blank EXCEPT !.status = status, !.attempt = e.attempt, !.order = e.order]
\* What the journal keeps of an entry at the end of a pass; a blocked step leaves none.
Journaled(e) == CASE IsDone(e) -> AsCompleted(e)
                  [] e.status \in {"failed", "pending_handoff", "pending_external"} ->
                       Numbered(e, e.status)
                  [] OTHER -> Blank

AtEnd == exec.phase = "consider" /\ exec.at > Len(StepOrder)
Success == AtEnd /\ \A s \in mode.steps : IsDone(exec.results[s])

Finish ==
  /\ AtEnd
  /\ journal' = [run |-> exec.run, steps |-> [s \in Steps |-> Journaled(exec.results[s])]]
  /\ exec' = IF mode.recovering THEN [exec EXCEPT !.phase = "classify"] ELSE Idle
  /\ UNCHANGED <<mode, files, agents, recovery, sent, usage>>


\* A set of steps and everything in the plan that depends on it.
Closure(roots) ==
  LET closed == {c \in SUBSET mode.steps :
                   /\ roots \subseteq c
                   /\ \A s \in mode.steps : Deps[s] \cap c # {} => s \in c}
  IN CHOOSE c \in closed : \A d \in closed : c \subseteq d

\* Producers whose content did not pass its technical check in this pass.
Bad == UNION {Target[s] : s \in {q \in Steps : exec.results[q].code = "does_not_conform"}}
Archivable == \A s \in Closure(Bad) : exec.results[s].sha \in {0, disk[s]}
Waiting == \E s \in Steps : exec.results[s].status \in {"pending_handoff", "pending_external"}
Verdict ==
  CASE PauseNeeded # "none" -> PauseNeeded
    [] "exhausted" \in Codes -> "exhausted"
    [] "batch" \in Codes -> "batch"
    [] Bad # {} /\ ~Archivable -> "unknown"
    [] Bad # {} -> IF \E s \in Bad : recovery.steps[s].attempt >= MaxTries
                   THEN "exhausted" ELSE "retry"
    [] Waiting -> "waiting_external"
    [] OTHER -> IF \A s \in mode.steps : IsDone(exec.results[s]) THEN "completed" ELSE "blocked"

PriorOf(j) == IF mode.resume THEN j ELSE NoJournal
RunOf(prior) == CASE mode.runGiven -> 1
                  [] ~mode.runGiven /\ prior.run # 0 -> prior.run
                  [] OTHER -> usage.runs + 1
Pass(base) == [base EXCEPT !.phase = "consider", !.at = 1, !.results = Entries,
                           !.prior = PriorOf(journal), !.run = RunOf(PriorOf(journal))]

\* Failed content is archived and its producer, with all that depends on it, done again in
\* a new pass of the same command.
RetryContent ==
  /\ exec.phase = "classify" /\ Verdict = "retry"
  /\ recovery' = [recovery EXCEPT !.force = Closure(Bad),
                    !.steps = [s \in Steps |-> IF s \in Bad
                                 THEN [@[s] EXCEPT !.status = "retry_pending"] ELSE @[s]]]
  /\ exec' = Pass(exec)
  /\ UNCHANGED <<mode, files, agents, journal, sent, usage>>

Classify ==
  /\ exec.phase = "classify" /\ Verdict # "retry"
  /\ recovery' = [recovery EXCEPT !.status = Verdict,
                    !.force = IF Verdict \in {"completed", "blocked"} THEN {} ELSE @]
  /\ exec' = Idle
  /\ UNCHANGED <<mode, files, agents, journal, sent, usage>>

\* A command starts.  The controller returns at once in a paused state, unless it is told
\* to go on after a correction of what an authorization or a limit refused.
Start ==
  LET failed == {s \in Steps : recovery.steps[s].status = "failed"}
      resumed == [recovery EXCEPT !.status = "ready",
                    !.force = @ \cup UNION {Closure({s}) : s \in failed},
                    !.steps = [s \in Steps |-> IF s \in failed
                                 THEN [@[s] EXCEPT !.status = "retry_pending"] ELSE @[s]]]
  IN /\ exec.phase = "off"
     /\ recovery.status \notin {"unknown", "exhausted"}
     /\ RunOf(PriorOf(journal)) <= MaxRuns
     /\ recovery' = CASE ~mode.recovering -> recovery
                      [] recovery.status \in {"auth", "quota"} -> resumed
                      [] OTHER -> [recovery EXCEPT !.status = "ready"]
     /\ exec' = Pass(Idle)
     /\ usage' = IF mode.runGiven \/ PriorOf(journal).run # 0 THEN usage
                 ELSE [usage EXCEPT !.runs = @ + 1]
     /\ UNCHANGED <<mode, files, agents, journal, sent>>

Command ==
  \/ Start \/ Blocked \/ Unresolved \/ GateHolds \/ GatePasses \/ Reuse \/ Dispatch
  \/ Refuse \/ Collect \/ NewAttempt
  \/ ExecuteQC \/ CallExecutor \/ ExecutorCompletes \/ ExecutorFails \/ ExecutorContinues
  \/ AssemblyGate \/ (\E t \in Steps : ReadClip(t)) \/ EncodeFails \/ Assemble
  \/ ExecuteHandoff
  \/ Checkpoint \/ CheckpointStates \/ CheckpointPause \/ Finish \/ RetryContent \/ Classify

-----------------------------------------------------------------------------
(* What happens beside the command. *)

Running == exec.phase # "off"
\* A gate has passed, and what it let pass is not yet delivered.
Passed == exec.phase \in {"gated", "encode"}
Overtakes(s) == IF Passed THEN exec.overtaken \cup {s} ELSE exec.overtaken
Touches(s) == exec' = [exec EXCEPT !.touched = Running, !.overtaken = Overtakes(s)]

\* The command is killed.
Dies ==
  /\ Running /\ usage.stops < mode.stops
  /\ exec' = Idle
  /\ usage' = [usage EXCEPT !.stops = @ + 1]
  /\ UNCHANGED <<mode, files, agents, journal, recovery, sent>>

\* The command is interrupted: the controller records that it does not know what was sent.
Interrupted ==
  /\ Running /\ mode.recovering /\ usage.stops < mode.stops
  /\ exec' = Idle
  /\ recovery' = [recovery EXCEPT !.status = "unknown"]
  /\ usage' = [usage EXCEPT !.stops = @ + 1]
  /\ UNCHANGED <<mode, files, agents, journal, sent>>

DeadlinePasses ==
  /\ mode.recovering /\ ~usage.late
  /\ usage' = [usage EXCEPT !.late = TRUE]
  /\ UNCHANGED <<mode, files, agents, journal, recovery, sent, exec>>

\* An agent reads a workorder and writes the artifact it asks for.
AgentMakes(k) ==
  /\ k \notin DOMAIN work \cup DOMAIN answers
  /\ CanMake(k[2])
  /\ \E good \in BOOLEAN : Write(k[2], Made(k[2], good, FALSE))
  /\ work' = With(work, k, [inputs |-> orders[k], sha |-> disk'[k[2]], ok |-> TRUE])
  /\ Touches(k[2])
  /\ UNCHANGED <<mode, reviews, orders, answers, journal, recovery, sent, usage>>

AgentReports(k) ==
  /\ k \in DOMAIN work
  /\ answers' = With(answers, k, work[k])
  /\ work' = [o \in DOMAIN work \ {k} |-> work[o]]
  /\ UNCHANGED <<mode, files, reviews, orders, journal, recovery, sent, exec, usage>>

AgentGivesUp(k) ==
  /\ k \notin DOMAIN work \cup DOMAIN answers
  /\ usage.refusals < MaxRefusals
  /\ answers' = With(answers, k, [inputs |-> orders[k], sha |-> 0, ok |-> FALSE])
  /\ usage' = [usage EXCEPT !.refusals = @ + 1]
  /\ UNCHANGED <<mode, files, reviews, orders, work, journal, recovery, sent, exec>>

\* fsf review approve or reject: the verdict on what the journal says the step produced.
Review(s) ==
  LET e == journal.steps[s]
  IN /\ e.status = "completed"
     /\ \E verdict \in {"approved", "rejected"} :
          reviews' = [reviews EXCEPT ![s] = [verdict |-> verdict, sha |-> e.sha,
                                             order |-> OrderId(e), needs |-> Needs(s, e)]]
     /\ exec' = [exec EXCEPT !.overtaken = IF reviews' = reviews THEN @ ELSE Overtakes(s)]
     /\ UNCHANGED <<mode, files, orders, work, answers, journal, recovery, sent, usage>>

\* Somebody replaces or removes an artifact.
Edit(s) ==
  /\ usage.edits < mode.edits /\ disk[s] # 0
  /\ \/ CanMake(s) /\ Write(s, Made(s, TRUE, TRUE))
     \/ disk' = [disk EXCEPT ![s] = 0] /\ UNCHANGED origin
  /\ usage' = [usage EXCEPT !.edits = @ + 1]
  /\ Touches(s)
  /\ UNCHANGED <<mode, agents, journal, recovery, sent>>

Others ==
  \/ Dies \/ Interrupted \/ DeadlinePasses
  \/ \E k \in DOMAIN orders : AgentMakes(k) \/ AgentGivesUp(k)
  \/ \E k \in DOMAIN work : AgentReports(k)
  \/ \E s \in Reviewed \cap mode.steps : Review(s)
  \/ \E s \in {t \in mode.steps : Kind[t] # "qc"} : Edit(s)

PlanInit ==
  /\ mode \in Modes
  /\ disk = [s \in Steps |-> 0] /\ origin = [s \in Steps |-> <<>>]
  /\ journal = NoJournal
  /\ reviews = [s \in Steps |-> NoReview]
  /\ orders = <<>> /\ work = <<>> /\ answers = <<>>
  /\ recovery = [status |-> "ready", dispatches |-> 0, force |-> {},
                 steps |-> [s \in Steps |-> [attempt |-> 0, status |-> "none"]]]
  /\ sent = [s \in Steps |-> [n \in 1..MaxTries |-> "no"]]
  /\ exec = Idle
  /\ usage = [stops |-> 0, edits |-> 0, refusals |-> 0, runs |-> 0, late |-> FALSE]

PlanNext == Command \/ Others
PlanSpec == PlanInit /\ [][PlanNext]_planVars

-----------------------------------------------------------------------------
(* Properties. *)

\* An assembly is completed, or its old output reused, only after the gate found an
\* approved review of every shot in it that needs one, and what went into the output is
\* exactly the content that was approved (plan_executor.py 754-795 and 1822-1867).  It
\* says nothing of a shot whose artifact or review somebody else changed after the gate:
\* nothing holds them while the clips are read.
DeliveredIsReviewed ==
  [][\A s \in Steps :
       /\ Kind[s] = "assembly"
       /\ IsDone(exec'.results[s]) /\ ~IsDone(exec.results[s])
       => \A p \in (Consumes[s] \cap Reviewed) \ exec.overtaken :
            /\ reviews[p].verdict = "approved"
            /\ reviews[p].sha = origin'[s][disk'[s]].from[p]]_planVars

\* What goes into an assembly of a shot under review is the content that the gate found
\* approved: "If the file has been modified or replaced between approval and assembly, the
\* gate blocks" (src/README.md 388-389).
AssembledAsApproved ==
  [][\A t \in Reviewed :
       Encodes /\ t \notin DOMAIN exec.reel /\ t \in DOMAIN exec'.reel =>
         exec'.reel[t] = exec.results[t].sha]_planVars

\* A run that ends in success, while nobody else wrote an artifact during it, leaves no
\* artifact that was made from other bytes than those on disk now, none that others wrote,
\* and no report on other bytes: crashes, late agents and edits between runs included.
CompletedIsCurrent ==
  Success /\ ~exec.touched =>
    \A s \in mode.steps :
      /\ disk[s] > 0
      /\ IF Kind[s] = "qc" THEN (\A t \in Target[s] : disk[s] = disk[t]) /\ Conforms(s)
         ELSE LET made == origin[s][disk[s]] IN ~made.foreign /\ made.from = Digest(s)

\* Without a recovery policy a step has at most one workorder of a run that nobody has
\* answered: rerunning the command asks for the same attempt again, not for a second one.
\* Left out is an unforeseen exception inside a handoff step: it journals the failure under
\* the highest attempt on disk, answered or not, and the next run asks for another one
\* (plan_executor.py 944-968).
OneOpenOrder ==
  ~mode.recovering =>
    \A k \in DOMAIN orders : \A l \in DOMAIN orders :
      k[1] = l[1] /\ k[2] = l[2] /\ k[3] < l[3] => k \in DOMAIN answers

\* With a recovery policy no attempt of a producer is submitted twice, whenever the command
\* dies (recovery.py 119: "durable intent before a side effect; no blind replay").
AttemptSubmittedOnce == \A s \in Producers : \A n \in 1..MaxTries : sent[s][n] # "twice"

\* No attempt is asked for twice, of an agent or of a provider.
AskedOnce == OneOpenOrder /\ AttemptSubmittedOnce

\* No new attempt of a producer is submitted while an earlier one is unanswered: "Unknown
\* submissions require investigation/reconciliation and cannot be blindly replayed"
\* (docs/FSF_LIVE_VERIFY.md 276-277).
NoBlindReplay ==
  \A s \in Producers : \A n \in 1..MaxTries : \A m \in 1..MaxTries :
    n < m /\ sent[s][m] # "no" => sent[s][n] # "open"

\* A rejected result of a step that waits for no other does not stay rejected: the command,
\* run again and again, asks for it under the next attempt, "instead of re-ingesting attN
\* forever" (plan_executor.py 1345-1346).
Stuck == \E s \in {t \in mode.steps \cap Producers : IsHandoff(t) /\ Deps[t] = {}} :
           /\ journal.steps[s].status = "failed"
           /\ \A k \in DOMAIN orders : k[1] = journal.run /\ k[2] = s => k \in DOMAIN answers
RejectedIsReordered == []<>(mode.recovering \/ ~Stuck)
=============================================================================
