---------------------------- MODULE RemoteProofs ----------------------------
(* Theorems about work that runs elsewhere, for every number of requests,   *)
(* recipe steps, devices, deaths and reruns: no command of a recipe and no   *)
(* hosted request is ever paid for twice, what is accepted is what was       *)
(* sealed, no device of a worker is given away twice, and what the parent    *)
(* collects of a batch is whole.                                             *)
EXTENDS RemoteLane, ModelApi, GpuJob, SumLemmas

ResultStatuses == {"none", "failed", "cancelled", "completed"}
Results == [n: Nat, status: ResultStatuses, steps: SUBSET StepsOf]
Entries == {"none", "running", "completed"}
WorkerPlaces == {"off", "spawned", "steps", "exec", "run", "json", "zip", "status"}

LaneTyped ==
  /\ lane \in LaneKinds
  /\ DOMAIN intent = Bundles
  /\ \A r \in Bundles : DOMAIN intent[r] = {"is", "status", "accepted"}
  /\ kept \in [Bundles -> Results] /\ fetched \in [Bundles -> Results]
  /\ DOMAIN dispatcher = Bundles
  /\ workerAt \in [Bundles -> WorkerPlaces] /\ ending \in [Bundles -> ResultStatuses]
  /\ childJournal \in [Bundles -> [StepsOf -> Entries]]
  /\ started \in [Bundles -> [StepsOf -> Nat]]
  /\ resultJson \in [Bundles -> Results] /\ resultZip \in [Bundles -> Results]

\* An entry is written before its step is started, and is never taken back.
JournalHolds ==
  \A r \in Bundles :
    /\ \A s \in StepsOf :
         /\ started[r][s] <= 1
         /\ childJournal[r][s] = "none" => started[r][s] = 0
         /\ childJournal[r][s] = "completed" => started[r][s] = 1
    /\ workerAt[r] = "exec" =>
         Todo(r) # {} /\ childJournal[r][Min(Todo(r))] = "running" /\ started[r][Min(Todo(r))] = 0
    /\ workerAt[r] = "run" =>
         Todo(r) # {} /\ childJournal[r][Min(Todo(r))] = "running" /\ started[r][Min(Todo(r))] = 1

\* A sealed worker never works again, so there is one archive.
SealHolds ==
  \A r \in Bundles :
    /\ Sealed(r) => workerAt[r] \in {"off", "spawned", "status"}
    /\ \A s \in resultJson[r].steps \cup resultZip[r].steps : started[r][s] > 0

ParentHolds ==
  \A r \in Bundles :
    /\ fetched[r] \in {NoResult, resultZip[r]}
    /\ kept[r] # NoResult =>
         kept[r] = resultZip[r] /\ kept[r].status = "completed" /\ kept[r].steps = StepsOf
    /\ intent[r].accepted # 0 => intent[r].accepted = kept[r].n

LaneInv == LaneTyped /\ JournalHolds /\ SealHolds /\ ParentHolds

LEMMA FirstTodo ==
  ASSUME LaneTyped, NEW r \in Bundles, Todo(r) # {}
  PROVE  Min(Todo(r)) \in Todo(r) /\ Min(Todo(r)) \in StepsOf
<1>1. Todo(r) \in SUBSET Nat /\ Todo(r) \subseteq StepsOf
  BY DEF Todo, StepsOf, LaneTyped, LaneKinds
<1>. QED
  BY <1>1, LeastNumber DEF Min

LEMMA NoResultTyped == NoResult \in Results
BY DEF NoResult, Results, ResultStatuses

LEMMA LaneStarts == lane \in LaneKinds /\ LaneInit => LaneInv
<1>. SUFFICES ASSUME lane \in LaneKinds, LaneInit PROVE LaneInv
  OBVIOUS
<1>1. LaneTyped
  BY NoResultTyped DEF LaneInit, LaneTyped, WorkerPlaces, ResultStatuses, Entries
<1>2. JournalHolds
  BY DEF LaneInit, JournalHolds
<1>3. SealHolds
  BY DEF LaneInit, SealHolds, Sealed, NoResult
<1>4. ParentHolds
  BY DEF LaneInit, ParentHolds
<1>. QED
  BY <1>1, <1>2, <1>3, <1>4 DEF LaneInv

(* What keeps each part of the invariant, whoever moves. *)
LEMMA JournalSame ==
  ASSUME LaneInv, UNCHANGED <<lane, childJournal, started>>,
         \A q \in Bundles : workerAt'[q] \in {"exec", "run"} => workerAt'[q] = workerAt[q]
  PROVE  JournalHolds'
<1>1. StepsOf' = StepsOf /\ \A q \in Bundles : Todo(q)' = Todo(q)
  BY DEF Todo, StepsOf
<1>. QED
  BY <1>1 DEF LaneInv, JournalHolds

LEMMA SealSame ==
  ASSUME LaneInv, UNCHANGED <<lane, started, resultJson, resultZip>>,
         \A q \in Bundles : Sealed(q) => workerAt'[q] \in {"off", "spawned", "status"}
  PROVE  SealHolds'
<1>1. StepsOf' = StepsOf /\ \A q \in Bundles : Sealed(q)' = Sealed(q)
  BY DEF StepsOf, Sealed, NoResult
<1>. QED
  BY <1>1 DEF LaneInv, SealHolds

LEMMA ParentSame ==
  ASSUME LaneInv, UNCHANGED <<lane, intent, kept, fetched, resultZip>>
  PROVE  ParentHolds'
BY DEF LaneInv, ParentHolds, NoResult, StepsOf

LEMMA TypesSame ==
  ASSUME LaneInv, lane' = lane
  PROVE  /\ StepsOf' = StepsOf /\ Results' = Results /\ NoResult' = NoResult
         /\ lane' \in LaneKinds
BY DEF LaneInv, LaneTyped, StepsOf, Results, NoResult

LEMMA WorkerKeeps ==
  ASSUME LaneInv, NEW r \in Bundles, UNCHANGED <<lane, parentVars>>, WorkerMoves(r)
  PROVE  LaneInv'
<1>0. UNCHANGED <<intent, kept, fetched, dispatcher, lane>>
  BY DEF parentVars
<1>1. CASE WorkerOpens(r)
  <2>1. UNCHANGED <<ending, childJournal, started, resultJson, resultZip>>
        /\ workerAt' = [workerAt EXCEPT ![r] = IF Sealed(r) THEN "off" ELSE "steps"]
    BY <1>1 DEF WorkerOpens, Turns
  <2>2. LaneTyped'
    BY <1>0, <2>1, TypesSame DEF LaneInv, LaneTyped, WorkerPlaces
  <2>3. JournalHolds'
    BY <1>0, <2>1, JournalSame DEF LaneInv, LaneTyped
  <2>4. SealHolds'
    BY <1>0, <2>1, SealSame DEF LaneInv, LaneTyped, SealHolds
  <2>. QED
    BY <1>0, <2>1, <2>2, <2>3, <2>4, ParentSame DEF LaneInv
<1>2. CASE ClaimsStep(r)
  <2> DEFINE step == Min(Todo(r))
  <2>1. step \in Todo(r) /\ step \in StepsOf /\ childJournal[r][step] = "none"
    BY <1>2, FirstTodo DEF ClaimsStep, EntersStep, LaneInv
  <2>2. /\ workerAt[r] = "steps" /\ workerAt' = [workerAt EXCEPT ![r] = "exec"]
        /\ childJournal' = [childJournal EXCEPT ![r][step] = "running"]
        /\ UNCHANGED <<ending, started, resultJson, resultZip>>
    BY <1>2 DEF ClaimsStep, Turns
  <2>3. LaneTyped'
    BY <1>0, <2>1, <2>2, TypesSame DEF LaneInv, LaneTyped, WorkerPlaces, Entries
  <2>4. StepsOf' = StepsOf /\ \A q \in Bundles : Todo(q)' = Todo(q)
    BY <1>0, <2>1, <2>2, TypesSame DEF Todo, LaneInv, LaneTyped
  <2>5. step' = step
    BY <2>4
  <2>. HIDE DEF step
  <2>6. started[r][step] = 0
    BY <2>1 DEF LaneInv, JournalHolds
  <2>7. ASSUME NEW q \in Bundles
        PROVE  /\ \A s \in StepsOf :
                    /\ started'[q][s] <= 1
                    /\ childJournal'[q][s] = "none" => started'[q][s] = 0
                    /\ childJournal'[q][s] = "completed" => started'[q][s] = 1
               /\ q # r => workerAt'[q] = workerAt[q] /\ childJournal'[q] = childJournal[q]
    BY <2>1, <2>2 DEF LaneInv, LaneTyped, JournalHolds
  <2>8. workerAt'[r] = "exec" /\ childJournal'[r][step] = "running"
    BY <2>1, <2>2 DEF LaneInv, LaneTyped
  <2>9. JournalHolds'
    <3>1. ASSUME NEW q \in Bundles
          PROVE  /\ workerAt'[q] = "exec" =>
                      /\ Todo(q) # {} /\ childJournal'[q][Min(Todo(q))] = "running"
                      /\ started'[q][Min(Todo(q))] = 0
                 /\ workerAt'[q] = "run" =>
                      /\ Todo(q) # {} /\ childJournal'[q][Min(Todo(q))] = "running"
                      /\ started'[q][Min(Todo(q))] = 1
      BY <2>1, <2>2, <2>6, <2>7, <2>8 DEF LaneInv, JournalHolds, step
    <3>. QED
      BY <2>4, <2>7, <3>1 DEF JournalHolds
  <2>10. SealHolds'
    BY <1>0, <2>2, SealSame DEF LaneInv, LaneTyped, SealHolds
  <2>. QED
    BY <1>0, <2>2, <2>3, <2>9, <2>10, ParentSame DEF LaneInv
<1>3. CASE StopsBefore(r) \/ Finishes(r)
  <2>1. /\ workerAt[r] = "steps" /\ workerAt' = [workerAt EXCEPT ![r] = "json"]
        /\ \E how \in ResultStatuses : ending' = [ending EXCEPT ![r] = how]
        /\ UNCHANGED <<childJournal, started, resultJson, resultZip>>
    BY <1>3 DEF StopsBefore, Finishes, Ends, Turns, ResultStatuses
  <2>2. LaneTyped'
    BY <1>0, <2>1, TypesSame DEF LaneInv, LaneTyped, WorkerPlaces
  <2>3. JournalHolds'
    BY <1>0, <2>1, JournalSame DEF LaneInv, LaneTyped
  <2>4. SealHolds'
    BY <1>0, <2>1, SealSame DEF LaneInv, LaneTyped, SealHolds
  <2>. QED
    BY <1>0, <2>1, <2>2, <2>3, <2>4, ParentSame DEF LaneInv
<1>4. CASE Starts(r)
  <2> DEFINE step == Min(Todo(r))
  <2>1. /\ workerAt[r] = "exec" /\ workerAt' = [workerAt EXCEPT ![r] = "run"]
        /\ started' = [started EXCEPT ![r][step] = started[r][step] + 1]
        /\ UNCHANGED <<ending, childJournal, resultJson, resultZip>>
    BY <1>4 DEF Starts, Turns
  <2>2. Todo(r) # {} /\ childJournal[r][step] = "running" /\ started[r][step] = 0
    BY <2>1 DEF LaneInv, JournalHolds
  <2>3. step \in StepsOf
    BY <2>2, FirstTodo DEF LaneInv
  <2>4. LaneTyped'
    BY <1>0, <2>1, <2>3, TypesSame DEF LaneInv, LaneTyped, WorkerPlaces
  <2>5. StepsOf' = StepsOf /\ \A q \in Bundles : Todo(q)' = Todo(q)
    BY <1>0, <2>1, TypesSame DEF Todo
  <2>. HIDE DEF step
  <2>6. started'[r][step] = 1 /\ workerAt'[r] = "run"
    BY <2>1, <2>2, <2>3 DEF LaneInv, LaneTyped
  <2>7. \A q \in Bundles, s \in StepsOf : <<q, s>> # <<r, step>> => started'[q][s] = started[q][s]
    BY <2>1, <2>3 DEF LaneInv, LaneTyped
  <2>8. \A q \in Bundles : q # r => workerAt'[q] = workerAt[q] /\ started'[q] = started[q]
    BY <2>1 DEF LaneInv, LaneTyped
  <2>9. JournalHolds'
    <3>1. ASSUME NEW q \in Bundles, NEW s \in StepsOf
          PROVE  /\ started'[q][s] <= 1
                 /\ childJournal[q][s] = "none" => started'[q][s] = 0
                 /\ childJournal[q][s] = "completed" => started'[q][s] = 1
      BY <2>2, <2>6, <2>7 DEF LaneInv, JournalHolds
    <3>2. ASSUME NEW q \in Bundles
          PROVE  /\ workerAt'[q] = "exec" =>
                      /\ Todo(q) # {} /\ childJournal[q][Min(Todo(q))] = "running"
                      /\ started'[q][Min(Todo(q))] = 0
                 /\ workerAt'[q] = "run" =>
                      /\ Todo(q) # {} /\ childJournal[q][Min(Todo(q))] = "running"
                      /\ started'[q][Min(Todo(q))] = 1
      BY <2>2, <2>6, <2>8 DEF LaneInv, JournalHolds, step
    <3>. QED
      BY <2>1, <2>5, <3>1, <3>2 DEF JournalHolds
  <2>10. SealHolds'
    <3>1. ASSUME NEW q \in Bundles, NEW s \in resultJson[q].steps \cup resultZip[q].steps
          PROVE  started'[q][s] > 0
      <4>1. started[q][s] > 0 /\ s \in StepsOf
        BY DEF LaneInv, SealHolds, LaneTyped, Results
      <4>. QED
        BY <2>6, <2>7, <4>1
    <3>2. \A q \in Bundles : Sealed(q)' => workerAt'[q] \in {"off", "spawned", "status"}
      BY <1>0, <2>1, TypesSame DEF LaneInv, SealHolds, Sealed, LaneTyped
    <3>. QED
      BY <2>1, <3>1, <3>2 DEF SealHolds
  <2>. QED
    BY <1>0, <2>1, <2>4, <2>9, <2>10, ParentSame DEF LaneInv
<1>5. CASE StepEnds(r)
  <2>1. workerAt[r] = "run" /\ UNCHANGED <<started, resultJson, resultZip>>
    BY <1>5 DEF StepEnds
  <2>2. ~Sealed(r)
    BY <2>1 DEF LaneInv, SealHolds
  <2>3. CASE childJournal' = childJournal
    <3>1. /\ workerAt' = [workerAt EXCEPT ![r] = "json"] \/ workerAt' = [workerAt EXCEPT ![r] = "steps"]
          /\ ending' = ending \/ \E how \in ResultStatuses : ending' = [ending EXCEPT ![r] = how]
      BY <1>5 DEF StepEnds, Ends, Turns, ResultStatuses
    <3>2. LaneTyped'
      <4>1. workerAt' \in [Bundles -> WorkerPlaces] /\ ending' \in [Bundles -> ResultStatuses]
        BY <3>1 DEF LaneInv, LaneTyped, WorkerPlaces
      <4>. QED
        BY <1>0, <2>1, <2>3, <4>1, TypesSame DEF LaneInv, LaneTyped
    <3>3. JournalHolds'
      BY <1>0, <2>1, <2>3, <3>1, JournalSame DEF LaneInv, LaneTyped
    <3>4. SealHolds'
      BY <1>0, <2>1, <2>2, <3>1, SealSame DEF LaneInv, LaneTyped, SealHolds
    <3>. QED
      BY <1>0, <2>1, <3>2, <3>3, <3>4, ParentSame DEF LaneInv
  <2>4. CASE childJournal' # childJournal
    <3> DEFINE step == Min(Todo(r))
    <3>1. /\ workerAt' = [workerAt EXCEPT ![r] = "steps"] /\ ending' = ending
          /\ childJournal' = [childJournal EXCEPT ![r][step] = "completed"]
      BY <1>5, <2>4 DEF StepEnds, Turns
    <3>2. Todo(r) # {} /\ started[r][step] = 1
      BY <2>1 DEF LaneInv, JournalHolds
    <3>3. step \in StepsOf
      BY <3>2, FirstTodo DEF LaneInv
    <3>4. StepsOf' = StepsOf /\ \A q \in Bundles : q # r => Todo(q)' = Todo(q)
      BY <1>0, <3>1, TypesSame DEF Todo, LaneInv, LaneTyped
    <3>. HIDE DEF step
    <3>5. LaneTyped'
      BY <1>0, <2>1, <3>1, <3>3, TypesSame DEF LaneInv, LaneTyped, WorkerPlaces, Entries
    <3>6. ASSUME NEW q \in Bundles, NEW s \in StepsOf
          PROVE  /\ started[q][s] <= 1
                 /\ childJournal'[q][s] = "none" => started[q][s] = 0
                 /\ childJournal'[q][s] = "completed" => started[q][s] = 1
      BY <3>1, <3>2, <3>3 DEF LaneInv, LaneTyped, JournalHolds
    <3>7. workerAt'[r] = "steps" /\ \A q \in Bundles : q # r =>
            workerAt'[q] = workerAt[q] /\ childJournal'[q] = childJournal[q]
      BY <3>1 DEF LaneInv, LaneTyped
    <3>8. JournalHolds'
      BY <2>1, <3>4, <3>6, <3>7 DEF LaneInv, JournalHolds
    <3>9. SealHolds'
      BY <1>0, <2>1, <2>2, <3>7, SealSame DEF LaneInv, SealHolds
    <3>. QED
      BY <1>0, <2>1, <3>5, <3>8, <3>9, ParentSame DEF LaneInv
  <2>. QED
    BY <2>3, <2>4
<1>6. CASE SealsJson(r)
  <2>1. /\ workerAt[r] = "json" /\ workerAt' = [workerAt EXCEPT ![r] = "zip"]
        /\ resultJson' = [resultJson EXCEPT ![r] =
             [n |-> resultJson[r].n + 1, status |-> ending[r], steps |-> StepsOf \ Todo(r)]]
        /\ UNCHANGED <<ending, childJournal, started, resultZip>>
    BY <1>6 DEF SealsJson, Turns
  <2>2. [n |-> resultJson[r].n + 1, status |-> ending[r], steps |-> StepsOf \ Todo(r)] \in Results
    BY DEF LaneInv, LaneTyped, Results
  <2>3. LaneTyped'
    BY <1>0, <2>1, <2>2, TypesSame DEF LaneInv, LaneTyped, WorkerPlaces
  <2>4. JournalHolds'
    BY <1>0, <2>1, JournalSame DEF LaneInv, LaneTyped
  <2>5. SealHolds'
    <3>1. ASSUME NEW s \in StepsOf \ Todo(r) PROVE started[r][s] > 0
      <4>1. childJournal[r][s] = "completed"
        BY DEF Todo
      <4>. QED
        BY <4>1 DEF LaneInv, JournalHolds
    <3>2. /\ resultJson'[r].steps = StepsOf \ Todo(r)
          /\ \A q \in Bundles : q # r => resultJson'[q] = resultJson[q]
      BY <2>1 DEF LaneInv, LaneTyped
    <3>3. \A q \in Bundles : \A s \in resultJson'[q].steps \cup resultZip'[q].steps : started'[q][s] > 0
      BY <2>1, <3>1, <3>2 DEF LaneInv, SealHolds
    <3>4. \A q \in Bundles : Sealed(q)' => workerAt'[q] \in {"off", "spawned", "status"}
      BY <1>0, <2>1, TypesSame DEF LaneInv, SealHolds, Sealed, LaneTyped
    <3>. QED
      BY <3>3, <3>4 DEF SealHolds
  <2>. QED
    BY <1>0, <2>1, <2>3, <2>4, <2>5, ParentSame DEF LaneInv
<1>7. CASE SealsZip(r)
  <2>1. /\ workerAt[r] = "zip" /\ workerAt' = [workerAt EXCEPT ![r] = "status"]
        /\ resultZip' = [resultZip EXCEPT ![r] = resultJson[r]]
        /\ UNCHANGED <<ending, childJournal, started, resultJson>>
    BY <1>7 DEF SealsZip, Turns
  <2>2. resultZip[r] = NoResult
    BY <2>1 DEF LaneInv, SealHolds, Sealed
  <2>3. LaneTyped'
    BY <1>0, <2>1, TypesSame DEF LaneInv, LaneTyped, WorkerPlaces
  <2>4. JournalHolds'
    BY <1>0, <2>1, JournalSame DEF LaneInv, LaneTyped
  <2>5. /\ resultZip'[r] = resultJson[r] /\ workerAt'[r] = "status"
        /\ \A q \in Bundles : q # r => resultZip'[q] = resultZip[q] /\ workerAt'[q] = workerAt[q]
    BY <2>1 DEF LaneInv, LaneTyped
  <2>6. SealHolds'
    <3>1. \A q \in Bundles : \A s \in resultJson'[q].steps \cup resultZip'[q].steps : started'[q][s] > 0
      BY <2>1, <2>5 DEF LaneInv, SealHolds
    <3>2. \A q \in Bundles : Sealed(q)' => workerAt'[q] \in {"off", "spawned", "status"}
      BY <1>0, <2>5, TypesSame DEF LaneInv, SealHolds, Sealed
    <3>. QED
      BY <3>1, <3>2 DEF SealHolds
  <2>7. ParentHolds'
    <3>1. kept[r] = NoResult /\ fetched[r] = NoResult
      BY <2>2 DEF LaneInv, ParentHolds
    <3>2. \A q \in Bundles :
            /\ fetched[q] \in {NoResult, resultZip'[q]}
            /\ kept[q] # NoResult =>
                 kept[q] = resultZip'[q] /\ kept[q].status = "completed" /\ kept[q].steps = StepsOf
            /\ intent[q].accepted # 0 => intent[q].accepted = kept[q].n
      BY <2>5, <3>1 DEF LaneInv, ParentHolds
    <3>. QED
      BY <1>0, <3>2, TypesSame DEF ParentHolds
  <2>. QED
    BY <2>3, <2>4, <2>6, <2>7 DEF LaneInv
<1>8. CASE SealsStatus(r) \/ Bootstraps(r)
  <2>1. /\ workerAt' = [workerAt EXCEPT ![r] = "off"]
        /\ UNCHANGED <<ending, childJournal, started, resultJson, resultZip>>
    BY <1>8 DEF SealsStatus, Bootstraps, Turns
  <2>2. LaneTyped'
    BY <1>0, <2>1, TypesSame DEF LaneInv, LaneTyped, WorkerPlaces
  <2>3. JournalHolds'
    BY <1>0, <2>1, JournalSame DEF LaneInv, LaneTyped
  <2>4. SealHolds'
    BY <1>0, <2>1, SealSame DEF LaneInv, LaneTyped, SealHolds
  <2>. QED
    BY <1>0, <2>1, <2>2, <2>3, <2>4, ParentSame DEF LaneInv
<1>. QED
  BY <1>1, <1>2, <1>3, <1>4, <1>5, <1>6, <1>7, <1>8 DEF WorkerMoves

(* A new status says nothing of what is accepted. *)
LEMMA StatusOnly ==
  ASSUME LaneInv, NEW r \in Bundles, NEW value, NEW other,
         \/ intent' = intent
         \/ intent' = [intent EXCEPT ![r].status = value]
         \/ intent' = [intent EXCEPT ![r].is = other]
         \/ intent' = [intent EXCEPT ![r].is = other, ![r].status = value]
  PROVE  /\ DOMAIN intent' = Bundles
         /\ \A q \in Bundles : /\ DOMAIN intent'[q] = {"is", "status", "accepted"}
                               /\ intent'[q].accepted = intent[q].accepted
<1>1. DOMAIN intent = Bundles /\ DOMAIN intent[r] = {"is", "status", "accepted"}
  BY DEF LaneInv, LaneTyped
<1>2. DOMAIN intent' = Bundles /\ \A q \in Bundles : q # r => intent'[q] = intent[q]
  BY <1>1
<1>3. \/ intent'[r] = intent[r]
      \/ intent'[r] = [intent[r] EXCEPT !.status = value]
      \/ intent'[r] = [intent[r] EXCEPT !.is = other]
      \/ intent'[r] = [intent[r] EXCEPT !.is = other, !.status = value]
  BY <1>1
<1>4. DOMAIN intent'[r] = {"is", "status", "accepted"} /\ intent'[r].accepted = intent[r].accepted
  BY <1>1, <1>3
<1>. QED
  BY <1>2, <1>4 DEF LaneInv, LaneTyped

LEMMA SubmitKeeps ==
  ASSUME LaneInv, NEW r \in Bundles, lane' = lane, SubmitStep(r)
  PROVE  LaneInv'
<1>1. UNCHANGED <<kept, fetched, ending, childJournal, started, resultJson, resultZip>>
  BY DEF SubmitStep, SubmitBundle, WriteIntent, PrepareLane, AdapterSubmit, ServerReceives, workVars,
         parentVars
<1>2. workerAt' = workerAt \/ (workerAt[r] = "off" /\ workerAt' = [workerAt EXCEPT ![r] = "spawned"])
  BY DEF SubmitStep, SubmitBundle, WriteIntent, PrepareLane, AdapterSubmit, ServerReceives, workVars,
         Spawns, ClaimsOnly
<1>3. DOMAIN dispatcher' = Bundles
  BY DEF SubmitStep, SubmitBundle, WriteIntent, PrepareLane, AdapterSubmit, ServerReceives, parentVars,
         Moves, LaneInv, LaneTyped
<1>4. /\ DOMAIN intent' = Bundles
      /\ \A q \in Bundles : /\ DOMAIN intent'[q] = {"is", "status", "accepted"}
                            /\ intent'[q].accepted = intent[q].accepted
  <2>1. CASE intent' = intent
    BY <2>1 DEF LaneInv, LaneTyped
  <2>2. CASE intent' # intent
    <3>1. \/ intent' = [intent EXCEPT ![r].is = "torn"]
          \/ intent' = [intent EXCEPT ![r].is = "kept", ![r].status = "prepared"]
          \/ intent' = [intent EXCEPT ![r].status = "submission_unknown"]
          \/ intent' = [intent EXCEPT ![r].status = "submitted"]
      BY <2>2 DEF SubmitStep, SubmitBundle, WriteIntent, PrepareLane, AdapterSubmit, ServerReceives,
                  parentVars, Saves, IntendsFirst
    <3>. QED
      BY <3>1, StatusOnly
  <2>. QED
    BY <2>1, <2>2
<1>5. LaneTyped'
  BY <1>1, <1>2, <1>3, <1>4, TypesSame DEF LaneInv, LaneTyped, WorkerPlaces
<1>6. JournalHolds'
  BY <1>1, <1>2, JournalSame DEF LaneInv, LaneTyped
<1>7. SealHolds'
  BY <1>1, <1>2, SealSame DEF LaneInv, LaneTyped, SealHolds
<1>8. ParentHolds'
  BY <1>1, <1>4, TypesSame DEF LaneInv, ParentHolds
<1>. QED
  BY <1>5, <1>6, <1>7, <1>8 DEF LaneInv

(* A command that works on the parent's side leaves the worker alone. *)
LEMMA UpdateKeeps ==
  ASSUME LaneInv, NEW r \in Bundles, lane' = lane, UpdateStep(r)
  PROVE  LaneInv'
<1>1. UNCHANGED <<workerAt, ending, childJournal, started, resultJson, resultZip>>
  BY DEF UpdateStep, Expire, CancelDispatch, AdapterCancel, ReconcileDispatch, StatusDispatch,
         FetchDispatch, ValidateResult, SaveVerified, workVars
<1>2. DOMAIN dispatcher' = Bundles
  BY DEF UpdateStep, Expire, CancelDispatch, AdapterCancel, ReconcileDispatch, StatusDispatch,
         FetchDispatch, ValidateResult, SaveVerified, Moves, LaneInv, LaneTyped
<1>3. JournalHolds'
  BY <1>1, JournalSame
<1>4. SealHolds'
  BY <1>1, SealSame DEF LaneInv, SealHolds
<1>5. CASE Expire(r) \/ CancelDispatch(r) \/ AdapterCancel(r) \/ ReconcileDispatch(r) \/ StatusDispatch(r)
  <2>1. UNCHANGED <<kept, fetched>>
    BY <1>5 DEF Expire, CancelDispatch, AdapterCancel, ReconcileDispatch, StatusDispatch
  <2>2. intent' = intent \/ \E value : intent' = [intent EXCEPT ![r].status = value]
    BY <1>5 DEF Expire, CancelDispatch, AdapterCancel, ReconcileDispatch, StatusDispatch, Saves
  <2>3. /\ DOMAIN intent' = Bundles
        /\ \A q \in Bundles : /\ DOMAIN intent'[q] = {"is", "status", "accepted"}
                              /\ intent'[q].accepted = intent[q].accepted
    BY <2>2, StatusOnly
  <2>. QED
    BY <1>1, <1>2, <1>3, <1>4, <2>1, <2>3, TypesSame DEF LaneInv, LaneTyped, ParentHolds
<1>6. CASE FetchDispatch(r)
  <2>1. /\ kept' = kept /\ fetched' = [fetched EXCEPT ![r] = resultZip[r]]
        /\ intent' = [intent EXCEPT ![r].status = "downloaded"]
    BY <1>6 DEF FetchDispatch, Saves
  <2>2. /\ DOMAIN intent' = Bundles
        /\ \A q \in Bundles : /\ DOMAIN intent'[q] = {"is", "status", "accepted"}
                              /\ intent'[q].accepted = intent[q].accepted
    BY <2>1, StatusOnly
  <2>3. LaneTyped'
    BY <1>1, <1>2, <2>1, <2>2, TypesSame DEF LaneInv, LaneTyped
  <2>4. ParentHolds'
    BY <1>1, <2>1, <2>2, TypesSame DEF LaneInv, LaneTyped, ParentHolds
  <2>. QED
    BY <1>3, <1>4, <2>3, <2>4 DEF LaneInv
<1>7. CASE ValidateResult(r)
  <2>1. intent' = intent /\ fetched' = [fetched EXCEPT ![r] = NoResult]
    BY <1>7 DEF ValidateResult
  <2>2. \/ kept' = kept
        \/ Verifies(r) /\ kept' = [kept EXCEPT ![r] = fetched[r]]
    BY <1>7 DEF ValidateResult
  <2>3. LaneTyped'
    BY <1>1, <1>2, <2>1, <2>2, TypesSame, NoResultTyped DEF LaneInv, LaneTyped
  <2>4. \A q \in Bundles : fetched'[q] \in {NoResult, resultZip[q]}
    BY <2>1 DEF LaneInv, LaneTyped, ParentHolds
  <2>5. ASSUME kept' = kept PROVE ParentHolds'
    <3>1. \A q \in Bundles :
            /\ kept[q] # NoResult =>
                 kept[q] = resultZip[q] /\ kept[q].status = "completed" /\ kept[q].steps = StepsOf
            /\ intent[q].accepted # 0 => intent[q].accepted = kept[q].n
      BY DEF LaneInv, ParentHolds
    <3>2. NoResult' = NoResult /\ StepsOf' = StepsOf
      BY TypesSame
    <3>. QED
      BY <1>1, <2>1, <2>4, <2>5, <3>1, <3>2 DEF ParentHolds
  <2>6. ASSUME Verifies(r), kept' = [kept EXCEPT ![r] = fetched[r]] PROVE ParentHolds'
    <3>1. /\ fetched[r].status = "completed" /\ fetched[r].steps = StepsOf
          /\ kept[r] \in {NoResult, fetched[r]}
      BY <2>6 DEF Verifies
    <3>2. fetched[r] = resultZip[r]
      BY <3>1 DEF LaneInv, ParentHolds, NoResult
    <3>3. intent[r].accepted # 0 => intent[r].accepted = fetched[r].n
      BY <2>6 DEF Verifies
    <3>4. kept'[r] = fetched[r] /\ \A q \in Bundles : q # r => kept'[q] = kept[q]
      BY <2>6 DEF LaneInv, LaneTyped
    <3>5. ASSUME NEW q \in Bundles
          PROVE  /\ kept'[q] # NoResult =>
                      kept'[q] = resultZip[q] /\ kept'[q].status = "completed" /\ kept'[q].steps = StepsOf
                 /\ intent[q].accepted # 0 => intent[q].accepted = kept'[q].n
      BY <3>1, <3>2, <3>3, <3>4 DEF LaneInv, ParentHolds
    <3>6. NoResult' = NoResult /\ StepsOf' = StepsOf
      BY TypesSame
    <3>. QED
      BY <1>1, <2>1, <2>4, <3>5, <3>6 DEF ParentHolds
  <2>. QED
    BY <1>3, <1>4, <2>2, <2>3, <2>5, <2>6 DEF LaneInv
<1>8. CASE SaveVerified(r)
  <2>1. /\ UNCHANGED <<kept, fetched>>
        /\ intent' = [intent EXCEPT ![r].status = "verified", ![r].accepted = kept[r].n]
    BY <1>8 DEF SaveVerified
  <2>2. /\ DOMAIN intent' = Bundles
        /\ \A q \in Bundles : /\ DOMAIN intent'[q] = {"is", "status", "accepted"}
                              /\ intent'[q].accepted \in {intent[q].accepted, kept[q].n}
    BY <2>1 DEF LaneInv, LaneTyped
  <2>3. LaneTyped'
    BY <1>1, <1>2, <2>1, <2>2, TypesSame DEF LaneInv, LaneTyped
  <2>4. ParentHolds'
    BY <1>1, <2>1, <2>2, TypesSame DEF LaneInv, ParentHolds
  <2>. QED
    BY <1>3, <1>4, <2>3, <2>4 DEF LaneInv
<1>. QED
  BY <1>5, <1>6, <1>7, <1>8 DEF UpdateStep

LEMMA DeathKeeps ==
  ASSUME LaneInv, NEW r \in Bundles, lane' = lane, DispatcherDies(r) \/ WorkerKilled(r)
  PROVE  LaneInv'
<1>1. /\ UNCHANGED <<intent, kept, ending, childJournal, started, resultJson, resultZip>>
      /\ fetched' = fetched \/ fetched' = [fetched EXCEPT ![r] = NoResult]
      /\ workerAt' = workerAt \/ workerAt' = [workerAt EXCEPT ![r] = "off"]
      /\ dispatcher' = dispatcher \/ dispatcher' = [dispatcher EXCEPT ![r] = "off"]
  BY DEF DispatcherDies, WorkerKilled, workVars, parentVars, Moves, Turns
<1>2. /\ fetched' \in [Bundles -> Results] /\ workerAt' \in [Bundles -> WorkerPlaces]
      /\ DOMAIN dispatcher' = Bundles
  <2>1. fetched' \in [Bundles -> Results]
    BY <1>1, NoResultTyped DEF LaneInv, LaneTyped
  <2>2. workerAt' \in [Bundles -> WorkerPlaces]
    BY <1>1 DEF LaneInv, LaneTyped, WorkerPlaces
  <2>3. DOMAIN dispatcher' = Bundles
    BY <1>1 DEF LaneInv, LaneTyped
  <2>. QED
    BY <2>1, <2>2, <2>3
<1>3. LaneTyped'
  BY <1>1, <1>2, TypesSame DEF LaneInv, LaneTyped
<1>4. JournalHolds'
  BY <1>1, JournalSame DEF LaneInv, LaneTyped
<1>5. SealHolds'
  BY <1>1, SealSame DEF LaneInv, LaneTyped, SealHolds
<1>6. \A q \in Bundles : fetched'[q] \in {NoResult, resultZip[q]}
  BY <1>1 DEF LaneInv, LaneTyped, ParentHolds
<1>7. ParentHolds'
  BY <1>1, <1>6, TypesSame DEF LaneInv, ParentHolds
<1>. QED
  BY <1>3, <1>4, <1>5, <1>7 DEF LaneInv

LEMMA LaneStill ==
  ASSUME LaneInv, UNCHANGED <<lane, parentVars, workVars>>
  PROVE  LaneInv'
<1>1. UNCHANGED <<intent, kept, dispatcher, fetched, workerAt, ending, childJournal, started,
                  resultJson, resultZip>>
  BY DEF parentVars, workVars
<1>2. LaneTyped'
  BY <1>1, TypesSame DEF LaneInv, LaneTyped
<1>3. JournalHolds' /\ SealHolds' /\ ParentHolds'
  BY <1>1, JournalSame, SealSame, ParentSame DEF LaneInv, SealHolds
<1>. QED
  BY <1>2, <1>3 DEF LaneInv

LEMMA LaneMoves == LaneInv /\ [LaneNext]_laneVars => LaneInv'
<1>. SUFFICES ASSUME LaneInv, [LaneNext]_laneVars PROVE LaneInv'
  OBVIOUS
<1>1. CASE LaneNext
  <2>1. lane' = lane /\ lane.bundles \subseteq Bundles
    BY <1>1 DEF LaneNext, LaneInv, LaneTyped, LaneKinds
  <2>2. PICK r \in Bundles :
          \/ SubmitStep(r) \/ UpdateStep(r)
          \/ WorkerMoves(r) /\ UNCHANGED parentVars
          \/ DispatcherDies(r) \/ WorkerKilled(r)
          \/ UNCHANGED <<parentVars, workVars>>
    BY <1>1, <2>1 DEF LaneNext
  <2>. QED
    BY <2>1, <2>2, SubmitKeeps, UpdateKeeps, WorkerKeeps, DeathKeeps, LaneStill
<1>2. CASE UNCHANGED laneVars
  BY <1>2, LaneStill DEF laneVars
<1>. QED
  BY <1>1, <1>2

(* However replies get lost, uploads arrive late, commands and workers are  *)
(* killed and the worker is run again, no command of a recipe is started    *)
(* twice, and what the parent accepts is the one archive of a complete run  *)
(* (remote/dispatch.py, remote/worker.py), for every recipe and any number  *)
(* of kills and reruns.                                                     *)
THEOREM LaneRunsOnce == LaneSpec => []AcceptedRanOnce
<1>1. LaneInv => AcceptedRanOnce
  <2>. SUFFICES ASSUME LaneInv PROVE AcceptedRanOnce
    OBVIOUS
  <2>1. ExecutedOnce
    BY DEF LaneInv, JournalHolds, ExecutedOnce
  <2>2. AcceptedIsSealed
    <3>1. ASSUME NEW r \in Bundles, kept[r] # NoResult, NEW s \in StepsOf
          PROVE  started[r][s] > 0
      BY <3>1 DEF LaneInv, ParentHolds, SealHolds
    <3>. QED
      BY <3>1 DEF LaneInv, ParentHolds, AcceptedIsSealed
  <2>. QED
    BY <2>1, <2>2 DEF AcceptedRanOnce
<1>. QED
  BY <1>1, LaneStarts, LaneMoves, PTL DEF LaneSpec

----------------------------------------------------------------------------
(* Requests to a hosted model. *)

ApiTyped ==
  /\ api.requests \subseteq ApiRequests /\ rechecks \in Nat
  /\ DOMAIN apiLedger = ApiRequests /\ DOMAIN caller = ApiRequests
  /\ \A r \in ApiRequests : /\ DOMAIN apiLedger[r] = {"is", "status", "job"}
                            /\ DOMAIN caller[r] = {"at", "by", "leaves"}
  /\ posts \in [ApiRequests -> Nat]

\* A request that was posted is never prepared again.
PostHolds(r) ==
  /\ posts[r] <= 1
  /\ apiLedger[r].is # "kept" \/ StatusOf(r) = "prepared" => posts[r] = 0
  /\ At(r, "write") => apiLedger[r].is = "torn"
  /\ At(r, "post") => apiLedger[r].is = "kept" /\ StatusOf(r) = "submission_unknown" /\ posts[r] = 0

\* One run at a time has the connection, which says so.
RunHolds(r) ==
  /\ caller[r].by = "run" =>
       connection = "checking" /\ \A q \in ApiRequests \ {r} : caller[q].by # "run"
  /\ At(r, "settle") => caller[r].by = "run"

\* A run that leaves a request in doubt leaves the connection paused.
DoubtHolds(r) ==
  rechecks = 0 /\ StatusOf(r) = "submission_unknown" =>
    /\ connection \in Shut
    /\ \A q \in ApiRequests \ {r} : caller[q].by # "run"
    /\ At(r, "settle") => caller[r].leaves = "paused"

ApiInv == ApiTyped /\ \A r \in ApiRequests : PostHolds(r) /\ RunHolds(r) /\ DoubtHolds(r)

LEMMA ApiStarts == api.requests \subseteq ApiRequests /\ ApiInit => ApiInv
<1>. SUFFICES ASSUME api.requests \subseteq ApiRequests, ApiInit PROVE ApiInv
  OBVIOUS
<1>1. ApiTyped
  BY DEF ApiInit, ApiTyped, NoCall
<1>2. ASSUME NEW r \in ApiRequests PROVE PostHolds(r) /\ RunHolds(r) /\ DoubtHolds(r)
  BY DEF ApiInit, NoCall, PostHolds, RunHolds, DoubtHolds, StatusOf, At
<1>. QED
  BY <1>1, <1>2 DEF ApiInv

(* The requests a command does not address. *)
OthersSame(r) ==
  \A q \in ApiRequests : q # r =>
    apiLedger'[q] = apiLedger[q] /\ caller'[q] = caller[q] /\ posts'[q] = posts[q]

(* A step that leaves the connection alone keeps the invariant if it keeps what it says of its request. *)
LEMMA QuietStep ==
  ASSUME ApiInv, NEW r \in ApiRequests, ApiTyped', OthersSame(r), UNCHANGED <<connection, rechecks>>,
         PostHolds(r)',
         caller'[r].by = "run" => caller[r].by = "run",
         At(r, "settle")' => caller'[r].by = "run",
         StatusOf(r)' = "submission_unknown" =>
           /\ StatusOf(r) = "submission_unknown" \/ caller[r].by = "run"
           /\ rechecks = 0 /\ At(r, "settle")' => caller'[r].leaves = "paused"
  PROVE  ApiInv'
<1>1. ASSUME NEW q \in ApiRequests, q # r PROVE (PostHolds(q) /\ RunHolds(q) /\ DoubtHolds(q))'
  BY <1>1 DEF ApiInv, OthersSame, PostHolds, RunHolds, DoubtHolds, StatusOf, At, Shut
<1>2. RunHolds(r)'
  BY DEF ApiInv, OthersSame, RunHolds, At
<1>3. DoubtHolds(r)'
  <2>. SUFFICES ASSUME rechecks = 0, StatusOf(r)' = "submission_unknown"
                PROVE  /\ connection \in Shut
                       /\ \A q \in ApiRequests \ {r} : caller[q].by # "run"
    BY DEF DoubtHolds, OthersSame, Shut, At, StatusOf
  <2>1. CASE StatusOf(r) = "submission_unknown"
    BY <2>1 DEF ApiInv, DoubtHolds
  <2>2. CASE caller[r].by = "run"
    BY <2>2 DEF ApiInv, RunHolds, Shut
  <2>. QED
    BY <2>1, <2>2
<1>. QED
  BY <1>1, <1>2, <1>3 DEF ApiInv

(* What the helpers of the actions do to the two records. *)
LEMMA CallsDoes ==
  ASSUME ApiInv, NEW r \in ApiRequests, NEW step, Calls(r, step)
  PROVE  /\ DOMAIN caller' = ApiRequests /\ DOMAIN caller'[r] = {"at", "by", "leaves"}
         /\ caller'[r].at = step /\ caller'[r].by = caller[r].by /\ caller'[r].leaves = caller[r].leaves
         /\ \A q \in ApiRequests : q # r => caller'[q] = caller[q]
<1>1. DOMAIN caller = ApiRequests /\ DOMAIN caller[r] = {"at", "by", "leaves"}
  BY DEF ApiInv, ApiTyped
<1>2. /\ DOMAIN caller' = ApiRequests /\ caller'[r] = [caller[r] EXCEPT !.at = step]
      /\ \A q \in ApiRequests : q # r => caller'[q] = caller[q]
  BY <1>1 DEF Calls
<1>. QED
  BY <1>1, <1>2

LEMMA QuitsDoes ==
  ASSUME ApiInv, NEW r \in ApiRequests, NEW status, Quits(r, status)
  PROVE  /\ DOMAIN caller' = ApiRequests /\ DOMAIN caller'[r] = {"at", "by", "leaves"}
         /\ caller'[r].at \in {"settle", "off"}
         /\ caller'[r].at = "settle" => caller'[r].by = "run" /\ caller'[r].leaves = status
         /\ caller'[r].by = "run" => caller[r].by = "run"
         /\ \A q \in ApiRequests : q # r => caller'[q] = caller[q]
<1>1. DOMAIN caller = ApiRequests /\ DOMAIN caller[r] = {"at", "by", "leaves"}
  BY DEF ApiInv, ApiTyped
<1>2. /\ DOMAIN caller' = ApiRequests
      /\ caller'[r] = IF caller[r].by = "run" THEN [caller[r] EXCEPT !.at = "settle", !.leaves = status] ELSE NoCall
      /\ \A q \in ApiRequests : q # r => caller'[q] = caller[q]
  BY <1>1 DEF Quits
<1>3. CASE caller[r].by = "run"
  BY <1>1, <1>2, <1>3
<1>4. CASE caller[r].by # "run"
  BY <1>2, <1>4 DEF NoCall
<1>. QED
  BY <1>2, <1>3, <1>4

LEMMA KeepsDoes ==
  ASSUME ApiInv, NEW r \in ApiRequests, NEW status, Keeps(r, status)
  PROVE  /\ DOMAIN apiLedger' = ApiRequests /\ DOMAIN apiLedger'[r] = {"is", "status", "job"}
         /\ apiLedger'[r].status = status /\ apiLedger'[r].is = apiLedger[r].is
         /\ apiLedger'[r].job = apiLedger[r].job
         /\ \A q \in ApiRequests : q # r => apiLedger'[q] = apiLedger[q]
<1>1. DOMAIN apiLedger = ApiRequests /\ DOMAIN apiLedger[r] = {"is", "status", "job"}
  BY DEF ApiInv, ApiTyped
<1>2. /\ DOMAIN apiLedger' = ApiRequests /\ apiLedger'[r] = [apiLedger[r] EXCEPT !.status = status]
      /\ \A q \in ApiRequests : q # r => apiLedger'[q] = apiLedger[q]
  BY <1>1 DEF Keeps
<1>. QED
  BY <1>1, <1>2

(* A command moves on, and its ledger may get a status. *)
LEMMA MovesOn ==
  ASSUME ApiInv, NEW r \in ApiRequests, UNCHANGED <<api, connection, rechecks, posts>>,
         NEW status, status \notin {"prepared", "submission_unknown"},
         apiLedger' = apiLedger \/ Keeps(r, status),
         \/ \E step \in {"poll", "fetch", "publish", "complete"} : Calls(r, step)
         \/ Quits(r, "paused")
         \/ Quits(r, "ready") /\ (Keeps(r, status) \/ StatusOf(r) # "submission_unknown")
  PROVE  ApiInv'
<1>1. /\ DOMAIN apiLedger' = ApiRequests /\ DOMAIN apiLedger'[r] = {"is", "status", "job"}
      /\ apiLedger'[r].is = apiLedger[r].is
      /\ apiLedger'[r].status = apiLedger[r].status \/ apiLedger'[r].status \notin {"prepared", "submission_unknown"}
      /\ \A q \in ApiRequests : q # r => apiLedger'[q] = apiLedger[q]
  BY KeepsDoes DEF ApiInv, ApiTyped
<1>2. /\ DOMAIN caller' = ApiRequests /\ DOMAIN caller'[r] = {"at", "by", "leaves"}
      /\ caller'[r].at \notin {"write", "post"}
      /\ caller'[r].by = "run" => caller[r].by = "run"
      /\ caller'[r].at = "settle" =>
           /\ caller'[r].by = "run"
           /\ apiLedger'[r].status = "submission_unknown" => caller'[r].leaves = "paused"
      /\ \A q \in ApiRequests : q # r => caller'[q] = caller[q]
  <2>1. CASE \E step \in {"poll", "fetch", "publish", "complete"} : Calls(r, step)
    BY <2>1, CallsDoes
  <2>2. CASE Quits(r, "paused")
    BY <2>2, QuitsDoes
  <2>3. CASE Quits(r, "ready") /\ (Keeps(r, status) \/ StatusOf(r) # "submission_unknown")
    BY <1>1, <2>3, QuitsDoes, KeepsDoes DEF StatusOf
  <2>. QED
    BY <2>1, <2>2, <2>3
<1>3. ApiTyped'
  BY <1>1, <1>2 DEF ApiInv, ApiTyped
<1>4. PostHolds(r)'
  BY <1>1, <1>2 DEF ApiInv, PostHolds, StatusOf, At
<1>. QED
  BY <1>1, <1>2, <1>3, <1>4, QuietStep DEF OthersSame, StatusOf, At

LEMMA ObserverKeeps ==
  ASSUME ApiInv, NEW r \in ApiRequests, api' = api,
         RecoverApi(r) \/ ReturnApi(r) \/ GoPoll(r) \/ PollApi(r) \/ FetchApi(r) \/ PublishApi(r)
           \/ CompleteApi(r)
  PROVE  ApiInv'
<1>1. CASE RecoverApi(r)
  BY <1>1, MovesOn DEF RecoverApi
<1>2. CASE ReturnApi(r)
  <2>1. UNCHANGED <<apiLedger, connection, rechecks, posts>>
    BY <1>2 DEF ReturnApi
  <2>2. \/ Quits(r, "paused")
        \/ Quits(r, "ready") /\ StatusOf(r) # "submission_unknown"
    BY <1>2 DEF ReturnApi
  <2>. QED
    BY <2>1, <2>2, MovesOn
<1>3. CASE GoPoll(r)
  BY <1>3, MovesOn DEF GoPoll
<1>4. CASE PollApi(r)
  <2>1. UNCHANGED <<connection, rechecks, posts>>
    BY <1>4 DEF PollApi
  <2>2. CASE FailsObserving(r)
    BY <2>1, <2>2, MovesOn DEF FailsObserving
  <2>3. CASE Keeps(r, "running") /\ (Calls(r, "poll") \/ Quits(r, "ready"))
    BY <2>1, <2>3, MovesOn
  <2>4. CASE Keeps(r, IF api.extended THEN apiJob[r] ELSE "failed") /\ Quits(r, "paused")
             /\ apiJob[r] \in {"failed", "cancelled"}
    <3>1. (IF api.extended THEN apiJob[r] ELSE "failed") \notin {"prepared", "submission_unknown"}
      BY <2>4
    <3>. QED
      BY <2>1, <2>4, <3>1, MovesOn
  <2>5. CASE Keeps(r, "remote_completed") /\ Calls(r, "fetch")
    BY <2>1, <2>5, MovesOn
  <2>. QED
    BY <1>4, <2>2, <2>3, <2>4, <2>5 DEF PollApi
<1>5. CASE FetchApi(r)
  BY <1>5, MovesOn DEF FetchApi, FailsObserving
<1>6. CASE PublishApi(r)
  BY <1>6, MovesOn DEF PublishApi
<1>7. CASE CompleteApi(r)
  BY <1>7, MovesOn DEF CompleteApi
<1>. QED
  BY <1>1, <1>2, <1>3, <1>4, <1>5, <1>6, <1>7

(* The intent, the doubt before the POST, and the POST. *)
LEMMA PosterKeeps ==
  ASSUME ApiInv, NEW r \in ApiRequests, api' = api, MakeApiIntent(r) \/ BeginPost(r) \/ PostApi(r)
  PROVE  ApiInv'
<1>1. UNCHANGED <<connection, rechecks>>
  BY DEF MakeApiIntent, BeginPost, PostApi
<1>2. /\ DOMAIN apiLedger = ApiRequests /\ DOMAIN apiLedger[r] = {"is", "status", "job"}
      /\ DOMAIN caller = ApiRequests /\ posts \in [ApiRequests -> Nat]
  BY DEF ApiInv, ApiTyped
<1>3. CASE MakeApiIntent(r) /\ At(r, "open") /\ apiLedger[r].is = "none"
  <2>1. /\ apiLedger' = [apiLedger EXCEPT ![r].is = "torn"] /\ Calls(r, "write") /\ posts' = posts
    BY <1>3 DEF MakeApiIntent, At
  <2>2. /\ DOMAIN apiLedger' = ApiRequests /\ apiLedger'[r] = [apiLedger[r] EXCEPT !.is = "torn"]
        /\ \A q \in ApiRequests : q # r => apiLedger'[q] = apiLedger[q]
    BY <1>2, <2>1
  <2>3. /\ DOMAIN apiLedger'[r] = {"is", "status", "job"} /\ apiLedger'[r].is = "torn"
        /\ apiLedger'[r].status = apiLedger[r].status
    BY <1>2, <2>2
  <2>4. /\ DOMAIN caller' = ApiRequests /\ DOMAIN caller'[r] = {"at", "by", "leaves"}
        /\ caller'[r].at = "write" /\ caller'[r].by = caller[r].by
        /\ \A q \in ApiRequests : q # r => caller'[q] = caller[q]
    BY <2>1, CallsDoes
  <2>5. ApiTyped'
    BY <1>1, <2>1, <2>2, <2>3, <2>4 DEF ApiInv, ApiTyped
  <2>6. PostHolds(r)'
    BY <1>3, <2>1, <2>3, <2>4 DEF ApiInv, PostHolds, StatusOf, At
  <2>. QED
    BY <1>1, <2>1, <2>2, <2>3, <2>4, <2>5, <2>6, QuietStep DEF OthersSame, StatusOf, At
<1>4. CASE MakeApiIntent(r) /\ At(r, "open") /\ apiLedger[r].is = "torn"
  BY <1>1, <1>4, MovesOn DEF MakeApiIntent, At
<1>5. CASE MakeApiIntent(r) /\ At(r, "write")
  <2>1. /\ apiLedger' = [apiLedger EXCEPT ![r].is = "kept", ![r].status = "prepared"]
        /\ Calls(r, "open") /\ posts' = posts
    BY <1>5 DEF MakeApiIntent, At
  <2>2. /\ DOMAIN apiLedger' = ApiRequests
        /\ apiLedger'[r] = [apiLedger[r] EXCEPT !.is = "kept", !.status = "prepared"]
        /\ \A q \in ApiRequests : q # r => apiLedger'[q] = apiLedger[q]
    BY <1>2, <2>1
  <2>3. DOMAIN apiLedger'[r] = {"is", "status", "job"} /\ apiLedger'[r].status = "prepared"
    BY <1>2, <2>2
  <2>4. /\ DOMAIN caller' = ApiRequests /\ DOMAIN caller'[r] = {"at", "by", "leaves"}
        /\ caller'[r].at = "open" /\ caller'[r].by = caller[r].by
        /\ \A q \in ApiRequests : q # r => caller'[q] = caller[q]
    BY <2>1, CallsDoes
  <2>5. ApiTyped'
    BY <1>1, <2>1, <2>2, <2>3, <2>4 DEF ApiInv, ApiTyped
  <2>6. posts[r] = 0
    BY <1>5 DEF ApiInv, PostHolds, At
  <2>7. PostHolds(r)'
    BY <2>1, <2>4, <2>6 DEF PostHolds, At
  <2>. QED
    BY <1>1, <2>2, <2>3, <2>4, <2>5, <2>7, <2>1, QuietStep DEF OthersSame, StatusOf, At
<1>6. CASE BeginPost(r)
  <2>1. apiLedger[r].is = "kept" /\ StatusOf(r) = "prepared" /\ caller[r].by = "run" /\ posts' = posts
    BY <1>6 DEF BeginPost, Standing
  <2>2. CASE Quits(r, "paused") /\ (apiLedger' = apiLedger \/ Keeps(r, "failed"))
    BY <1>1, <2>1, <2>2, MovesOn
  <2>3. CASE Calls(r, "post") /\ Doubts(r)
    <3>1. /\ DOMAIN apiLedger' = ApiRequests /\ DOMAIN apiLedger'[r] = {"is", "status", "job"}
          /\ apiLedger'[r].status = "submission_unknown" /\ apiLedger'[r].is = "kept"
          /\ \A q \in ApiRequests : q # r => apiLedger'[q] = apiLedger[q]
      BY <2>1, <2>3, KeepsDoes DEF Doubts
    <3>2. /\ DOMAIN caller' = ApiRequests /\ DOMAIN caller'[r] = {"at", "by", "leaves"}
          /\ caller'[r].at = "post" /\ caller'[r].by = caller[r].by
          /\ \A q \in ApiRequests : q # r => caller'[q] = caller[q]
      BY <2>3, CallsDoes
    <3>3. ApiTyped'
      BY <1>1, <2>1, <3>1, <3>2 DEF ApiInv, ApiTyped
    <3>4. posts[r] = 0
      BY <2>1 DEF ApiInv, PostHolds
    <3>5. PostHolds(r)'
      BY <2>1, <3>1, <3>2, <3>4 DEF PostHolds, At, StatusOf
    <3>. QED
      BY <1>1, <2>1, <3>1, <3>2, <3>3, <3>5, QuietStep DEF OthersSame, StatusOf, At
  <2>. QED
    BY <1>6, <2>2, <2>3 DEF BeginPost
<1>7. CASE PostApi(r)
  <2>1. /\ posts[r] = 0 /\ apiLedger[r].is = "kept" /\ apiLedger[r].status = "submission_unknown"
    BY <1>7 DEF PostApi, ApiInv, PostHolds, StatusOf
  <2>2. posts' \in [ApiRequests -> Nat] /\ posts'[r] <= 1 /\ \A q \in ApiRequests : q # r => posts'[q] = posts[q]
    <3>1. posts' = posts \/ posts' = [posts EXCEPT ![r] = posts[r] + 1]
      BY <1>7 DEF PostApi, Reaches
    <3>. QED
      BY <1>2, <2>1, <3>1
  <2>3. /\ DOMAIN apiLedger' = ApiRequests /\ DOMAIN apiLedger'[r] = {"is", "status", "job"}
        /\ apiLedger'[r].is = "kept" /\ apiLedger'[r].status # "prepared"
        /\ apiLedger' = apiLedger \/ apiLedger'[r].status = "submitted"
        /\ \A q \in ApiRequests : q # r => apiLedger'[q] = apiLedger[q]
    <3>1. CASE apiLedger' = apiLedger
      BY <1>2, <2>1, <3>1
    <3>2. CASE apiLedger' # apiLedger
      <4>1. apiLedger' = [apiLedger EXCEPT ![r].status = "submitted", ![r].job = TRUE]
        BY <1>7, <3>2 DEF PostApi
      <4>2. /\ DOMAIN apiLedger' = ApiRequests
            /\ apiLedger'[r] = [apiLedger[r] EXCEPT !.status = "submitted", !.job = TRUE]
            /\ \A q \in ApiRequests : q # r => apiLedger'[q] = apiLedger[q]
        BY <1>2, <4>1
      <4>. QED
        BY <1>2, <2>1, <4>2
    <3>. QED
      BY <3>1, <3>2
  <2>4. /\ DOMAIN caller' = ApiRequests /\ DOMAIN caller'[r] = {"at", "by", "leaves"}
        /\ caller'[r].at \notin {"write", "post"}
        /\ caller'[r].by = "run" => caller[r].by = "run"
        /\ caller'[r].at = "settle" => caller'[r].by = "run" /\ caller'[r].leaves = "paused"
        /\ \A q \in ApiRequests : q # r => caller'[q] = caller[q]
    <3>1. Calls(r, "poll") \/ Calls(r, "publish") \/ Quits(r, "paused")
      BY <1>7 DEF PostApi
    <3>. QED
      BY <3>1, CallsDoes, QuitsDoes
  <2>5. ApiTyped'
    BY <1>1, <2>2, <2>3, <2>4 DEF ApiInv, ApiTyped
  <2>6. PostHolds(r)'
    BY <2>2, <2>3, <2>4 DEF PostHolds, At, StatusOf
  <2>. QED
    BY <1>1, <2>1, <2>2, <2>3, <2>4, <2>5, <2>6, QuietStep DEF OthersSame, StatusOf, At
<1>. QED
  BY <1>3, <1>4, <1>5, <1>6, <1>7 DEF MakeApiIntent

(* Commands beside the run, and the end of one. *)
LEMMA BesideKeeps ==
  ASSUME ApiInv, NEW r \in ApiRequests, api' = api,
         ObserveApi(r) \/ CancelApi(r) \/ ReconcileApi(r) \/ ApiJobEnds(r) \/ CallerDies(r)
  PROVE  ApiInv'
<1>1. UNCHANGED <<connection, rechecks, posts>>
  BY DEF ObserveApi, CancelApi, ReconcileApi, ApiJobEnds, CallerDies
<1>2. /\ DOMAIN apiLedger = ApiRequests /\ DOMAIN apiLedger[r] = {"is", "status", "job"}
      /\ DOMAIN caller = ApiRequests /\ DOMAIN caller[r] = {"at", "by", "leaves"}
  BY DEF ApiInv, ApiTyped
<1>3. /\ DOMAIN caller' = ApiRequests /\ DOMAIN caller'[r] = {"at", "by", "leaves"}
      /\ \A q \in ApiRequests : q # r => caller'[q] = caller[q]
      /\ \/ caller'[r] = caller[r]
         \/ caller'[r].by # "run" /\ caller'[r].at \in {"open", "poll", "off"}
  <2>1. \/ caller' = caller
        \/ caller' = [caller EXCEPT ![r] = [NoCall EXCEPT !.at = "open", !.by = "status"]]
        \/ caller' = [caller EXCEPT ![r] = [NoCall EXCEPT !.at = "poll", !.by = "status"]]
        \/ caller' = [caller EXCEPT ![r] = NoCall]
    BY DEF ObserveApi, CancelApi, ReconcileApi, ApiJobEnds, CallerDies
  <2>2. DOMAIN NoCall = {"at", "by", "leaves"} /\ NoCall.at = "off" /\ NoCall.by = "none"
    BY DEF NoCall
  <2>3. /\ DOMAIN caller' = ApiRequests
        /\ \A q \in ApiRequests : q # r => caller'[q] = caller[q]
        /\ \/ caller'[r] = caller[r]
           \/ caller'[r] = [NoCall EXCEPT !.at = "open", !.by = "status"]
           \/ caller'[r] = [NoCall EXCEPT !.at = "poll", !.by = "status"]
           \/ caller'[r] = NoCall
    BY <1>2, <2>1
  <2>. QED
    BY <1>2, <2>2, <2>3
<1>4. /\ DOMAIN apiLedger' = ApiRequests /\ DOMAIN apiLedger'[r] = {"is", "status", "job"}
      /\ \A q \in ApiRequests : q # r => apiLedger'[q] = apiLedger[q]
      /\ apiLedger'[r].is = apiLedger[r].is
      /\ \/ apiLedger'[r].status = apiLedger[r].status
         \/ caller[r].at = "off" /\ apiLedger'[r].status \in {"cancel_requested", "submitted"}
  <2>1. CASE apiLedger' = apiLedger
    BY <1>2, <2>1
  <2>2. CASE apiLedger' # apiLedger
    <3>1. caller[r].at = "off"
      BY <2>2 DEF ObserveApi, CancelApi, ReconcileApi, ApiJobEnds, CallerDies, Addressable, At
    <3>2. \/ apiLedger' = [apiLedger EXCEPT ![r].status = "cancel_requested"]
          \/ apiLedger' = [apiLedger EXCEPT ![r].status = "submitted", ![r].job = TRUE]
      BY <2>2 DEF ObserveApi, CancelApi, ReconcileApi, ApiJobEnds, CallerDies, Keeps
    <3>3. /\ DOMAIN apiLedger' = ApiRequests
          /\ \A q \in ApiRequests : q # r => apiLedger'[q] = apiLedger[q]
          /\ \/ apiLedger'[r] = [apiLedger[r] EXCEPT !.status = "cancel_requested"]
             \/ apiLedger'[r] = [apiLedger[r] EXCEPT !.status = "submitted", !.job = TRUE]
      BY <1>2, <3>2
    <3>. QED
      BY <1>2, <3>1, <3>3
  <2>. QED
    BY <2>1, <2>2
<1>5. ApiTyped'
  BY <1>1, <1>3, <1>4 DEF ApiInv, ApiTyped
<1>6. PostHolds(r)'
  BY <1>1, <1>3, <1>4 DEF ApiInv, PostHolds, At, StatusOf
<1>7. /\ At(r, "settle")' => caller'[r].by = "run"
      /\ caller'[r].by = "run" => caller[r].by = "run"
  BY <1>3 DEF ApiInv, RunHolds, At
<1>8. StatusOf(r)' = "submission_unknown" =>
        /\ StatusOf(r) = "submission_unknown" \/ caller[r].by = "run"
        /\ rechecks = 0 /\ At(r, "settle")' => caller'[r].leaves = "paused"
  BY <1>3, <1>4 DEF ApiInv, DoubtHolds, At, StatusOf
<1>. QED
  BY <1>1, <1>3, <1>4, <1>5, <1>6, <1>7, <1>8, QuietStep DEF OthersSame

LEMMA ConnectKeeps ==
  ASSUME ApiInv, NEW r \in ApiRequests, api' = api, Connect(r)
  PROVE  ApiInv'
<1>1. UNCHANGED <<apiLedger, posts>> /\ connection' = "checking"
      /\ \A q \in ApiRequests : caller[q].by # "run"
  BY DEF Connect
<1>2. /\ DOMAIN caller' = ApiRequests /\ caller'[r] = [NoCall EXCEPT !.at = "open", !.by = "run"]
      /\ \A q \in ApiRequests : q # r => caller'[q] = caller[q]
  BY DEF Connect, ApiInv, ApiTyped
<1>3. /\ DOMAIN caller' = ApiRequests /\ DOMAIN caller'[r] = {"at", "by", "leaves"}
      /\ caller'[r].at = "open" /\ caller'[r].by = "run"
      /\ \A q \in ApiRequests : q # r => caller'[q] = caller[q]
  BY <1>2 DEF NoCall
<1>4. /\ rechecks' \in Nat
      /\ rechecks' = 0 => \A q \in ApiRequests : StatusOf(q) # "submission_unknown"
  BY DEF Connect, Refuses, Shut, ApiInv, ApiTyped, DoubtHolds
<1>5. ApiTyped'
  BY <1>1, <1>3, <1>4 DEF ApiInv, ApiTyped
<1>6. ASSUME NEW q \in ApiRequests PROVE PostHolds(q)'
  BY <1>1, <1>3 DEF ApiInv, PostHolds, At, StatusOf
<1>7. ASSUME NEW q \in ApiRequests PROVE RunHolds(q)'
  BY <1>1, <1>3 DEF ApiInv, RunHolds, At
<1>8. ASSUME NEW q \in ApiRequests PROVE DoubtHolds(q)'
  BY <1>1, <1>4 DEF DoubtHolds, StatusOf
<1>. QED
  BY <1>5, <1>6, <1>7, <1>8 DEF ApiInv

LEMMA SettleKeeps ==
  ASSUME ApiInv, NEW r \in ApiRequests, api' = api, SettleConnection(r)
  PROVE  ApiInv'
<1>1. /\ UNCHANGED <<apiLedger, posts, rechecks>> /\ caller[r].at = "settle"
      /\ connection' = caller[r].leaves /\ caller' = [caller EXCEPT ![r] = NoCall]
  BY DEF SettleConnection, At
<1>2. caller[r].by = "run" /\ \A q \in ApiRequests \ {r} : caller[q].by # "run"
  BY <1>1 DEF ApiInv, RunHolds, At
<1>3. /\ DOMAIN caller' = ApiRequests /\ DOMAIN caller'[r] = {"at", "by", "leaves"}
      /\ caller'[r].at = "off" /\ caller'[r].by = "none"
      /\ \A q \in ApiRequests : q # r => caller'[q] = caller[q]
  BY <1>1 DEF ApiInv, ApiTyped, NoCall
<1>4. ApiTyped'
  BY <1>1, <1>3 DEF ApiInv, ApiTyped
<1>5. ASSUME NEW q \in ApiRequests PROVE PostHolds(q)'
  BY <1>1, <1>3 DEF ApiInv, PostHolds, At, StatusOf
<1>6. ASSUME NEW q \in ApiRequests PROVE RunHolds(q)'
  BY <1>2, <1>3 DEF ApiInv, RunHolds, At
<1>7. ASSUME NEW q \in ApiRequests PROVE DoubtHolds(q)'
  <2>. SUFFICES ASSUME rechecks = 0, StatusOf(q) = "submission_unknown"
                PROVE  /\ connection' \in Shut
                       /\ \A p \in ApiRequests \ {q} : caller'[p].by # "run"
                       /\ caller'[q].at # "settle"
    BY <1>1 DEF DoubtHolds, StatusOf, At, Shut
  <2>1. q = r
    BY <1>2 DEF ApiInv, DoubtHolds
  <2>2. caller[r].leaves = "paused"
    BY <1>1, <2>1 DEF ApiInv, DoubtHolds, At
  <2>. QED
    BY <1>1, <1>2, <1>3, <2>1, <2>2 DEF Shut
<1>. QED
  BY <1>4, <1>5, <1>6, <1>7 DEF ApiInv

LEMMA ApiMoves == ApiInv /\ [ApiNext]_apiVars => ApiInv'
<1>. SUFFICES ASSUME ApiInv, [ApiNext]_apiVars PROVE ApiInv'
  OBVIOUS
<1>1. CASE ApiNext
  <2>1. api' = api /\ api.requests \subseteq ApiRequests
    BY <1>1 DEF ApiNext, ApiInv, ApiTyped
  <2>2. PICK r \in ApiRequests : ApiCommand(r) \/ ApiJobEnds(r) \/ CallerDies(r)
    BY <1>1, <2>1 DEF ApiNext
  <2>. QED
    BY <2>1, <2>2, ObserverKeeps, PosterKeeps, BesideKeeps, ConnectKeeps, SettleKeeps DEF ApiCommand
<1>2. CASE UNCHANGED apiVars
  BY <1>2 DEF apiVars, ApiInv, ApiTyped, PostHolds, RunHolds, DoubtHolds, StatusOf, At, Shut
<1>. QED
  BY <1>1, <1>2

(* The provider receives a hosted request at most once, and after one whose *)
(* outcome is not known nothing more is sent on its connection until an     *)
(* operator rechecks it (remote/model_api.py, remote/onboarding.py), for    *)
(* any number of requests, kills and rechecks.                              *)
THEOREM DoubtStaysKept == ApiSpec => []DoubtIsKept
<1>1. ApiInv => DoubtIsKept
  BY DEF ApiInv, PostHolds, DoubtHolds, DoubtIsKept, PostedOnce, DoubtClosesConnection
<1>. QED
  BY <1>1, ApiStarts, ApiMoves, PTL DEF ApiSpec

-----------------------------------------------------------------------------
(* The ready queue of a worker's devices, and the batch the parent accepts. *)

Receipts ==
  [status: {"none", "running", "accepted", "failed", "redo", "blocked"}, attempt: Nat,
   on: SUBSET batch.devices]
Processes == [is: {"none", "queued", "running", "passed", "failed"}, on: SUBSET batch.devices]
Live == {"queued", "running"}

ScheduleTyped ==
  /\ batch \in BatchPlans
  /\ turn \in Nat \ {0}
  /\ receipt \in [Jobs -> Receipts]
  /\ process \in [Claims -> Processes]

\* The main loop holds a future for what the receipt calls running.
ActiveHolds ==
  /\ scheduler \in {"down", "close", "pack"} => active = {}
  /\ scheduler # "down" => active = {j \in Listed : receipt[j].status = "running"}

\* A claim is durable before its process starts and settled only after it ended.
LiveIsClaimed ==
  \A c \in Claims : process[c].is \in Live =>
    /\ c[1] \in Listed /\ receipt[c[1]].status = "running"
    /\ receipt[c[1]].attempt = c[2] /\ receipt[c[1]].on = process[c].on

\* What the receipt promises of a device.
Promised(d) == {j \in Listed : receipt[j].status = "running" /\ d \in receipt[j].on}

PromisesFit ==
  \A d \in batch.devices :
    /\ Cardinality(Promised(d)) <= batch.slots
    /\ batch.budget > 0 => SumOver(batch.vram, Promised(d)) <= batch.budget

\* A work directory is made for a claim that has none.
FoldersHold == \A c \in Claims : process[c].is # "none" => c \in folders

DueHolds ==
  scheduler = "claim" =>
    /\ Due # {} /\ Min(Due) = turn /\ ~Lost(DueJob) /\ DueClaim \in folders
    /\ DueClaim \in Claims => process[DueClaim].is = "none"

AttemptsHold ==
  \A j \in Jobs :
    /\ receipt[j].status = "none" => receipt[j].attempt = 0
    /\ receipt[j].status = "redo" => receipt[j].attempt < batch.tries[j]
    /\ receipt[j].status \in {"running", "accepted"} => receipt[j].attempt \in 1..batch.tries[j]

AcceptedPassed ==
  \A j \in Jobs :
    receipt[j].status = "accepted" => process[<<j, receipt[j].attempt>>].is = "passed"

ScheduleInv ==
  /\ ScheduleTyped /\ ActiveHolds /\ LiveIsClaimed /\ PromisesFit /\ FoldersHold /\ DueHolds
  /\ AttemptsHold /\ AcceptedPassed

LEMMA BatchFacts ==
  ASSUME batch \in BatchPlans
  PROVE  /\ Listed \subseteq Jobs /\ IsFiniteSet(Listed)
         /\ \A k \in 1..Len(batch.tasks) : batch.tasks[k] \in Listed
         /\ Len(batch.tasks) \in Nat
         /\ \A j \in Jobs : batch.tries[j] \in 1..3 /\ batch.vram[j] \in Nat
         /\ batch.devices \subseteq Nat /\ batch.slots \in Nat /\ batch.budget \in Nat
<1>1. batch.tasks \in Seq(Jobs)
  BY DEF BatchPlans
<1>2. /\ Listed \subseteq Jobs /\ Len(batch.tasks) \in Nat
      /\ \A k \in 1..Len(batch.tasks) : batch.tasks[k] \in Listed
  BY <1>1 DEF Listed
<1>3. IsFiniteSet(Listed)
  BY <1>2, JobsAssumption, FS_Subset
<1>. QED
  BY <1>2, <1>3 DEF BatchPlans

LEMMA PromisedFinite ==
  ASSUME batch \in BatchPlans, NEW d
  PROVE  IsFiniteSet(Promised(d)) /\ Promised(d) \subseteq Jobs /\ Cardinality(Promised(d)) \in Nat
BY BatchFacts, FS_Subset, FS_CardinalityType DEF Promised

LEMMA ScheduleStarts == batch \in BatchPlans /\ ScheduleInit => ScheduleInv
<1>. SUFFICES ASSUME batch \in BatchPlans, ScheduleInit PROVE ScheduleInv
  OBVIOUS
<1>1. /\ \A j \in Jobs : receipt[j].status = "none" /\ receipt[j].attempt = 0 /\ receipt[j] \in Receipts
      /\ DOMAIN receipt = Jobs /\ receipt = [j \in Jobs |-> receipt[j]]
  BY DEF ScheduleInit, Absence, Receipts
<1>2. /\ \A c \in Claims : process[c].is = "none" /\ process[c] \in Processes
      /\ process = [c \in Claims |-> process[c]]
  BY DEF ScheduleInit, NoProcess, Processes
<1>3. ScheduleTyped
  BY <1>1, <1>2 DEF ScheduleInit, ScheduleTyped
<1>4. ActiveHolds /\ DueHolds
  BY DEF ScheduleInit, ActiveHolds, DueHolds
<1>5. LiveIsClaimed /\ FoldersHold
  BY <1>2 DEF LiveIsClaimed, FoldersHold, Live
<1>6. PromisesFit
  <2>1. \A d \in batch.devices : Promised(d) = {}
    BY <1>1, BatchFacts DEF Promised
  <2>2. Cardinality({}) = 0 /\ SumOver(batch.vram, {}) = 0
    BY SumEmpty, FS_EmptySet
  <2>3. batch.slots \in Nat /\ batch.budget \in Nat
    BY BatchFacts
  <2>. QED
    BY <2>1, <2>2, <2>3 DEF PromisesFit
<1>7. AttemptsHold /\ AcceptedPassed
  BY <1>1 DEF AttemptsHold, AcceptedPassed
<1>. QED
  BY <1>3, <1>4, <1>5, <1>6, <1>7 DEF ScheduleInv

----------------------------------------------------------------------------
(* What is due, and what it depends on. *)

LEMMA DueSame ==
  ASSUME UNCHANGED <<batch, turn, stop, active, receipt>>
  PROVE  Due' = Due /\ DueJob' = DueJob /\ DueClaim' = DueClaim /\ Lost(DueJob)' = Lost(DueJob)
BY DEF Due, DueJob, DueClaim, Lost, Startable, Available, Reserved, Accepted, Listed

LEMMA DueFacts ==
  ASSUME ScheduleInv, Due # {}
  PROVE  /\ Min(Due) \in Due /\ Min(Due) \in Nat
         /\ DueJob \in Listed /\ DueJob \in Jobs /\ DueJob \notin active
         /\ receipt[DueJob].status \in {"none", "redo"}
         /\ Lost(DueJob) \/ Startable(DueJob)
         /\ \A c \in Claims : process[c].is \in Live => c[1] # DueJob
<1>1. batch \in BatchPlans /\ turn \in Nat \ {0}
  BY DEF ScheduleInv, ScheduleTyped
<1>2. Due \in SUBSET Nat
  BY <1>1, BatchFacts DEF Due
<1>3. Min(Due) \in Due /\ Min(Due) \in Nat
  BY <1>2, LeastNumber DEF Min
<1>4. /\ DueJob \in Listed /\ DueJob \in Jobs /\ DueJob \notin active
      /\ receipt[DueJob].status \in {"none", "redo"}
      /\ Lost(DueJob) \/ Startable(DueJob)
  <2>1. Due \subseteq turn..Len(batch.tasks)
    BY DEF Due
  <2>2. Min(Due) \in 1..Len(batch.tasks)
    BY <1>1, <1>3, <2>1, BatchFacts
  <2>3. DueJob \in Listed /\ DueJob \in Jobs
    BY <1>1, <2>2, BatchFacts DEF DueJob
  <2>4. \A k \in Due : /\ batch.tasks[k] \notin active
                       /\ receipt[batch.tasks[k]].status \in {"none", "redo"}
                       /\ Lost(batch.tasks[k]) \/ Startable(batch.tasks[k])
    BY DEF Due
  <2>. QED
    BY <1>3, <2>3, <2>4 DEF DueJob
<1>5. \A c \in Claims : process[c].is \in Live => c[1] # DueJob
  BY <1>4 DEF ScheduleInv, LiveIsClaimed
<1>. QED
  BY <1>3, <1>4, <1>5

(* Nothing that ended well is undone. *)
PassedStays == \A c \in Claims : process[c].is = "passed" => process'[c].is = "passed"

(* A step of the main loop that writes nothing down. *)
LEMMA LoopTurns ==
  ASSUME ScheduleInv, UNCHANGED <<batch, receipt, folders, process, active>>,
         turn' \in Nat \ {0}, scheduler' # "claim", ActiveHolds'
  PROVE  ScheduleInv' /\ PassedStays
<1>1. ScheduleTyped'
  BY DEF ScheduleInv, ScheduleTyped, Receipts, Processes
<1>2. LiveIsClaimed' /\ FoldersHold'
  BY DEF ScheduleInv, LiveIsClaimed, FoldersHold, Listed
<1>3. DueHolds' /\ AttemptsHold' /\ AcceptedPassed'
  BY DEF ScheduleInv, DueHolds, AttemptsHold, AcceptedPassed
<1>4. PromisesFit'
  <2>1. Listed' = Listed
    BY DEF Listed
  <2>. QED
    BY <2>1 DEF ScheduleInv, PromisesFit, Promised
<1>. QED
  BY <1>1, <1>2, <1>3, <1>4 DEF ScheduleInv, PassedStays

LEMMA LoopSameKeeps ==
  ASSUME ScheduleInv, batch' = batch, Look \/ Filled \/ LookAgain \/ Close \/ Pack \/ OpenSchedule
  PROVE  ScheduleInv' /\ PassedStays
<1>1. UNCHANGED <<receipt, folders, process, active>> /\ Listed' = Listed
  <2>1. Listed' = Listed
    BY DEF Listed
  <2>. QED
    BY <2>1 DEF Look, Filled, LookAgain, Close, Pack, OpenSchedule
<1>2. turn' \in Nat \ {0}
  <2>1. turn' = turn \/ turn' = 1
    BY DEF Look, Filled, LookAgain, Close, Pack, OpenSchedule
  <2>. QED
    BY <2>1 DEF ScheduleInv, ScheduleTyped
<1>3. scheduler' # "claim"
  BY DEF Look, Filled, LookAgain, Close, Pack, OpenSchedule
<1>4. ActiveHolds'
  <2>1. CASE Look \/ LookAgain
    BY <1>1, <2>1 DEF Look, LookAgain, ScheduleInv, ActiveHolds
  <2>2. CASE Filled
    BY <1>1, <2>2 DEF Filled, ScheduleInv, ActiveHolds
  <2>3. CASE Close \/ Pack
    BY <1>1, <2>3 DEF Close, Pack, ScheduleInv, ActiveHolds
  <2>4. CASE OpenSchedule
    BY <1>1, <2>4 DEF OpenSchedule, Runnable, ScheduleInv, ActiveHolds
  <2>. QED
    BY <2>1, <2>2, <2>3, <2>4
<1>. QED
  BY <1>1, <1>2, <1>3, <1>4, LoopTurns

(* Threads and processes. *)
LEMMA ProcessKeeps ==
  ASSUME ScheduleInv, batch' = batch, NEW c \in Claims, StartProcess(c) \/ EndProcess(c)
  PROVE  ScheduleInv' /\ PassedStays
<1>1. /\ UNCHANGED <<scheduler, turn, stop, receipt, folders, active>> /\ Listed' = Listed
      /\ process[c].is \in Live
      /\ \E how \in {"running", "passed", "failed"} : process' = [process EXCEPT ![c].is = how]
  BY DEF StartProcess, EndProcess, Live, Listed
<1>2. PICK how \in {"running", "passed", "failed"} : process' = [process EXCEPT ![c].is = how]
  BY <1>1
<1>3. process \in [Claims -> Processes] /\ batch \in BatchPlans
  BY DEF ScheduleInv, ScheduleTyped
<1>4. /\ process' \in [Claims -> Processes] /\ process'[c].is = how /\ process'[c].on = process[c].on
      /\ \A e \in Claims : e # c => process'[e] = process[e]
  <2>1. process[c] \in Processes
    BY <1>3
  <2>2. [process[c] EXCEPT !.is = how] \in Processes
    BY <2>1 DEF Processes
  <2>3. process' = [process EXCEPT ![c] = [process[c] EXCEPT !.is = how]]
    BY <1>2
  <2>. QED
    BY <1>3, <2>1, <2>2, <2>3 DEF Processes
<1>5. ScheduleTyped'
  BY <1>1, <1>4 DEF ScheduleInv, ScheduleTyped, Receipts, Processes
<1>6. ActiveHolds' /\ AttemptsHold'
  BY <1>1 DEF ScheduleInv, ActiveHolds, AttemptsHold
<1>7. LiveIsClaimed' /\ FoldersHold'
  BY <1>1, <1>4 DEF ScheduleInv, LiveIsClaimed, FoldersHold, Live
<1>8. PromisesFit'
  BY <1>1 DEF ScheduleInv, PromisesFit, Promised
<1>9. PassedStays
  BY <1>1, <1>4 DEF PassedStays, Live
<1>10. AcceptedPassed'
  <2>1. ASSUME NEW j \in Jobs, receipt[j].status = "accepted"
        PROVE  <<j, receipt[j].attempt>> \in Claims
    BY <1>3, <2>1, BatchFacts DEF ScheduleInv, AttemptsHold, Claims
  <2>. QED
    BY <1>1, <1>9, <2>1 DEF ScheduleInv, AcceptedPassed, PassedStays
<1>11. DueHolds'
  <2>1. Due' = Due /\ DueJob' = DueJob /\ DueClaim' = DueClaim /\ Lost(DueJob)' = Lost(DueJob)
    BY <1>1, DueSame
  <2>. QED
    BY <1>1, <1>4, <2>1 DEF ScheduleInv, DueHolds, Live
<1>. QED
  BY <1>5, <1>6, <1>7, <1>8, <1>9, <1>10, <1>11 DEF ScheduleInv

LEMMA AcceptedIsClaim ==
  ASSUME ScheduleInv, NEW j \in Jobs, receipt[j].status \in {"running", "accepted"}
  PROVE  <<j, receipt[j].attempt>> \in Claims
<1>1. batch.tries[j] \in 1..3
  BY BatchFacts DEF ScheduleInv, ScheduleTyped
<1>2. receipt[j].attempt \in 1..batch.tries[j]
  BY DEF ScheduleInv, AttemptsHold
<1>. QED
  BY <1>1, <1>2 DEF Claims

LEMMA KilledKeeps ==
  ASSUME ScheduleInv, batch' = batch, Killed
  PROVE  ScheduleInv' /\ PassedStays
<1>1. /\ UNCHANGED <<turn, stop, receipt, folders>> /\ Listed' = Listed
      /\ scheduler' = "down" /\ active' = {}
      /\ process' = [c \in Claims |-> IF process[c].is = "queued" THEN NoProcess ELSE process[c]]
  BY DEF Killed, Listed
<1>2. NoProcess \in Processes /\ NoProcess.is = "none"
  BY DEF NoProcess, Processes
<1>3. /\ process' \in [Claims -> Processes]
      /\ \A c \in Claims : \/ process'[c] = process[c]
                           \/ process[c].is = "queued" /\ process'[c].is = "none"
  BY <1>1, <1>2 DEF ScheduleInv, ScheduleTyped
<1>4. ScheduleTyped'
  BY <1>1, <1>3 DEF ScheduleInv, ScheduleTyped, Receipts, Processes
<1>5. ActiveHolds' /\ AttemptsHold' /\ DueHolds'
  BY <1>1 DEF ScheduleInv, ActiveHolds, AttemptsHold, DueHolds
<1>6. LiveIsClaimed' /\ FoldersHold'
  BY <1>1, <1>3 DEF ScheduleInv, LiveIsClaimed, FoldersHold, Live
<1>7. PromisesFit'
  BY <1>1 DEF ScheduleInv, PromisesFit, Promised
<1>8. PassedStays
  BY <1>3 DEF PassedStays
<1>9. AcceptedPassed'
  BY <1>1, <1>8, AcceptedIsClaim DEF ScheduleInv, AcceptedPassed, PassedStays
<1>. QED
  BY <1>4, <1>5, <1>6, <1>7, <1>8, <1>9 DEF ScheduleInv

LEMMA RaiseKeeps ==
  ASSUME ScheduleInv, batch' = batch, Raise
  PROVE  ScheduleInv' /\ PassedStays
<1>1. /\ UNCHANGED <<turn, stop, receipt, folders, process>> /\ Listed' = Listed
      /\ scheduler' = "down" /\ active' = {}
  BY DEF Raise, Listed
<1>2. ActiveHolds' /\ AttemptsHold' /\ DueHolds'
  BY <1>1 DEF ScheduleInv, ActiveHolds, AttemptsHold, DueHolds
<1>3. ScheduleTyped' /\ LiveIsClaimed' /\ FoldersHold' /\ AcceptedPassed'
  BY <1>1 DEF ScheduleInv, ScheduleTyped, LiveIsClaimed, FoldersHold, AcceptedPassed, Receipts, Processes
<1>4. PromisesFit'
  BY <1>1 DEF ScheduleInv, PromisesFit, Promised
<1>. QED
  BY <1>1, <1>2, <1>3, <1>4 DEF ScheduleInv, PassedStays

----------------------------------------------------------------------------
(* What the loop writes into the receipt. *)

(* A task that lost what it depends on. *)
LEMMA BlockKeeps ==
  ASSUME ScheduleInv, batch' = batch, Block
  PROVE  ScheduleInv' /\ PassedStays
<1>1. /\ UNCHANGED <<scheduler, folders, process, active>> /\ Due # {}
      /\ scheduler = "fill" /\ turn' = Min(Due) + 1
      /\ receipt' = [receipt EXCEPT ![DueJob] = [Absence EXCEPT !.status = "blocked"]]
  BY DEF Block
<1>2. /\ Min(Due) \in Nat /\ DueJob \in Jobs /\ receipt[DueJob].status \in {"none", "redo"}
      /\ \A c \in Claims : process[c].is \in Live => c[1] # DueJob
  BY <1>1, DueFacts
<1>3. /\ receipt' \in [Jobs -> Receipts] /\ receipt'[DueJob].status = "blocked"
      /\ \A j \in Jobs : j # DueJob => receipt'[j] = receipt[j]
  <2>1. [Absence EXCEPT !.status = "blocked"] \in Receipts
        /\ [Absence EXCEPT !.status = "blocked"].status = "blocked"
    BY DEF Absence, Receipts
  <2>. QED
    BY <1>1, <1>2, <2>1 DEF ScheduleInv, ScheduleTyped
<1>4. Listed' = Listed /\ Listed \subseteq Jobs
  BY BatchFacts DEF Listed, ScheduleInv, ScheduleTyped
<1>5. ScheduleTyped'
  BY <1>1, <1>2, <1>3 DEF ScheduleInv, ScheduleTyped, Receipts, Processes
<1>6. ActiveHolds'
  BY <1>1, <1>2, <1>3, <1>4 DEF ScheduleInv, ActiveHolds
<1>7. LiveIsClaimed'
  BY <1>1, <1>2, <1>3, <1>4 DEF ScheduleInv, LiveIsClaimed, Claims
<1>8. \A d : Promised(d)' = Promised(d)
  BY <1>2, <1>3, <1>4 DEF Promised
<1>9. PromisesFit'
  BY <1>8 DEF ScheduleInv, PromisesFit
<1>10. FoldersHold' /\ DueHolds'
  BY <1>1 DEF ScheduleInv, FoldersHold, DueHolds
<1>11. AttemptsHold' /\ AcceptedPassed'
  BY <1>1, <1>3 DEF ScheduleInv, AttemptsHold, AcceptedPassed
<1>. QED
  BY <1>1, <1>5, <1>6, <1>7, <1>9, <1>10, <1>11 DEF ScheduleInv, PassedStays

(* The place of a task in the plan stays the first one that is due. *)
LEMMA MakeFolderKeeps ==
  ASSUME ScheduleInv, batch' = batch, MakeFolder
  PROVE  ScheduleInv' /\ PassedStays
<1>1. /\ UNCHANGED <<stop, receipt, process, active>> /\ Due # {} /\ ~Lost(DueJob)
      /\ scheduler = "fill" /\ turn' = Min(Due) /\ folders' = folders \cup {DueClaim}
      /\ scheduler' = IF DueClaim \in folders THEN "raise" ELSE "claim"
  BY DEF MakeFolder
<1>2. Min(Due) \in Due /\ Min(Due) \in Nat /\ Due \subseteq turn .. Len(batch.tasks)
  BY <1>1, DueFacts DEF Due
<1>3. turn \in Nat \ {0} /\ turn' \in Nat \ {0}
  BY <1>1, <1>2 DEF ScheduleInv, ScheduleTyped
<1>4. ScheduleTyped'
  BY <1>1, <1>3 DEF ScheduleInv, ScheduleTyped, Receipts, Processes
<1>5. Listed' = Listed
  BY DEF Listed
<1>6. ActiveHolds' /\ LiveIsClaimed' /\ AttemptsHold' /\ AcceptedPassed'
  BY <1>1, <1>5 DEF ScheduleInv, ActiveHolds, LiveIsClaimed, AttemptsHold, AcceptedPassed
<1>7. PromisesFit'
  BY <1>1, <1>5 DEF ScheduleInv, PromisesFit, Promised
<1>8. FoldersHold'
  BY <1>1 DEF ScheduleInv, FoldersHold
<1>9. Min(Due') = Min(Due) /\ Due' # {}
  <2>1. \A j : (Lost(j) <=> Lost(j)') /\ (Startable(j) <=> Startable(j)')
    BY <1>1 DEF Lost, Startable, Available, Reserved, Accepted, Listed
  <2>2. ASSUME NEW k \in Due, k >= Min(Due) PROVE k \in Due'
    <3>1. k \in turn' .. Len(batch'.tasks)
      BY <1>1, <1>2, <1>3, <2>2
    <3>. QED
      BY <1>1, <2>1, <3>1 DEF Due
  <2>3. ASSUME NEW k \in Due' PROVE k \in Due
    <3>1. k \in turn' .. Len(batch'.tasks)
      BY DEF Due
    <3>2. k \in turn .. Len(batch.tasks)
      <4>1. Min(Due) \in turn .. Len(batch.tasks) /\ Len(batch.tasks) \in Nat
        BY <1>2, BatchFacts DEF ScheduleInv, ScheduleTyped
      <4>. QED
        BY <1>1, <1>3, <3>1, <4>1
    <3>. QED
      BY <1>1, <2>1, <3>2 DEF Due
  <2>4. \A k \in Due : Min(Due) <= k
    <3>1. Due \in SUBSET Nat
      BY <1>2, <1>3
    <3>. QED
      BY <1>1, <3>1, LeastNumber DEF Min
  <2>5. Due' = Due
    BY <1>2, <1>3, <2>2, <2>3, <2>4
  <2>. QED
    BY <1>1, <2>5
<1>10. DueHolds'
  <2>1. DueJob' = DueJob
    BY <1>9 DEF DueJob
  <2>2. DueClaim' = DueClaim /\ Lost(DueJob)' = Lost(DueJob)
    BY <1>1, <2>1 DEF DueClaim, Lost
  <2>. QED
    BY <1>1, <1>9, <2>1, <2>2 DEF ScheduleInv, DueHolds, FoldersHold
<1>. QED
  BY <1>1, <1>4, <1>6, <1>7, <1>8, <1>10 DEF ScheduleInv, PassedStays

(* What the loop reserves is what the receipt promises. *)
LEMMA ReservedIsPromised ==
  ASSUME ScheduleInv, scheduler # "down", NEW d
  PROVE  Reserved(d) = Promised(d)
BY DEF ScheduleInv, ActiveHolds, Reserved, Promised

LEMMA SaveClaimKeeps ==
  ASSUME ScheduleInv, batch' = batch, SaveClaim
  PROVE  ScheduleInv' /\ PassedStays
<1> DEFINE job == DueJob
           tried == receipt[DueJob].attempt + 1
           on == FirstDevices(Available(DueJob), batch.count[DueJob])
<1>1. /\ scheduler = "claim" /\ scheduler' = "fill" /\ turn' = turn + 1
      /\ UNCHANGED <<stop, outcome, archive, folders, hot, late>>
      /\ receipt' = [receipt EXCEPT ![job] = [status |-> "running", attempt |-> tried, on |-> on]]
      /\ process' = [process EXCEPT ![<<job, tried>>] = [is |-> "queued", on |-> on]]
      /\ active' = active \cup {job}
  BY DEF SaveClaim, DueClaim
<1>2. /\ job \in Listed /\ job \in Jobs /\ job \notin active
      /\ receipt[job].status \in {"none", "redo"}
      /\ \A c \in Claims : process[c].is \in Live => c[1] # job
  BY <1>1, DueFacts DEF ScheduleInv, DueHolds
<1>3. on \subseteq Available(job) /\ Available(job) \subseteq batch.devices
  BY DEF FirstDevices, Available
<1>4. tried \in 1..batch.tries[job] /\ <<job, tried>> \in Claims
  <2>1. batch.tries[job] \in 1..3 /\ receipt[job].attempt \in Nat
    BY <1>2, BatchFacts DEF ScheduleInv, ScheduleTyped, Receipts
  <2>2. tried \in 1..batch.tries[job]
    BY <1>2, <2>1 DEF ScheduleInv, AttemptsHold
  <2>. QED
    BY <1>2, <2>1, <2>2 DEF Claims
<1>5. process[<<job, tried>>].is = "none" /\ <<job, tried>> = DueClaim
  BY <1>1, <1>4 DEF ScheduleInv, DueHolds, DueClaim
<1>6. Listed' = Listed /\ Listed \subseteq Jobs
  BY BatchFacts DEF Listed, ScheduleInv, ScheduleTyped
<1>7. \A d \in Available(job) :
        /\ Cardinality(Promised(d)) < batch.slots
        /\ batch.budget > 0 => SumOver(batch.vram, Promised(d)) + batch.vram[job] <= batch.budget
  BY <1>1, ReservedIsPromised DEF Available
<1> HIDE DEF job, tried, on
<1>8. /\ receipt' \in [Jobs -> Receipts] /\ receipt'[job].status = "running"
      /\ receipt'[job].attempt = tried /\ receipt'[job].on = on
      /\ \A j \in Jobs : j # job => receipt'[j] = receipt[j]
  <2>1. [status |-> "running", attempt |-> tried, on |-> on] \in Receipts
    BY <1>3, <1>4 DEF Receipts
  <2>. QED
    BY <1>1, <1>2, <2>1 DEF ScheduleInv, ScheduleTyped
<1>9. /\ process' \in [Claims -> Processes]
      /\ process'[<<job, tried>>].is = "queued" /\ process'[<<job, tried>>].on = on
      /\ \A c \in Claims : c # <<job, tried>> => process'[c] = process[c]
  <2>1. [is |-> "queued", on |-> on] \in Processes
    BY <1>3 DEF Processes
  <2>. QED
    BY <1>1, <1>4, <2>1 DEF ScheduleInv, ScheduleTyped
<1>10. ScheduleTyped'
  <2>1. turn' \in Nat \ {0}
    BY <1>1 DEF ScheduleInv, ScheduleTyped
  <2>. QED
    BY <1>8, <1>9, <2>1 DEF ScheduleInv, ScheduleTyped, Receipts, Processes
<1>11. ActiveHolds'
  BY <1>1, <1>2, <1>6, <1>8 DEF ScheduleInv, ActiveHolds
<1>12. LiveIsClaimed'
  <2>1. ASSUME NEW c \in Claims, process'[c].is \in Live
        PROVE  /\ c[1] \in Listed /\ receipt'[c[1]].status = "running"
               /\ receipt'[c[1]].attempt = c[2] /\ receipt'[c[1]].on = process'[c].on
    <3>1. CASE c = <<job, tried>>
      BY <1>2, <1>8, <1>9, <3>1
    <3>2. CASE c # <<job, tried>>
      <4>1. process'[c] = process[c]
        BY <1>9, <3>2
      <4>2. c[1] # job /\ c[1] \in Jobs
        BY <1>2, <2>1, <4>1 DEF Claims
      <4>. QED
        BY <1>8, <2>1, <4>1, <4>2 DEF ScheduleInv, LiveIsClaimed
    <3>. QED
      BY <3>1, <3>2
  <2>. QED
    BY <1>6, <2>1 DEF LiveIsClaimed, Live
<1>13. PromisesFit'
  <2>1. ASSUME NEW d \in batch.devices
        PROVE  /\ Cardinality(Promised(d)') <= batch.slots
               /\ batch.budget > 0 => SumOver(batch.vram, Promised(d)') <= batch.budget
    <3>1. IsFiniteSet(Promised(d)) /\ Cardinality(Promised(d)) \in Nat /\ Promised(d) \subseteq Jobs
      BY PromisedFinite DEF ScheduleInv, ScheduleTyped
    <3>2. job \notin Promised(d)
      BY <1>2 DEF Promised
    <3>3. CASE d \in on
      <4>1. Promised(d)' = Promised(d) \cup {job}
        BY <1>2, <1>6, <1>8, <3>3 DEF Promised
      <4>2. Cardinality(Promised(d) \cup {job}) = Cardinality(Promised(d)) + 1
        BY <3>1, <3>2, FS_AddElement
      <4>3. \A j \in Jobs : batch.vram[j] \in Nat
        BY BatchFacts DEF ScheduleInv, ScheduleTyped
      <4>4. SumOver(batch.vram, Promised(d) \cup {job}) = SumOver(batch.vram, Promised(d)) + batch.vram[job]
        BY <1>2, <3>1, <3>2, <4>3, SumAdd
      <4>5. d \in Available(job) /\ batch.slots \in Nat
        BY <1>3, <3>3, BatchFacts DEF ScheduleInv, ScheduleTyped
      <4>. QED
        BY <1>7, <3>1, <4>1, <4>2, <4>4, <4>5
    <3>4. CASE d \notin on
      <4>1. Promised(d)' = Promised(d)
        BY <1>2, <1>6, <1>8, <3>4 DEF Promised
      <4>. QED
        BY <4>1 DEF ScheduleInv, PromisesFit
    <3>. QED
      BY <3>3, <3>4
  <2>. QED
    BY <2>1 DEF PromisesFit
<1>14. FoldersHold' /\ DueHolds'
  <2>1. <<job, tried>> \in folders
    BY <1>1, <1>5 DEF ScheduleInv, DueHolds
  <2>. QED
    BY <1>1, <1>9, <2>1 DEF ScheduleInv, FoldersHold, DueHolds
<1>15. PassedStays
  BY <1>4, <1>5, <1>9 DEF PassedStays
<1>16. AttemptsHold'
  BY <1>4, <1>8 DEF ScheduleInv, AttemptsHold
<1>17. AcceptedPassed'
  BY <1>8, <1>15, AcceptedIsClaim DEF ScheduleInv, AcceptedPassed, PassedStays
<1>. QED
  BY <1>10, <1>11, <1>12, <1>13, <1>14, <1>15, <1>16, <1>17 DEF ScheduleInv

(* The end of one process, written down. *)
LEMMA CollectKeeps ==
  ASSUME ScheduleInv, batch' = batch, NEW j \in Jobs, Collect(j)
  PROVE  ScheduleInv' /\ PassedStays
<1> DEFINE c == <<j, receipt[j].attempt>>
           ends == IF process[c].is = "passed" THEN "accepted"
                   ELSE IF c[2] >= batch.tries[j] THEN "failed" ELSE "redo"
<1>1. /\ scheduler = "wait" /\ j \in active /\ active' = active \ {j}
      /\ process[c].is \in {"passed", "failed"}
      /\ receipt' = [receipt EXCEPT ![j].status = ends]
      /\ UNCHANGED <<scheduler, turn, folders, process>>
  BY DEF Collect
<1>2. j \in Listed /\ receipt[j].status = "running"
  BY <1>1 DEF ScheduleInv, ActiveHolds
<1>3. c \in Claims /\ receipt[j].attempt \in 1..batch.tries[j] /\ receipt[j] \in Receipts
      /\ batch.tries[j] \in 1..3
  BY <1>2, AcceptedIsClaim, BatchFacts DEF ScheduleInv, AttemptsHold, ScheduleTyped
<1>4. /\ ends \in {"accepted", "failed", "redo"}
      /\ ends = "accepted" => process[c].is = "passed"
      /\ ends = "redo" => receipt[j].attempt < batch.tries[j]
  BY <1>3
<1> HIDE DEF ends
<1>5. /\ receipt' \in [Jobs -> Receipts] /\ receipt'[j].status = ends
      /\ receipt'[j].attempt = receipt[j].attempt /\ receipt'[j].on = receipt[j].on
      /\ \A i \in Jobs : i # j => receipt'[i] = receipt[i]
  <2>1. receipt' = [receipt EXCEPT ![j] = [receipt[j] EXCEPT !.status = ends]]
    BY <1>1
  <2>2. [receipt[j] EXCEPT !.status = ends] \in Receipts
    BY <1>3, <1>4 DEF Receipts
  <2>. QED
    BY <1>3, <2>1, <2>2 DEF ScheduleInv, ScheduleTyped, Receipts
<1>6. Listed' = Listed /\ Listed \subseteq Jobs
  BY BatchFacts DEF Listed, ScheduleInv, ScheduleTyped
<1>7. ScheduleTyped'
  BY <1>1, <1>5 DEF ScheduleInv, ScheduleTyped, Receipts, Processes
<1>8. ActiveHolds'
  BY <1>1, <1>2, <1>4, <1>5, <1>6 DEF ScheduleInv, ActiveHolds
<1>9. LiveIsClaimed'
  <2>1. ASSUME NEW e \in Claims, process[e].is \in Live
        PROVE  e[1] # j /\ e[1] \in Jobs
    <3>1. receipt[e[1]].attempt = e[2] /\ e = <<e[1], e[2]>> /\ e[1] \in Jobs
      BY <2>1 DEF ScheduleInv, LiveIsClaimed, Claims
    <3>2. e # c
      BY <1>1, <2>1 DEF Live
    <3>. QED
      BY <3>1, <3>2
  <2>. QED
    BY <1>1, <1>5, <1>6, <2>1 DEF ScheduleInv, LiveIsClaimed
<1>10. PromisesFit'
  <2>1. ASSUME NEW d \in batch.devices
        PROVE  /\ Cardinality(Promised(d)') <= batch.slots
               /\ batch.budget > 0 => SumOver(batch.vram, Promised(d)') <= batch.budget
    <3>1. IsFiniteSet(Promised(d)) /\ Cardinality(Promised(d)) \in Nat /\ Promised(d) \subseteq Jobs
      BY PromisedFinite DEF ScheduleInv, ScheduleTyped
    <3>2. Promised(d)' \subseteq Promised(d)
      BY <1>4, <1>5, <1>6 DEF Promised
    <3>3. Cardinality(Promised(d)') <= Cardinality(Promised(d)) /\ Cardinality(Promised(d)') \in Nat
          /\ IsFiniteSet(Promised(d)')
      BY <3>1, <3>2, FS_Subset, FS_CardinalityType
    <3>4. (\A i \in Promised(d) : batch.vram[i] \in Nat) /\ batch.budget \in Nat /\ batch.slots \in Nat
      BY <3>1, BatchFacts DEF ScheduleInv, ScheduleTyped
    <3>5. SumOver(batch.vram, Promised(d)') <= SumOver(batch.vram, Promised(d))
      BY <3>1, <3>2, <3>4, SumOfPart
    <3>6. SumOver(batch.vram, Promised(d)') \in Nat /\ SumOver(batch.vram, Promised(d)) \in Nat
      BY <3>1, <3>2, <3>3, <3>4, SumTyped
    <3>. QED
      BY <3>1, <3>3, <3>4, <3>5, <3>6 DEF ScheduleInv, PromisesFit
  <2>. QED
    BY <2>1 DEF PromisesFit
<1>11. FoldersHold' /\ DueHolds'
  BY <1>1 DEF ScheduleInv, FoldersHold, DueHolds
<1>12. AttemptsHold'
  BY <1>3, <1>4, <1>5 DEF ScheduleInv, AttemptsHold
<1>13. AcceptedPassed'
  BY <1>1, <1>4, <1>5 DEF ScheduleInv, AcceptedPassed
<1>. QED
  BY <1>1, <1>7, <1>8, <1>9, <1>10, <1>11, <1>12, <1>13 DEF ScheduleInv, PassedStays

----------------------------------------------------------------------------
(* The schedule with its worker and the parent. *)

LEMMA ScheduleStill ==
  ASSUME ScheduleInv, UNCHANGED <<batch, scheduler, turn, stop, receipt, folders, process, active>>
  PROVE  ScheduleInv' /\ PassedStays
<1>1. Listed' = Listed
  BY DEF Listed
<1>2. ScheduleTyped' /\ ActiveHolds' /\ LiveIsClaimed' /\ FoldersHold'
  BY <1>1 DEF ScheduleInv, ScheduleTyped, ActiveHolds, LiveIsClaimed, FoldersHold, Receipts, Processes
<1>3. PromisesFit'
  BY <1>1 DEF ScheduleInv, PromisesFit, Promised
<1>4. DueHolds' /\ AttemptsHold' /\ AcceptedPassed'
  BY DueSame DEF ScheduleInv, DueHolds, AttemptsHold, AcceptedPassed
<1>. QED
  BY <1>2, <1>3, <1>4 DEF ScheduleInv, PassedStays

LEMMA LoopKeeps ==
  ASSUME ScheduleInv, batch' = batch, LoopStep
  PROVE  ScheduleInv' /\ PassedStays
<1>1. Listed \subseteq Jobs
  BY BatchFacts DEF ScheduleInv, ScheduleTyped
<1>. QED
  BY <1>1, LoopSameKeeps, BlockKeeps, MakeFolderKeeps, SaveClaimKeeps, RaiseKeeps, CollectKeeps DEF LoopStep

\* A packed batch calls accepted only what an attempt that passed produced.
IsPacked(packed) ==
  packed # NoArchive =>
    \A j \in Listed : packed.of[j].status = "accepted" =>
      /\ <<j, packed.of[j].attempt>> \in Claims
      /\ process[<<j, packed.of[j].attempt>>].is = "passed"

GpuInv ==
  /\ ScheduleInv
  /\ DOMAIN stored = {"batch", "result"}
  /\ IsPacked(archive) /\ IsPacked(stored.batch) /\ IsPacked(collected)
  /\ collected # NoArchive => WholeBatch(collected)

LEMMA GpuStarts == batch \in BatchPlans /\ GpuJobInit => GpuInv
BY ScheduleStarts DEF GpuJobInit, GpuInv, IsPacked, ScheduleInit

(* Where batches come from. *)
LEMMA BatchMoves ==
  ASSUME GpuInv, batch' = batch, ScheduleInv', PassedStays,
         archive' \in {archive, [of |-> receipt, bad |-> changed \cap Accepted]},
         DOMAIN stored' = {"batch", "result"}, stored'.batch \in {stored.batch, archive},
         collected' = collected \/ (collected' = stored.batch /\ WholeBatch(stored.batch))
  PROVE  GpuInv'
<1>1. Listed' = Listed /\ Listed \subseteq Jobs
  BY BatchFacts DEF Listed, GpuInv, ScheduleInv, ScheduleTyped
<1>2. \A x : IsPacked(x) => IsPacked(x)'
  BY <1>1 DEF IsPacked, PassedStays
<1>3. \A x : WholeBatch(x) => WholeBatch(x)'
  BY <1>1 DEF WholeBatch, Checked
<1>4. IsPacked([of |-> receipt, bad |-> changed \cap Accepted])
  BY <1>1, AcceptedIsClaim DEF IsPacked, GpuInv, ScheduleInv, AcceptedPassed
<1>5. PICK x : archive' = x /\ IsPacked(x)
  BY <1>4 DEF GpuInv
<1>6. PICK y : stored'.batch = y /\ IsPacked(y)
  BY DEF GpuInv
<1>7. PICK z : collected' = z /\ IsPacked(z) /\ (z # NoArchive => WholeBatch(z))
  BY DEF GpuInv
<1>8. IsPacked(archive)'
  BY <1>2, <1>5 DEF IsPacked
<1>9. IsPacked(stored.batch)'
  BY <1>2, <1>6 DEF IsPacked
<1>10. IsPacked(collected)'
  BY <1>2, <1>7 DEF IsPacked
<1>11. (collected # NoArchive => WholeBatch(collected))'
  BY <1>3, <1>7 DEF WholeBatch, Checked
<1>. QED
  BY <1>8, <1>9, <1>10, <1>11 DEF GpuInv

LEMMA GpuMoves == GpuInv /\ [GpuNext]_gpuVars => GpuInv'
<1>. SUFFICES ASSUME GpuInv, [GpuNext]_gpuVars PROVE GpuInv'
  OBVIOUS
<1>1. CASE UNCHANGED scheduleVars /\ batch' = batch /\ WorkerStep
  <2>1. UNCHANGED <<batch, scheduler, turn, stop, receipt, folders, process, active, archive>>
    BY <1>1 DEF scheduleVars
  <2>2. DOMAIN stored' = {"batch", "result"} /\ stored'.batch \in {stored.batch, archive}
    <3>1. \/ stored' = stored
          \/ stored' = [stored EXCEPT !.batch = archive]
          \/ stored' = [stored EXCEPT !.result = sealed]
      BY <1>1 DEF WorkerStep, OpenWorker, ClaimStep, StartSchedule, OpenFails, StopsEarly, StepKept,
                  StepReturns, StepCut, PutOutputs, Seal, Publish, CollectBatch
    <3>. QED
      BY <3>1 DEF GpuInv
  <2>3. collected' = collected \/ (collected' = stored.batch /\ WholeBatch(stored.batch))
    BY <1>1 DEF WorkerStep, OpenWorker, ClaimStep, StartSchedule, OpenFails, StopsEarly, StepKept,
                StepReturns, StepCut, PutOutputs, Seal, Publish, CollectBatch
  <2>. QED
    BY <2>1, <2>2, <2>3, ScheduleStill, BatchMoves DEF GpuInv
<1>2. CASE batch' = batch /\ (OpenSchedule \/ Killed \/ ScheduleStep) /\ UNCHANGED <<stored, collected>>
  <2>1. ScheduleInv' /\ PassedStays
    BY <1>2, LoopSameKeeps, KilledKeeps, ProcessKeeps, LoopKeeps DEF ScheduleStep, GpuInv
  <2>2. archive' \in {archive, [of |-> receipt, bad |-> changed \cap Accepted]}
    BY <1>2 DEF OpenSchedule, Killed, ScheduleStep, StartProcess, EndProcess, LoopStep, Look, Block,
                MakeFolder, SaveClaim, Filled, LookAgain, Close, Pack, Raise, Collect
  <2>. QED
    BY <1>2, <2>1, <2>2, BatchMoves DEF GpuInv
<1>3. CASE UNCHANGED <<batch, scheduler, turn, stop, receipt, folders, process, active, archive, stored,
                       collected>>
  BY <1>3, ScheduleStill, BatchMoves DEF GpuInv
<1>4. CASE GpuNext
  <2>1. batch' = batch
    BY <1>4 DEF GpuNext
  <2>2. CASE WorkerStep
    <3>1. \/ UNCHANGED scheduleVars
          \/ (OpenSchedule \/ Killed) /\ UNCHANGED <<stored, collected>>
      BY <2>2 DEF WorkerStep, OpenWorker, ClaimStep, StartSchedule, OpenFails, StopsEarly, StepKept,
                  StepReturns, StepCut, PutOutputs, Seal, Publish, CollectBatch
    <3>. QED
      BY <1>1, <1>2, <2>1, <2>2, <3>1
  <2>3. CASE OperatorRuns
    BY <1>2, <2>1, <2>3 DEF OperatorRuns, workerVars
  <2>4. CASE ScheduleStep /\ UNCHANGED workerVars
    BY <1>2, <2>1, <2>4 DEF workerVars
  <2>5. CASE (Mark \/ DeadlinePasses \/ \E j \in Jobs : ChangeFile(j)) /\ UNCHANGED workerVars
    BY <1>3, <2>1, <2>5 DEF Mark, DeadlinePasses, ChangeFile, scheduleVars, workerVars
  <2>6. CASE WorkerDies
    BY <1>3, <2>1, <2>6 DEF WorkerDies, scheduleVars
  <2>7. CASE ScheduleDies
    BY <1>2, <2>1, <2>7 DEF ScheduleDies, workerVars
  <2>. QED
    BY <1>4, <2>2, <2>3, <2>4, <2>5, <2>6, <2>7 DEF GpuNext
<1>5. CASE UNCHANGED gpuVars
  BY <1>3, <1>5 DEF gpuVars, scheduleVars, workerVars
<1>. QED
  BY <1>4, <1>5

(* No device ever carries more jobs, or more promised memory, than the plan *)
(* allows, also with processes that outlived a killed schedule              *)
(* (remote/gpu_schedule.py), for every plan and any number of deaths.       *)
THEOREM DevicesFit == GpuSpec => []DevicesNotOvercommitted
<1>1. ScheduleInv => DevicesNotOvercommitted
  <2>. SUFFICES ASSUME ScheduleInv, NEW d \in batch.devices
                PROVE  /\ Cardinality(Holding(d)) <= batch.slots
                       /\ batch.budget > 0 => SumOver(PromisedTo, Holding(d)) <= batch.budget
    BY DEF DevicesNotOvercommitted
  <2> DEFINE name == [c \in Holding(d) |-> c[1]]
  <2>1. /\ IsFiniteSet(Promised(d)) /\ Cardinality(Promised(d)) \in Nat
        /\ \A j \in Promised(d) : batch.vram[j] \in Nat
    BY PromisedFinite, BatchFacts DEF ScheduleInv, ScheduleTyped
  <2>2. ASSUME NEW c \in Holding(d)
        PROVE  /\ c[1] \in Promised(d) /\ PromisedTo[c] = batch.vram[c[1]]
               /\ c = <<c[1], receipt[c[1]].attempt>>
    <3>1. c \in Claims /\ process[c].is \in Live /\ d \in process[c].on
      BY DEF Holding, Live
    <3>. QED
      BY <3>1 DEF ScheduleInv, LiveIsClaimed, Promised, PromisedTo, Claims
  <2>3. \A c, e \in Holding(d) : name[c] = name[e] => c = e
    BY <2>2
  <2>4. name \in Injection(Holding(d), Promised(d))
    BY <2>2, <2>3 DEF Injection, IsInjective
  <2>5. /\ IsFiniteSet(Holding(d)) /\ Cardinality(Holding(d)) <= Cardinality(Promised(d))
        /\ Cardinality(Holding(d)) \in Nat
    BY <2>1, <2>4, FS_Injection, FS_CardinalityType
  <2>6. SumOver(PromisedTo, Holding(d)) <= SumOver(batch.vram, Promised(d))
    <3>1. \A c \in Holding(d) : name[c] \in Promised(d) /\ PromisedTo[c] = batch.vram[name[c]]
      BY <2>2
    <3> HIDE DEF name
    <3>. QED
      BY <2>1, <2>3, <2>5, <3>1, SumRenamed
  <2>7. /\ SumOver(PromisedTo, Holding(d)) \in Nat /\ SumOver(batch.vram, Promised(d)) \in Nat
        /\ batch.slots \in Nat /\ batch.budget \in Nat
    <3>1. \A c \in Holding(d) : PromisedTo[c] \in Nat
      BY <2>1, <2>2
    <3>. QED
      BY <2>1, <2>5, <3>1, SumTyped, BatchFacts DEF ScheduleInv, ScheduleTyped
  <2>. QED
    BY <2>1, <2>5, <2>6, <2>7 DEF ScheduleInv, PromisesFit
<1>2. GpuInv => DevicesNotOvercommitted
  BY <1>1 DEF GpuInv
<1>. QED
  BY <1>2, GpuStarts, GpuMoves, PTL DEF GpuSpec

(* What the parent accepts holds every task of the plan, each produced by   *)
(* an attempt that passed and unchanged since (remote/gpu_batch.py,         *)
(* remote/v2.py), whatever is killed, paused, run again or packed early.    *)
THEOREM CollectedStaysWhole == GpuSpec => []CollectedIsWhole
<1>1. GpuInv => CollectedIsWhole
  BY DEF GpuInv, IsPacked, WholeBatch, Checked, CollectedIsWhole
<1>. QED
  BY <1>1, GpuStarts, GpuMoves, PTL DEF GpuSpec
============================================================================
