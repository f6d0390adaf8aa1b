----------------------------- MODULE JobResume -----------------------------
(***************************************************************************)
(* `fsf run` and its checkpoint: runtime/external_op.py with the run        *)
(* command of cli/main.py and the executors under it. A run compiles the    *)
(* document, asks which shots an earlier run has already made, makes the    *)
(* others one by one and writes the checkpoint once, at the end. The output *)
(* folder has no lock: runs with other executors or another version of the  *)
(* document may use it at the same time, a run may die at every point, and  *)
(* files may be damaged.                                                   *)
(***************************************************************************)
EXTENDS Integers, Sequences, FiniteSets, SequencesExt

CONSTANTS
  ShotIds,         \* the shots of the document, in their order
  ExecutorsUsed,   \* the executors the runs are started with
  Runners,         \* runs that may go on at the same time
  MaxJobRuns,      \* bound on the runs of a behaviour
  MaxInterference  \* bound on edits of the document, damaged files and runs that die

ASSUME ResumeAssumption ==
  MaxJobRuns \in Nat /\ MaxInterference \in Nat

VARIABLES
  document,     \* shot -> version of its prompt
  artifacts,    \* file -> its content
  checkpoint,   \* fsf_checkpoint.json
  runner,       \* run -> what it does
  happened      \* counts of the bounded events

resumeVars == <<document, artifacts, checkpoint, runner, happened>>

ShotSet == ToSet(ShotIds)

\* Executors by the kind of what they make; the name of a file follows the kind,
\* so all shape executors write to the same one.
KindOf(executor) ==
  CASE executor = "mock" -> "mock" [] executor = "command" -> "process" [] OTHER -> "shape"
FileOf(shot, executor) == <<shot, KindOf(executor)>>
Files == {FileOf(t, e) : t \in ShotSet, e \in ExecutorsUsed}

\* The bytes depend on the shot's prompt and on the executor alone.
Made(shot, of, executor) == [shot |-> shot, prompt |-> of[shot], by |-> executor]
NoBytes == [shot |-> "none", prompt |-> 0, by |-> "none"]
Broken == [shot |-> "none", prompt |-> 1, by |-> "none"]

NoCheckpoint == [job |-> <<>>, records |-> <<>>]
IdleRunner == [at |-> "idle", of |-> <<>>, by |-> "none", resume |-> TRUE,
               records |-> <<>>, left |-> <<>>]

-----------------------------------------------------------------------------
(* What may be reused.                                                     *)

\* Media needs a conformance receipt, which no executor of the command has.
ReusableKind(kind) == kind \in {"mock", "shape"}

\* A record of the checkpoint stands for the shot: same job, same executor,
\* and the recorded file is there with the recorded bytes.
RecordMatches(record, of, executor) ==
  /\ record.job = of
  /\ artifacts[record.file] # NoBytes /\ artifacts[record.file] = record.bytes
  /\ ReusableKind(record.kind)
RecordHolds(record, of, executor) ==
  /\ record.job = of /\ record.by = executor
  /\ artifacts[record.file] # NoBytes /\ artifacts[record.file] = record.bytes
  /\ ReusableKind(record.kind)

\* inspect_existing_artifacts: files without a record of this very job are pending.
Reused(of, executor) ==
  IF checkpoint.job # of THEN {}
  ELSE {t \in DOMAIN checkpoint.records : RecordHolds(checkpoint.records[t], of, executor)}

\* The authoritative record of one result.
RecordOf(shot, of, executor) ==
  [job |-> of, by |-> executor, kind |-> KindOf(executor),
   file |-> FileOf(shot, executor), bytes |-> Made(shot, of, executor)]

-----------------------------------------------------------------------------
ResumeInit ==
  /\ document = [t \in ShotSet |-> 1]
  /\ artifacts = [f \in Files |-> NoBytes]
  /\ checkpoint = NoCheckpoint
  /\ runner = [r \in Runners |-> IdleRunner]
  /\ happened = [runs |-> 0, others |-> 0]

\* The document is compiled; the run is for this version of it.
BeginRun(r) ==
  /\ runner[r].at = "idle" /\ happened.runs < MaxJobRuns
  /\ happened' = [happened EXCEPT !.runs = @ + 1]
  /\ \E executor \in ExecutorsUsed, again \in BOOLEAN :
       runner' = [runner EXCEPT ![r] = [at |-> "inspect", of |-> document, by |-> executor,
                                        resume |-> again, records |-> <<>>, left |-> <<>>]]
  /\ UNCHANGED <<document, artifacts, checkpoint>>

\* The records of the reused shots are carried over, the others are pending.
InspectRun(r) ==
  LET run == runner[r]
      kept == IF run.resume THEN Reused(run.of, run.by) ELSE {} IN
    /\ run.at = "inspect"
    /\ runner' = [runner EXCEPT
         ![r].at = "make",
         ![r].records = [t \in kept |-> checkpoint.records[t]],
         ![r].left = SelectSeq(ShotIds, LAMBDA t : t \notin kept)]
    /\ UNCHANGED <<document, artifacts, checkpoint, happened>>

\* A shot is made. The command executor publishes a finished file in one
\* step; the others write in place.
MakeShot(r) ==
  LET run == runner[r] shot == Head(run.left) IN
    /\ run.at = "make" /\ run.left # <<>>
    /\ artifacts' = [artifacts EXCEPT ![FileOf(shot, run.by)] = Made(shot, run.of, run.by)]
    /\ runner' = [runner EXCEPT
         ![r].left = Tail(@),
         ![r].records = [t \in DOMAIN @ \cup {shot} |->
                           IF t = shot THEN RecordOf(shot, run.of, run.by) ELSE @[t]]]
    /\ UNCHANGED <<document, checkpoint, happened>>

\* The command fails, times out or makes nothing: the run ends without a checkpoint.
MakeFails(r) ==
  /\ runner[r].at = "make" /\ runner[r].left # <<>> /\ KindOf(runner[r].by) = "process"
  /\ runner' = [runner EXCEPT ![r] = IdleRunner]
  /\ UNCHANGED <<document, artifacts, checkpoint, happened>>

\* The whole checkpoint is replaced, whatever another run has written meanwhile.
SaveCheckpoint(r) ==
  LET run == runner[r] IN
    /\ run.at = "make" /\ run.left = <<>>
    /\ checkpoint' = [job |-> run.of, records |-> run.records]
    /\ runner' = [runner EXCEPT ![r] = IdleRunner]
    /\ UNCHANGED <<document, artifacts, happened>>

\* The run dies, between two steps or while a file is written in place.
RunDies(r) ==
  LET run == runner[r] IN
    /\ run.at # "idle" /\ happened.others < MaxInterference
    /\ happened' = [happened EXCEPT !.others = @ + 1]
    /\ \/ artifacts' = artifacts
       \/ /\ run.at = "make" /\ run.left # <<>> /\ KindOf(run.by) # "process"
          /\ artifacts' = [artifacts EXCEPT ![FileOf(Head(run.left), run.by)] = Broken]
    /\ runner' = [runner EXCEPT ![r] = IdleRunner]
    /\ UNCHANGED <<document, checkpoint>>

\* The author rewrites one shot; a file is damaged or deleted.
Rewrite(t) ==
  /\ happened.others < MaxInterference
  /\ happened' = [happened EXCEPT !.others = @ + 1]
  /\ \E v \in 1..2 : v # document[t] /\ document' = [document EXCEPT ![t] = v]
  /\ UNCHANGED <<artifacts, checkpoint, runner>>

Damage(f) ==
  /\ artifacts[f] # NoBytes /\ happened.others < MaxInterference
  /\ happened' = [happened EXCEPT !.others = @ + 1]
  /\ artifacts' \in {[artifacts EXCEPT ![f] = c] : c \in {NoBytes, Broken}}
  /\ UNCHANGED <<document, checkpoint, runner>>

ResumeNext ==
  \/ \E r \in Runners :
       \/ BeginRun(r) \/ InspectRun(r) \/ MakeShot(r) \/ MakeFails(r)
       \/ SaveCheckpoint(r) \/ RunDies(r)
  \/ \E t \in ShotSet : Rewrite(t)
  \/ \E f \in Files : Damage(f)

ResumeSpec == ResumeInit /\ [][ResumeNext]_resumeVars

-----------------------------------------------------------------------------
\* What a resumed run takes over is what it would have made itself: the bytes
\* on disk are those of the current prompt and of its own executor, however
\* many runs, dead ones and parallel ones included, have shared the folder and
\* overwritten the one checkpoint (external_op.py:259).
ReusedIsCurrent ==
  [][ \A r \in Runners :
        runner[r].at = "inspect" /\ runner'[r].at = "make" =>
          \A t \in DOMAIN runner'[r].records :
            artifacts[FileOf(t, runner[r].by)] = Made(t, runner[r].of, runner[r].by)
    ]_resumeVars
=============================================================================
