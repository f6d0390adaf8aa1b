--------------------------- MODULE MachineProofs ---------------------------
(* Theorems about what one machine does for the programs above it, for      *)
(* every number of files, disks, commands and plans: the chunks of large     *)
(* files, the checkpoint of a run, the segments of a film and its assembly.  *)
EXTENDS FrameSequence, ArtifactChunks, JobResume, MediaAssembly, FiniteSetTheorems,
  SequenceTheorems, TLAPS

----------------------------------------------------------------------------
(* Chunks of a large file.                                                 *)

Versions == {FileOfVersion(v) : v \in 1..original}

\* A manifest is written for a whole version only, carried over only from the
\* near store, and an assembly works from one that has arrived.
ChunksInv ==
  /\ original \in Nat \ {0}
  /\ DOMAIN lists = {"near", "far"} /\ lists.near \subseteq Versions /\ lists.far \subseteq Versions
  /\ DOMAIN carrying = {"list", "done", "on"} /\ (carrying.on => carrying.list \in lists.near)
  /\ DOMAIN joining = {"list", "done", "on"} /\ (joining.on => joining.list \in lists.far)
  /\ DOMAIN output = {"of", "file", "partial", "count"}
  /\ output.file # NoFile => output.file \in lists.far

LEMMA ChunksKept ==
  ASSUME ChunksInv, [ChunksNext]_chunkVars
  PROVE  ChunksInv'
<1>. USE DEF ChunksInv
<1>1. CASE BeginSplit \/ SplitChunk
  BY <1>1 DEF BeginSplit, SplitChunk, Versions
<1>2. CASE EndSplit
  <2>1. Unchanged => splitting.read \in Versions
    BY DEF Unchanged, Versions
  <2>2. lists'.near \subseteq Versions /\ lists'.far = lists.far /\ lists.near \subseteq lists'.near
        /\ DOMAIN lists' = {"near", "far"}
    BY <1>2, <2>1 DEF EndSplit
  <2>3. UNCHANGED <<original, carrying, joining, output>> /\ Versions' = Versions
    BY <1>2 DEF EndSplit, Versions
  <2>. HIDE DEF Versions
  <2>. QED
    BY <2>2, <2>3
<1>3. CASE BeginTransfer \/ CarryChunk \/ EndTransfer
  BY <1>3 DEF BeginTransfer, CarryChunk, EndTransfer, Resting, Versions
<1>4. CASE \E list \in lists.far : BeginAssembly(list)
  BY <1>4 DEF BeginAssembly, Versions
<1>5. CASE AppendChunk
  BY <1>5 DEF AppendChunk, Resting, Versions
<1>6. CASE PlaceOutput
  <2>1. \/ output' = [output EXCEPT !.file = output.partial, !.partial = NoFile] /\ Verified
           /\ joining' = joining
        \/ output' = output /\ joining' = Resting
    BY <1>6 DEF PlaceOutput
  <2>2. joining.on /\ UNCHANGED <<original, lists, carrying>> /\ Versions' = Versions
    BY <1>6 DEF PlaceOutput, Versions
  <2>3. CASE /\ output' = [output EXCEPT !.file = output.partial, !.partial = NoFile]
             /\ Verified /\ joining' = joining
    <3>1. output'.file = joining.list /\ DOMAIN output' = {"of", "file", "partial", "count"}
      BY <2>3 DEF Verified
    <3>. QED
      BY <2>2, <2>3, <3>1
  <2>4. CASE output' = output /\ joining' = Resting
    BY <2>2, <2>4 DEF Resting
  <2>. QED
    BY <2>1, <2>3, <2>4
<1>7. CASE DropCheckpoint
  BY <1>7 DEF DropCheckpoint, Resting, Versions
<1>8. CASE Rewritten
  <2>1. original' \in Nat \ {0} /\ 1..original \subseteq 1..original'
    BY <1>8 DEF Rewritten
  <2>2. Versions \subseteq Versions'
    BY <2>1 DEF Versions
  <2>3. UNCHANGED <<lists, carrying, joining, output>>
    BY <1>8 DEF Rewritten
  <2>. HIDE DEF Versions
  <2>. QED
    BY <2>1, <2>2, <2>3
<1>9. CASE Mishap
  BY <1>9 DEF Mishap, CommandDies, DamageChunk, DamagePartial, RemoveOutput, Resting, Versions
<1>10. CASE UNCHANGED chunkVars
  BY <1>10 DEF chunkVars, Versions
<1>. QED
  BY <1>1, <1>2, <1>3, <1>4, <1>5, <1>6, <1>7, <1>8, <1>9, <1>10 DEF ChunksNext

(* Every manifest is of one version of the file, and what was assembled is  *)
(* such a version, whatever was rewritten, resumed, damaged or died.        *)
THEOREM AssembledWhole == ChunksSpec => []AssembledIsOneVersion
<1>1. ChunksInit => ChunksInv
  BY DEF ChunksInit, ChunksInv, Resting, NoFile
<1>2. ChunksInv => AssembledIsOneVersion
  BY DEF ChunksInv, Versions, AssembledIsOneVersion
<1>. QED
  BY <1>1, <1>2, ChunksKept, PTL DEF ChunksSpec

----------------------------------------------------------------------------
(* The checkpoint of a run.                                                *)

\* A record is about its own shot: the file its executor writes for it and the
\* bytes that executor makes of it under the job the record names.
OwnRecord(t, record) ==
  /\ record.file = FileOf(t, record.by)
  /\ record.bytes = Made(t, record.job, record.by)

RecordsOwn(records) == \A t \in DOMAIN records : OwnRecord(t, records[t])

RunFields == {"at", "of", "by", "resume", "records", "left"}

ResumeInv ==
  /\ RecordsOwn(checkpoint.records)
  /\ DOMAIN runner = Runners
  /\ \A r \in Runners : DOMAIN runner[r] = RunFields /\ RecordsOwn(runner[r].records)

LEMMA RunMoves ==
  ASSUME ResumeInv, NEW r \in Runners
  PROVE  /\ BeginRun(r) => /\ runner[r].at = "idle" /\ DOMAIN runner'[r] = RunFields
                           /\ runner'[r].records = <<>>
         /\ InspectRun(r) =>
              LET kept == IF runner[r].resume THEN Reused(runner[r].of, runner[r].by) ELSE {}
              IN /\ DOMAIN runner'[r] = RunFields
                 /\ runner'[r].records = [t \in kept |-> checkpoint.records[t]]
         /\ MakeShot(r) =>
              LET shot == Head(runner[r].left)
                  new == RecordOf(shot, runner[r].of, runner[r].by)
              IN /\ runner[r].at = "make" /\ DOMAIN runner'[r] = RunFields
                 /\ runner'[r].records = [t \in DOMAIN runner[r].records \cup {shot} |->
                                            IF t = shot THEN new ELSE runner[r].records[t]]
         /\ MakeFails(r) \/ SaveCheckpoint(r) \/ RunDies(r) => runner'[r] = IdleRunner
         /\ BeginRun(r) \/ InspectRun(r) \/ MakeShot(r) \/ MakeFails(r) \/ SaveCheckpoint(r) \/ RunDies(r)
              => DOMAIN runner' = Runners /\ \A q \in Runners \ {r} : runner'[q] = runner[q]
<1>. USE DEF ResumeInv, RunFields
<1>1. ASSUME NEW new, runner' = [runner EXCEPT ![r] = new]
      PROVE  /\ runner'[r] = new /\ DOMAIN runner' = Runners
             /\ \A q \in Runners \ {r} : runner'[q] = runner[q]
  BY <1>1
<1>2. ASSUME BeginRun(r)
      PROVE  /\ runner[r].at = "idle" /\ DOMAIN runner'[r] = RunFields /\ runner'[r].records = <<>>
             /\ DOMAIN runner' = Runners /\ \A q \in Runners \ {r} : runner'[q] = runner[q]
  BY <1>2 DEF BeginRun
<1>3. ASSUME InspectRun(r)
      PROVE  LET kept == IF runner[r].resume THEN Reused(runner[r].of, runner[r].by) ELSE {}
             IN /\ DOMAIN runner'[r] = RunFields
                /\ runner'[r].records = [t \in kept |-> checkpoint.records[t]]
                /\ DOMAIN runner' = Runners /\ \A q \in Runners \ {r} : runner'[q] = runner[q]
  <2>. DEFINE kept == IF runner[r].resume THEN Reused(runner[r].of, runner[r].by) ELSE {}
              left == SelectSeq(ShotIds, LAMBDA t : t \notin kept)
              records == [t \in kept |-> checkpoint.records[t]]
  <2>1. runner' = [runner EXCEPT ![r].at = "make", ![r].records = records, ![r].left = left]
    BY <1>3 DEF InspectRun
  <2>. HIDE DEF left, records
  <2>2. /\ DOMAIN runner'[r] = RunFields /\ runner'[r].records = records
        /\ DOMAIN runner' = Runners /\ \A q \in Runners \ {r} : runner'[q] = runner[q]
    BY <2>1
  <2>. QED
    BY <2>2 DEF records
<1>4. ASSUME MakeShot(r)
      PROVE  LET shot == Head(runner[r].left)
                 new == RecordOf(shot, runner[r].of, runner[r].by)
             IN /\ runner[r].at = "make" /\ DOMAIN runner'[r] = RunFields
                /\ runner'[r].records = [t \in DOMAIN runner[r].records \cup {shot} |->
                                           IF t = shot THEN new ELSE runner[r].records[t]]
                /\ DOMAIN runner' = Runners /\ \A q \in Runners \ {r} : runner'[q] = runner[q]
  <2>. DEFINE shot == Head(runner[r].left)
              left == Tail(runner[r].left)
              records == [t \in DOMAIN runner[r].records \cup {shot} |->
                            IF t = shot THEN RecordOf(shot, runner[r].of, runner[r].by)
                            ELSE runner[r].records[t]]
  <2>1. runner' = [runner EXCEPT ![r].left = left, ![r].records = records] /\ runner[r].at = "make"
    BY <1>4 DEF MakeShot
  <2>. HIDE DEF left, records
  <2>2. /\ DOMAIN runner'[r] = RunFields /\ runner'[r].records = records
        /\ DOMAIN runner' = Runners /\ \A q \in Runners \ {r} : runner'[q] = runner[q]
    BY <2>1
  <2>. QED
    BY <2>1, <2>2 DEF records
<1>5. ASSUME MakeFails(r) \/ SaveCheckpoint(r) \/ RunDies(r)
      PROVE  /\ runner'[r] = IdleRunner /\ DOMAIN runner' = Runners
             /\ \A q \in Runners \ {r} : runner'[q] = runner[q]
  <2>1. runner' = [runner EXCEPT ![r] = IdleRunner]
    BY <1>5 DEF MakeFails, SaveCheckpoint, RunDies
  <2>. QED
    BY <1>1, <2>1
<1>. QED
  BY <1>2, <1>3, <1>4, <1>5

LEMMA ResumeKept ==
  ASSUME ResumeInv, [ResumeNext]_resumeVars
  PROVE  ResumeInv'
<1>1. ASSUME NEW r \in Runners, RecordsOwn(checkpoint'.records), DOMAIN runner' = Runners,
             \A q \in Runners \ {r} : runner'[q] = runner[q],
             DOMAIN runner'[r] = RunFields, RecordsOwn(runner'[r].records)
      PROVE  ResumeInv'
  BY <1>1 DEF ResumeInv
<1>2. RecordsOwn(<<>>)
  BY DEF RecordsOwn
<1>3. ASSUME NEW r \in Runners, BeginRun(r) PROVE ResumeInv'
  <2>1. UNCHANGED checkpoint
    BY <1>3 DEF BeginRun
  <2>. QED
    BY <1>1, <1>2, <1>3, <2>1, RunMoves DEF ResumeInv
<1>4. ASSUME NEW r \in Runners, InspectRun(r) PROVE ResumeInv'
  <2>. DEFINE kept == IF runner[r].resume THEN Reused(runner[r].of, runner[r].by) ELSE {}
  <2>1. kept \subseteq DOMAIN checkpoint.records
    BY DEF Reused
  <2>2. UNCHANGED checkpoint
    BY <1>4 DEF InspectRun
  <2>3. /\ DOMAIN runner'[r] = RunFields
        /\ runner'[r].records = [t \in kept |-> checkpoint.records[t]]
        /\ DOMAIN runner' = Runners /\ \A q \in Runners \ {r} : runner'[q] = runner[q]
    BY <1>4, RunMoves
  <2>. HIDE DEF kept
  <2>4. RecordsOwn([t \in kept |-> checkpoint.records[t]])
    BY <2>1 DEF ResumeInv, RecordsOwn
  <2>5. RecordsOwn(runner'[r].records) /\ RecordsOwn(checkpoint'.records)
    BY <2>2, <2>3, <2>4 DEF ResumeInv
  <2>. QED
    BY <1>1, <2>3, <2>5
<1>5. ASSUME NEW r \in Runners, MakeShot(r) PROVE ResumeInv'
  <2>. DEFINE shot == Head(runner[r].left)
              new == RecordOf(shot, runner[r].of, runner[r].by)
              records == [t \in DOMAIN runner[r].records \cup {shot} |->
                            IF t = shot THEN new ELSE runner[r].records[t]]
  <2>1. OwnRecord(shot, new)
    BY DEF OwnRecord, RecordOf
  <2>2. UNCHANGED checkpoint
    BY <1>5 DEF MakeShot
  <2>3. /\ DOMAIN runner'[r] = RunFields /\ runner'[r].records = records
        /\ DOMAIN runner' = Runners /\ \A q \in Runners \ {r} : runner'[q] = runner[q]
    BY <1>5, RunMoves
  <2>. HIDE DEF new, shot
  <2>4. RecordsOwn(records)
    BY <2>1 DEF ResumeInv, RecordsOwn
  <2>. HIDE DEF records
  <2>5. RecordsOwn(runner'[r].records) /\ RecordsOwn(checkpoint'.records)
    BY <2>2, <2>3, <2>4 DEF ResumeInv
  <2>. QED
    BY <1>1, <2>3, <2>5
<1>6. ASSUME NEW r \in Runners, MakeFails(r) \/ SaveCheckpoint(r) \/ RunDies(r) PROVE ResumeInv'
  <2>1. RecordsOwn(checkpoint'.records)
    BY <1>6 DEF MakeFails, SaveCheckpoint, RunDies, ResumeInv
  <2>2. DOMAIN IdleRunner = RunFields /\ IdleRunner.records = <<>>
    BY DEF IdleRunner, RunFields
  <2>3. /\ runner'[r] = IdleRunner /\ DOMAIN runner' = Runners
        /\ \A q \in Runners \ {r} : runner'[q] = runner[q]
    BY <1>6, RunMoves
  <2>. QED
    BY <1>1, <1>2, <2>1, <2>2, <2>3
<1>7. CASE (\E t \in ShotSet : Rewrite(t)) \/ (\E f \in Files : Damage(f)) \/ UNCHANGED resumeVars
  <2>1. UNCHANGED <<checkpoint, runner>>
    BY <1>7 DEF Rewrite, Damage, resumeVars
  <2>. QED
    BY <2>1 DEF ResumeInv
<1>. QED
  BY <1>3, <1>4, <1>5, <1>6, <1>7 DEF ResumeNext

(* What a resumed run takes over is what it would have made itself.         *)
THEOREM ReusedCurrent == ResumeSpec => ReusedIsCurrent
<1>1. ResumeInit => ResumeInv
  BY DEF ResumeInit, ResumeInv, RecordsOwn, NoCheckpoint, IdleRunner, RunFields
<1>2. ASSUME ResumeInv, [ResumeNext]_resumeVars, NEW r \in Runners,
             runner[r].at = "inspect", runner'[r].at = "make",
             NEW t \in DOMAIN runner'[r].records
      PROVE  artifacts[FileOf(t, runner[r].by)] = Made(t, runner[r].of, runner[r].by)
  <2>1. InspectRun(r)
    <3>1. IdleRunner.at = "idle"
      BY DEF IdleRunner
    <3>2. runner'[r] # runner[r] /\ runner'[r] # IdleRunner
      BY <1>2, <3>1
    <3>3. CASE (\E u \in ShotSet : Rewrite(u)) \/ (\E f \in Files : Damage(f)) \/ UNCHANGED resumeVars
      BY <3>2, <3>3 DEF Rewrite, Damage, resumeVars
    <3>. QED
      BY <1>2, <3>2, <3>3, RunMoves DEF ResumeNext
  <2>2. t \in Reused(runner[r].of, runner[r].by)
    BY <1>2, <2>1, RunMoves
  <2>3. t \in DOMAIN checkpoint.records
        /\ RecordHolds(checkpoint.records[t], runner[r].of, runner[r].by)
    BY <2>2 DEF Reused
  <2>. QED
    BY <1>2, <2>3 DEF RecordHolds, ResumeInv, RecordsOwn, OwnRecord
<1>3. ResumeInv /\ [ResumeNext]_resumeVars =>
        [ \A r \in Runners :
            runner[r].at = "inspect" /\ runner'[r].at = "make" =>
              \A t \in DOMAIN runner'[r].records :
                artifacts[FileOf(t, runner[r].by)] = Made(t, runner[r].of, runner[r].by) ]_resumeVars
  BY <1>2
<1>. QED
  BY <1>1, <1>3, ResumeKept, PTL DEF ResumeSpec, ReusedIsCurrent

----------------------------------------------------------------------------
(* A sequence of segments.                                                 *)

Receipts == (Nat \ {0}) \X Nat
Chains == {c \in Seq(Receipts) : Len(c) <= Length}
Pieces == [frames: Nat, receipt: Receipts]
Documents == [chain: Chains, output: Seq(Int)]
Folders ==
  [is: {"absent", "empty", "used"}, movie: Seq(Int), document: Documents,
   segments: [1..Length -> Pieces \cup {NoSegment}]]
Running == {"look", "drawn", "encode", "recheck", "replace", "attest"}
Locking == Running \cup {"split", "reread"}
Places == Locking \cup {"idle", "lock", "store", "place"}
WorkRecords ==
  [by: {"none", "run", "export", "rename", "compare"}, at: Places,
   disk: Disks \cup {"none"}, chain: Chains, draft: Seq(Int)]

SequenceTypeOK ==
  /\ disk \in [Disks -> Folders]
  /\ bundles \in SUBSET [chain: Chains, whole: BOOLEAN]
  /\ worker \in [SequenceWorkers -> WorkRecords]
  /\ granted \in [Disks -> SUBSET Chains]
  /\ counted \in [made: Nat, mishaps: Nat]

\* The segment i was generated from the one before it, or that one is damaged.
Continues(segments, i, from) ==
  IF i = 1 THEN from = 0
  ELSE segments[i - 1] # NoSegment /\ (from = segments[i - 1].receipt[1] \/ segments[i - 1].frames = 0)

\* What lies in a folder: damage is never undone, and links hold where there is none.
SegmentsHold(segments) ==
  \A i \in 1..Length : segments[i] # NoSegment =>
    /\ segments[i].frames \in {0, segments[i].receipt[1]}
    /\ Continues(segments, i, segments[i].receipt[2])

Follows(chain, segments) ==
  \A i \in 1..Len(chain) : segments[i] # NoSegment /\ segments[i].receipt = chain[i]

\* What a command knows of the folder it works on.
Fits(k, place) ==
  /\ k.at # "idle" => k.disk \in Disks
  /\ k.at = "lock" => k.chain = <<>>
  /\ k.at \in Locking => place.is = "used"
  /\ k.at \in Running => Follows(k.chain, place.segments)
  /\ k.at = "drawn" => /\ Len(k.chain) + 1 <= Length /\ place.segments[Len(k.chain) + 1] = NoSegment
                       /\ Len(k.draft) = 2 /\ k.draft[1] \in Nat \ {0} /\ k.draft[2] \in Nat
                       /\ Continues(place.segments, Len(k.chain) + 1, k.draft[2])
  /\ k.at \in Running \ {"look", "drawn"} => Len(k.chain) = Length
  /\ k.at = "recheck" => /\ Len(k.draft) = Length
                         /\ \A i \in 1..Length : \/ k.draft[i] = place.segments[i].frames
                                                 \/ place.segments[i].frames = 0
  /\ k.at \in {"replace", "attest"} => Chained(k.chain) /\ k.draft = Frames(k.chain)
  /\ k.at = "attest" => place.movie = k.draft
  /\ k.at = "place" => Chained(k.chain)

\* A chain a restore reported is there, and more may follow it.
Includes(d, chain) ==
  /\ Len(chain) <= Cardinality({j \in 1..Length : There(d, j)})
  /\ \A i \in 1..Len(chain) : disk[d].segments[i].receipt = chain[i]

DocumentHolds(d) ==
  disk[d].document # NoDocument =>
    /\ Chained(disk[d].document.chain) /\ Len(disk[d].document.chain) = Length
    /\ disk[d].document.output = Frames(disk[d].document.chain)

SequenceInv ==
  /\ SequenceTypeOK
  /\ \A d \in Disks : SegmentsHold(disk[d].segments)
  /\ \A w \in SequenceWorkers : Fits(worker[w], disk[worker[w].disk])
  /\ \A v, w \in SequenceWorkers :
       worker[v].at \in Locking /\ worker[w].at \in Locking /\ worker[v].disk = worker[w].disk => v = w
  /\ \A d \in Disks : granted[d] # {} => disk[d].is = "used"
  /\ \A d \in Disks : \A chain \in granted[d] : Includes(d, chain)
  /\ \A d \in Disks : DocumentHolds(d)

LEMMA FreeFits ==
  /\ Free \in WorkRecords /\ Free.at = "idle"
  /\ \A place : Fits(Free, place)
<1>1. <<>> \in Chains /\ <<>> \in Seq(Int)
  BY SequenceAssumption DEF Chains
<1>2. Free \in WorkRecords /\ Free.at = "idle"
  BY <1>1 DEF Free, WorkRecords, Places
<1>3. \A place : Fits(Free, place)
  BY <1>2 DEF Locking, Running, Fits
<1>. QED
  BY <1>2, <1>3

LEMMA NoneTyped == NoDocument \in Documents /\ <<>> \in Seq(Int)
<1>1. <<>> \in Chains /\ <<>> \in Seq(Int)
  BY SequenceAssumption DEF Chains
<1>. QED
  BY <1>1 DEF NoDocument, Documents

LEMMA SegmentTyped ==
  ASSUME SequenceInv, NEW d \in Disks, NEW i \in 1..Length
  PROVE  /\ disk[d].segments[i].frames \in Int
         /\ disk[d].segments[i] # NoSegment =>
              /\ disk[d].segments[i] \in Pieces /\ disk[d].segments[i].receipt \in Receipts
              /\ disk[d].segments[i].frames \in {0, disk[d].segments[i].receipt[1]}
<1>1. disk[d].segments \in [1..Length -> Pieces \cup {NoSegment}]
  BY DEF SequenceInv, SequenceTypeOK, Folders
<1>2. NoSegment.frames \in Int /\ \A piece \in Pieces : piece.frames \in Int /\ piece.receipt \in Receipts
  BY DEF NoSegment, Pieces
<1>. QED
  BY <1>1, <1>2 DEF SequenceInv, SegmentsHold

(* A step of one command that leaves the segments, films and grants alone. *)
LEMMA CommandMoves ==
  ASSUME SequenceInv, NEW w \in SequenceWorkers, NEW k \in WorkRecords,
         worker' = [worker EXCEPT ![w] = k],
         disk' \in [Disks -> Folders],
         \A d \in Disks : /\ disk'[d].segments = disk[d].segments /\ disk'[d].movie = disk[d].movie
                          /\ disk'[d].document = disk[d].document
                          /\ disk[d].is = "used" => disk'[d].is = "used",
         granted' = granted,
         bundles' \in SUBSET [chain: Chains, whole: BOOLEAN], counted' \in [made: Nat, mishaps: Nat],
         Fits(k, disk'[k.disk]),
         \A v \in SequenceWorkers \ {w} :
           k.at \in Locking /\ worker[v].at \in Locking => worker[v].disk # k.disk
  PROVE  SequenceInv'
<1>1. worker'[w] = k /\ \A v \in SequenceWorkers \ {w} : worker'[v] = worker[v]
  BY DEF SequenceInv, SequenceTypeOK
<1>2. SequenceTypeOK'
  BY DEF SequenceInv, SequenceTypeOK
<1>3. ASSUME NEW v \in SequenceWorkers PROVE Fits(worker'[v], disk'[worker'[v].disk])
  <2>1. CASE v = w
    BY <1>1, <2>1
  <2>2. CASE v # w
    <3>1. worker'[v] = worker[v] /\ Fits(worker[v], disk[worker[v].disk]) /\ worker[v] \in WorkRecords
      BY <1>1, <2>2 DEF SequenceInv, SequenceTypeOK
    <3>2. CASE worker[v].at = "idle"
      BY <3>1, <3>2 DEF Fits, Locking, Running
    <3>3. CASE worker[v].at # "idle"
      <4>1. worker[v].disk \in Disks
        BY <3>1, <3>3 DEF Fits
      <4>. QED
        BY <3>1, <4>1 DEF Fits
    <3>. QED
      BY <3>2, <3>3
  <2>. QED
    BY <2>1, <2>2
<1>4. \A d \in Disks : SegmentsHold(disk'[d].segments)
  BY DEF SequenceInv
<1>5. ASSUME NEW d \in Disks PROVE /\ granted'[d] # {} => disk'[d].is = "used"
                                   /\ \A chain \in granted'[d] : Includes(d, chain)'
                                   /\ DocumentHolds(d)'
  <2>1. {j \in 1..Length : There(d, j)'} = {j \in 1..Length : There(d, j)}
    BY DEF There
  <2>2. ASSUME NEW chain \in granted[d] PROVE Includes(d, chain)'
    <3>1. Includes(d, chain)
      BY DEF SequenceInv
    <3>2. Len(chain) <= Cardinality({j \in 1..Length : There(d, j)'})
      BY <2>1, <3>1 DEF Includes
    <3>3. \A i \in 1..Len(chain) : disk'[d].segments[i].receipt = chain[i]
      BY <3>1 DEF Includes
    <3>. QED
      BY <3>2, <3>3 DEF Includes
  <2>3. DocumentHolds(d)'
    BY DEF SequenceInv, DocumentHolds
  <2>. QED
    BY <2>2, <2>3 DEF SequenceInv
<1>6. \A u, v \in SequenceWorkers :
        worker'[u].at \in Locking /\ worker'[v].at \in Locking /\ worker'[u].disk = worker'[v].disk => u = v
  BY <1>1 DEF SequenceInv
<1>7. /\ \A d \in Disks : SegmentsHold(disk[d].segments)'
      /\ \A v \in SequenceWorkers : Fits(worker[v], disk[worker[v].disk])'
  BY <1>3, <1>4
<1>. QED
  BY <1>2, <1>5, <1>6, <1>7 DEF SequenceInv

LEMMA StoppingMoves ==
  ASSUME SequenceInv, NEW w \in SequenceWorkers, Stops(w), disk' = disk, granted' = granted,
         bundles' \in SUBSET [chain: Chains, whole: BOOLEAN], counted' \in [made: Nat, mishaps: Nat]
  PROVE  SequenceInv'
<1>1. Free \in WorkRecords /\ Free.at \notin Locking /\ Fits(Free, disk'[Free.disk])
  BY FreeFits DEF Locking, Running
<1>. QED
  BY <1>1, CommandMoves DEF Stops, SequenceInv, SequenceTypeOK

LEMMA OpenRunMoves ==
  ASSUME SequenceInv, NEW w \in SequenceWorkers, NEW d \in Disks, OpenRun(w, d)
  PROVE  SequenceInv'
<1> DEFINE k == [Free EXCEPT !.by = "run", !.at = "lock", !.disk = d]
<1>1. k \in WorkRecords /\ k.at = "lock" /\ k.disk = d /\ k.chain = <<>>
  BY FreeFits DEF WorkRecords, Places, Free
<1>2. Fits(k, disk'[k.disk])
  BY <1>1 DEF Fits, Locking, Running
<1>3. /\ disk' \in [Disks -> Folders]
      /\ \A e \in Disks : /\ disk'[e].segments = disk[e].segments /\ disk'[e].movie = disk[e].movie
                          /\ disk'[e].document = disk[e].document
                          /\ disk[e].is = "used" => disk'[e].is = "used"
  BY DEF OpenRun, SequenceInv, SequenceTypeOK, Folders
<1>4. k.at \notin Locking
  BY <1>1 DEF Locking, Running
<1>5. worker' = [worker EXCEPT ![w] = k] /\ UNCHANGED <<bundles, granted, counted>>
  BY DEF OpenRun
<1> HIDE DEF k
<1>. QED
  BY <1>1, <1>2, <1>3, <1>4, <1>5, CommandMoves DEF SequenceInv, SequenceTypeOK

LEMMA LockRunMoves ==
  ASSUME SequenceInv, NEW w \in SequenceWorkers, LockRun(w)
  PROVE  SequenceInv'
<1> DEFINE d == worker[w].disk
           k == [worker[w] EXCEPT !.at = "look"]
<1>1. worker[w] \in WorkRecords /\ d \in Disks /\ worker[w].chain = <<>>
  BY DEF SequenceInv, SequenceTypeOK, Fits, LockRun
<1>2. k \in WorkRecords /\ k.at = "look" /\ k.disk = d /\ k.chain = <<>>
  BY <1>1 DEF WorkRecords, Places, Locking, Running
<1>3. /\ disk' \in [Disks -> Folders] /\ disk'[d].is = "used"
      /\ \A e \in Disks : /\ disk'[e].segments = disk[e].segments /\ disk'[e].movie = disk[e].movie
                          /\ disk'[e].document = disk[e].document
                          /\ disk[e].is = "used" => disk'[e].is = "used"
  BY <1>1, ZenonT(60) DEF LockRun, SequenceInv, SequenceTypeOK, Folders
<1>4. Fits(k, disk'[k.disk])
  BY <1>1, <1>2, <1>3 DEF Fits, Locking, Running, Follows
<1>5. worker' = [worker EXCEPT ![w] = k] /\ UNCHANGED <<bundles, granted, counted>>
  BY DEF LockRun, Moves
<1>6. \A v \in SequenceWorkers \ {w} : worker[v].at \in Locking => worker[v].disk # k.disk
  BY <1>2 DEF LockRun, Locked, Locking, Running
<1>7. bundles' \in SUBSET [chain: Chains, whole: BOOLEAN] /\ counted' \in [made: Nat, mishaps: Nat]
  BY <1>5 DEF SequenceInv, SequenceTypeOK
<1>8. \A e \in Disks : /\ disk'[e].segments = disk[e].segments /\ disk'[e].movie = disk[e].movie
                       /\ disk'[e].document = disk[e].document
                       /\ disk[e].is = "used" => disk'[e].is = "used"
  BY <1>3
<1>9. disk' \in [Disks -> Folders] /\ granted' = granted /\ worker' = [worker EXCEPT ![w] = k] /\ k \in WorkRecords
  BY <1>2, <1>3, <1>5
<1> HIDE DEF k, d
<1>. QED
  BY <1>4, <1>6, <1>7, <1>8, <1>9, CommandMoves

(* A step of a command that holds the lock already, or gives it up. *)
LEMMA HolderMoves ==
  ASSUME SequenceInv, NEW w \in SequenceWorkers, NEW k \in WorkRecords,
         worker[w].at \in Locking, k.disk = worker[w].disk, worker' = [worker EXCEPT ![w] = k],
         disk' = disk, granted' = granted, bundles' = bundles, counted' \in [made: Nat, mishaps: Nat],
         Fits(k, disk[k.disk])
  PROVE  SequenceInv'
<1>1. \A v \in SequenceWorkers \ {w} : worker[v].at \in Locking => worker[v].disk # k.disk
  BY DEF SequenceInv
<1>2. disk' \in [Disks -> Folders] /\ bundles' \in SUBSET [chain: Chains, whole: BOOLEAN]
  BY DEF SequenceInv, SequenceTypeOK
<1>3. \A d \in Disks : /\ disk'[d].segments = disk[d].segments /\ disk'[d].movie = disk[d].movie
                       /\ disk'[d].document = disk[d].document
                       /\ disk[d].is = "used" => disk'[d].is = "used"
  OBVIOUS
<1>4. Fits(k, disk'[k.disk])
  OBVIOUS
<1>. QED
  BY <1>1, <1>2, <1>3, <1>4, CommandMoves, ZenonT(60)

LEMMA TakeSegmentMoves ==
  ASSUME SequenceInv, NEW w \in SequenceWorkers, TakeSegment(w)
  PROVE  SequenceInv'
<1> DEFINE d == worker[w].disk
           i == Len(worker[w].chain) + 1
           k == [worker[w] EXCEPT !.chain = Append(worker[w].chain, disk[d].segments[i].receipt)]
<1>1. worker[w] \in WorkRecords /\ d \in Disks /\ Fits(worker[w], disk[d]) /\ worker[w].at = "look"
  BY DEF SequenceInv, SequenceTypeOK, Fits, TakeSegment
<1>2. CASE Stops(w)
  BY <1>2, StoppingMoves DEF TakeSegment, SequenceInv, SequenceTypeOK
<1>3. CASE worker' = [worker EXCEPT ![w] = k]
  <2>1. i \in 1..Length /\ disk[d].segments[i] # NoSegment /\ disk[d].segments[i].receipt \in Receipts
    BY <1>1, SequenceAssumption DEF TakeSegment, There, SequenceInv, SequenceTypeOK, Folders, Pieces, WorkRecords, Chains
  <2>2. worker[w].chain \in Seq(Receipts)
    BY <1>1 DEF WorkRecords, Chains
  <2>3. k.chain \in Chains /\ Len(k.chain) = i
        /\ \A j \in 1..i : k.chain[j] = IF j = i THEN disk[d].segments[i].receipt ELSE worker[w].chain[j]
    <3>1. k.chain = Append(worker[w].chain, disk[d].segments[i].receipt)
      BY <1>1 DEF WorkRecords
    <3>2. Len(worker[w].chain) + 1 <= Length
      BY <2>1, <2>2, SequenceAssumption
    <3> HIDE DEF k
    <3>3. k.chain \in Seq(Receipts) /\ Len(k.chain) = i
      BY <2>1, <2>2, <3>1
    <3>4. \A j \in 1..i : k.chain[j] = IF j = i THEN disk[d].segments[i].receipt ELSE worker[w].chain[j]
      BY <2>1, <2>2, <3>1
    <3>. QED
      BY <3>2, <3>3, <3>4 DEF Chains
  <2>4. k \in WorkRecords /\ k.at = "look" /\ k.disk = d
    BY <1>1, <2>3, ZenonT(60) DEF WorkRecords
  <2>5. Follows(k.chain, disk[d].segments)
    <3>1. Follows(worker[w].chain, disk[d].segments)
      BY <1>1 DEF Fits, Running
    <3> HIDE DEF k
    <3>2. ASSUME NEW j \in 1..Len(k.chain)
          PROVE  disk[d].segments[j] # NoSegment /\ disk[d].segments[j].receipt = k.chain[j]
      <4>1. CASE j = i
        BY <2>1, <2>3, <4>1
      <4>2. CASE j # i
        <5>1. j \in 1..Len(worker[w].chain) /\ k.chain[j] = worker[w].chain[j]
          BY <2>2, <2>3, <4>2
        <5>. QED
          BY <3>1, <5>1 DEF Follows
      <4>. QED
        BY <4>1, <4>2
    <3>. QED
      BY <3>2 DEF Follows
  <2>6. Fits(k, disk[k.disk])
    BY <1>1, <2>4, <2>5, ZenonT(60) DEF Fits, Locking, Running
  <2>7. worker[w].at \in Locking /\ UNCHANGED <<disk, granted, bundles, counted>>
    BY <1>1 DEF TakeSegment, Locking, Running
  <2> HIDE DEF k, d
  <2>. QED
    BY <1>3, <2>4, <2>6, <2>7, HolderMoves DEF SequenceInv, SequenceTypeOK, d
<1>. QED
  BY <1>2, <1>3 DEF TakeSegment

LEMMA GenerateMoves ==
  ASSUME SequenceInv, NEW w \in SequenceWorkers, Generate(w)
  PROVE  SequenceInv'
<1> DEFINE d == worker[w].disk
           i == Len(worker[w].chain) + 1
           k == [worker[w] EXCEPT !.at = "drawn", !.draft = <<counted.made + 1, Initialization(d, i)>>]
<1>1. worker[w] \in WorkRecords /\ d \in Disks /\ Fits(worker[w], disk[d]) /\ worker[w].at = "look"
      /\ counted \in [made: Nat, mishaps: Nat]
  BY DEF SequenceInv, SequenceTypeOK, Fits, Generate
<1>2. CASE Stops(w) /\ UNCHANGED counted
  BY <1>1, <1>2, StoppingMoves DEF Generate, SequenceInv, SequenceTypeOK
<1>3. CASE worker' = [worker EXCEPT ![w] = k] /\ counted' = [counted EXCEPT !.made = @ + 1]
  <2>1. i \in 1..Length /\ Len(worker[w].chain) \in Nat /\ disk[d].segments[i] = NoSegment
    BY <1>1, SequenceAssumption DEF Generate, There, WorkRecords, Chains
  <2>2. worker[w].chain \in Seq(Receipts)
    BY <1>1 DEF WorkRecords, Chains
  <2>3. Continues(disk[d].segments, i, Initialization(d, i)) /\ Initialization(d, i) \in Nat
    <3>1. CASE i = 1
      BY <3>1 DEF Initialization, Continues
    <3>2. CASE i # 1
      <4>1. i - 1 \in 1..Len(worker[w].chain) /\ i - 1 \in 1..Length
        BY <2>1, <3>2, SequenceAssumption
      <4>2. disk[d].segments[i - 1] # NoSegment
        BY <1>1, <4>1 DEF Fits, Running, Follows
      <4>3. disk[d].segments[i - 1].frames \in {0, disk[d].segments[i - 1].receipt[1]}
        BY <1>1, <4>1, <4>2 DEF SequenceInv, SegmentsHold
      <4>4. disk[d].segments[i - 1] \in Pieces
        BY <1>1, <4>1, <4>2, SegmentTyped
      <4>5. disk[d].segments[i - 1].frames \in Nat /\ disk[d].segments[i - 1].receipt[1] \in Nat
        BY <4>4 DEF Pieces, Receipts
      <4>6. Initialization(d, i) = disk[d].segments[i - 1].frames
        BY <3>2 DEF Initialization
      <4> HIDE DEF i, d
      <4>7. Continues(disk[d].segments, i, Initialization(d, i))
        BY <3>2, <4>2, <4>3, <4>6 DEF Continues
      <4>. QED
        BY <4>5, <4>6, <4>7
    <3>. QED
      BY <3>1, <3>2
  <2>4. k.draft \in Seq(Int) /\ Len(k.draft) = 2 /\ k.draft[1] \in Nat \ {0}
        /\ k.draft[2] = Initialization(d, i)
    BY <1>1, <2>3 DEF WorkRecords
  <2>5. k \in WorkRecords /\ k.at = "drawn" /\ k.disk = d /\ k.chain = worker[w].chain
    BY <1>1, <2>4 DEF WorkRecords, Places, Locking, Running
  <2>6. Fits(k, disk[k.disk])
    BY <1>1, <2>1, <2>3, <2>4, <2>5 DEF Fits, Locking, Running
  <2>7. worker[w].at \in Locking /\ UNCHANGED <<disk, granted, bundles>>
    BY <1>1 DEF Generate, Locking, Running
  <2>8. counted' \in [made: Nat, mishaps: Nat]
    BY <1>1, <1>3
  <2> HIDE DEF k, d
  <2>. QED
    BY <1>3, <2>5, <2>6, <2>7, <2>8, HolderMoves DEF d
<1>. QED
  BY <1>2, <1>3 DEF Generate

LEMMA FinishLookMoves ==
  ASSUME SequenceInv, NEW w \in SequenceWorkers, FinishLook(w)
  PROVE  SequenceInv'
<1> DEFINE k == [worker[w] EXCEPT !.at = "encode"]
<1>1. worker[w] \in WorkRecords /\ Fits(worker[w], disk[worker[w].disk]) /\ worker[w].at = "look"
      /\ Len(worker[w].chain) = Length
  BY DEF SequenceInv, SequenceTypeOK, FinishLook
<1>2. CASE Stops(w)
  BY <1>2, StoppingMoves DEF FinishLook, SequenceInv, SequenceTypeOK
<1>3. CASE worker' = [worker EXCEPT ![w] = k]
  <2>1. k \in WorkRecords /\ k.at = "encode" /\ k.disk = worker[w].disk /\ k.chain = worker[w].chain
    BY <1>1 DEF WorkRecords, Places, Locking, Running
  <2>2. Fits(k, disk[k.disk])
    BY <1>1, <2>1 DEF Fits, Locking, Running
  <2>3. worker[w].at \in Locking /\ UNCHANGED <<disk, granted, bundles, counted>>
    BY <1>1 DEF FinishLook, Locking, Running
  <2> HIDE DEF k
  <2>. QED
    BY <1>3, <2>1, <2>2, <2>3, HolderMoves DEF SequenceInv, SequenceTypeOK
<1>. QED
  BY <1>2, <1>3 DEF FinishLook, Moves

LEMMA EncodeMoves ==
  ASSUME SequenceInv, NEW w \in SequenceWorkers, Encode(w)
  PROVE  SequenceInv'
<1> DEFINE d == worker[w].disk
           frames == [i \in 1..Length |-> disk[d].segments[i].frames]
           k == [worker[w] EXCEPT !.at = "recheck", !.draft = frames]
<1>1. worker[w] \in WorkRecords /\ d \in Disks /\ Fits(worker[w], disk[d]) /\ worker[w].at = "encode"
  BY DEF SequenceInv, SequenceTypeOK, Fits, Encode
<1>2. CASE Stops(w)
  BY <1>2, StoppingMoves DEF Encode, SequenceInv, SequenceTypeOK
<1>3. CASE worker' = [worker EXCEPT ![w] = k]
  <2>1. Len(worker[w].chain) = Length
    BY <1>1 DEF Fits, Running
  <2>2. \A i \in 1..Length : disk[d].segments[i].frames \in Int
    BY <1>1, SegmentTyped
  <2>3. frames \in Seq(Int) /\ Len(frames) = Length
    BY <2>2, SequenceAssumption
  <2>4. k \in WorkRecords /\ k.at = "recheck" /\ k.disk = d /\ k.chain = worker[w].chain /\ k.draft = frames
    BY <1>1, <2>3, ZenonT(60) DEF WorkRecords, Places, Locking, Running
  <2>5. Fits(k, disk[k.disk])
    <3>1. Follows(worker[w].chain, disk[d].segments) /\ disk[d].is = "used"
      BY <1>1 DEF Fits, Locking, Running
    <3>2. \A j \in 1..Length : k.draft[j] = disk[d].segments[j].frames
      BY <2>4
    <3> HIDE DEF k
    <3>. QED
      BY <1>1, <2>1, <2>3, <2>4, <3>1, <3>2 DEF Fits
  <2>6. worker[w].at \in Locking /\ UNCHANGED <<disk, granted, bundles, counted>>
    BY <1>1 DEF Encode, Locking, Running
  <2> HIDE DEF k, d
  <2>. QED
    BY <1>3, <2>4, <2>5, <2>6, HolderMoves DEF SequenceInv, SequenceTypeOK, d
<1>. QED
  BY <1>2, <1>3 DEF Encode

(* What was encoded is what the receipts name, when nothing is damaged now. *)
LEMMA RecheckMoves ==
  ASSUME SequenceInv, NEW w \in SequenceWorkers, Recheck(w)
  PROVE  SequenceInv'
<1> DEFINE d == worker[w].disk
           k == [worker[w] EXCEPT !.at = "replace"]
<1>1. worker[w] \in WorkRecords /\ d \in Disks /\ Fits(worker[w], disk[d]) /\ worker[w].at = "recheck"
  BY DEF SequenceInv, SequenceTypeOK, Fits, Recheck
<1>2. CASE Stops(w)
  BY <1>2, StoppingMoves DEF Recheck, SequenceInv, SequenceTypeOK
<1>3. CASE worker' = [worker EXCEPT ![w] = k] /\ Rechecked(w)
  <2>1. Len(worker[w].chain) = Length /\ worker[w].chain \in Seq(Receipts)
        /\ worker[w].draft \in Seq(Int) /\ Len(worker[w].draft) = Length
    BY <1>1 DEF Fits, Running, WorkRecords, Chains
  <2>2. \A i \in 1..Length : /\ disk[d].segments[i] # NoSegment
                             /\ disk[d].segments[i].receipt = worker[w].chain[i]
                             /\ worker[w].chain[i] \in Receipts
    BY <1>1, <2>1 DEF Fits, Running, Follows
  <2>3. \A i \in 1..Length : disk[d].segments[i].frames = worker[w].chain[i][1] /\ disk[d].segments[i].frames # 0
    BY <1>3, <2>2 DEF Rechecked, Receipts
  <2>4. \A i \in 1..Length : worker[w].draft[i] = worker[w].chain[i][1]
    BY <1>1, <2>3 DEF Fits
  <2>5. worker[w].draft = Frames(worker[w].chain)
    <3>1. DOMAIN worker[w].draft = 1..Length /\ DOMAIN worker[w].chain = 1..Length
      BY <2>1
    <3>2. worker[w].draft = [i \in 1..Length |-> worker[w].draft[i]]
      BY <2>1, <3>1
    <3>. QED
      BY <2>4, <3>1, <3>2 DEF Frames
  <2>6. Chained(worker[w].chain)
    <3> SUFFICES ASSUME NEW i \in 1..Length
                 PROVE  worker[w].chain[i][2] = IF i = 1 THEN 0 ELSE worker[w].chain[i - 1][1]
      BY <2>1 DEF Chained
    <3>1. Continues(disk[d].segments, i, worker[w].chain[i][2])
      BY <1>1, <2>2 DEF SequenceInv, SegmentsHold
    <3>2. CASE i = 1
      BY <3>1, <3>2 DEF Continues
    <3>3. CASE i # 1
      <4>1. i - 1 \in 1..Length
        BY <3>3, SequenceAssumption
      <4>. QED
        BY <2>2, <2>3, <3>1, <3>3, <4>1 DEF Continues
    <3>. QED
      BY <3>2, <3>3
  <2>7. k \in WorkRecords /\ k.at = "replace" /\ k.disk = d
        /\ k.chain = worker[w].chain /\ k.draft = worker[w].draft
    BY <1>1 DEF WorkRecords, Places, Locking, Running
  <2>8. Fits(k, disk[k.disk])
    BY <1>1, <2>1, <2>5, <2>6, <2>7 DEF Fits, Locking, Running
  <2>9. worker[w].at \in Locking /\ UNCHANGED <<disk, granted, bundles, counted>>
    BY <1>1 DEF Recheck, Locking, Running
  <2> HIDE DEF k, d
  <2>. QED
    BY <1>3, <2>7, <2>8, <2>9, HolderMoves DEF SequenceInv, SequenceTypeOK, d
<1>. QED
  BY <1>2, <1>3 DEF Recheck, Moves

LEMMA OpenExportMoves ==
  ASSUME SequenceInv, NEW w \in SequenceWorkers, NEW d \in Disks, OpenExport(w, d)
  PROVE  SequenceInv'
<1> DEFINE k == [Free EXCEPT !.by = "export", !.at = "split", !.disk = d, !.chain = ChainOf(d)]
           n == Cardinality({j \in 1..Length : There(d, j)})
<1>1. n \in Nat /\ n <= Length
  <2>1. IsFiniteSet(1..Length) /\ Cardinality(1..Length) = Length
    BY FS_Interval, SequenceAssumption
  <2>. QED
    BY <2>1, FS_Subset, FS_CardinalityType
<1>2. \A i \in 1..n : There(d, i) /\ disk[d].segments[i].receipt \in Receipts
  <2>1. DOMAIN ChainOf(d) = 1..n
    BY DEF ChainOf
  <2>2. \A i \in 1..n : There(d, i)
    BY <2>1 DEF OpenExport, PrefixHolds
  <2>3. \A i \in 1..n : disk[d].segments[i] \in Pieces
    BY <1>1, <2>2, SequenceAssumption DEF There, SequenceInv, SequenceTypeOK, Folders
  <2>. QED
    BY <2>2, <2>3 DEF Pieces
<1>3. ChainOf(d) \in Chains
  <2>1. ChainOf(d) = [i \in 1..n |-> disk[d].segments[i].receipt]
    BY DEF ChainOf
  <2>2. ChainOf(d) \in Seq(Receipts) /\ Len(ChainOf(d)) = n
    BY <1>1, <1>2, <2>1
  <2>. QED
    BY <1>1, <2>2 DEF Chains
<1>4. k \in WorkRecords /\ k.at = "split" /\ k.disk = d
  BY <1>3, FreeFits DEF WorkRecords, Places, Locking, Free
<1>5. /\ disk' \in [Disks -> Folders] /\ disk'[d].is = "used"
      /\ \A e \in Disks : /\ disk'[e].segments = disk[e].segments /\ disk'[e].movie = disk[e].movie
                          /\ disk'[e].document = disk[e].document
                          /\ disk[e].is = "used" => disk'[e].is = "used"
  BY DEF OpenExport, SequenceInv, SequenceTypeOK, Folders
<1>6. Fits(k, disk'[k.disk])
  BY <1>4, <1>5 DEF Fits, Locking, Running
<1>7. bundles' \in SUBSET [chain: Chains, whole: BOOLEAN] /\ counted' \in [made: Nat, mishaps: Nat]
      /\ granted' = granted /\ worker' = [worker EXCEPT ![w] = k]
  BY DEF SequenceInv, SequenceTypeOK, OpenExport
<1>8. \A v \in SequenceWorkers \ {w} : worker[v].at \in Locking => worker[v].disk # k.disk
  BY <1>4 DEF OpenExport, Locked, Locking, Running
<1>9. \A e \in Disks : /\ disk'[e].segments = disk[e].segments /\ disk'[e].movie = disk[e].movie
                       /\ disk'[e].document = disk[e].document
                       /\ disk[e].is = "used" => disk'[e].is = "used"
  BY <1>5
<1>10. disk' \in [Disks -> Folders] /\ k \in WorkRecords
  BY <1>4, <1>5
<1> HIDE DEF k, n
<1>. QED
  BY <1>6, <1>7, <1>8, <1>9, <1>10, CommandMoves

LEMMA SplitMoves ==
  ASSUME SequenceInv, NEW w \in SequenceWorkers, Split(w)
  PROVE  SequenceInv'
<1> DEFINE d == worker[w].disk
           frames == [i \in DOMAIN worker[w].chain |-> disk[d].segments[i].frames]
           k == [worker[w] EXCEPT !.at = "reread", !.draft = frames]
<1>1. worker[w] \in WorkRecords /\ d \in Disks /\ Fits(worker[w], disk[d]) /\ worker[w].at = "split"
  BY DEF SequenceInv, SequenceTypeOK, Fits, Split
<1>2. worker[w].chain \in Seq(Receipts) /\ Len(worker[w].chain) <= Length
  BY <1>1 DEF WorkRecords, Chains
<1>3. \A i \in 1..Length : disk[d].segments[i].frames \in Int
  BY <1>1, SegmentTyped
<1>4. frames \in Seq(Int)
  BY <1>2, <1>3, SequenceAssumption
<1>5. k \in WorkRecords /\ k.at = "reread" /\ k.disk = d
  BY <1>1, <1>4, ZenonT(60) DEF WorkRecords, Places, Locking, Running
<1>6. Fits(k, disk[k.disk])
  BY <1>1, <1>5 DEF Fits, Locking, Running
<1>7. worker[w].at \in Locking /\ worker' = [worker EXCEPT ![w] = k]
  BY <1>1 DEF Split, Locking
<1>8. disk' = disk /\ granted' = granted /\ bundles' = bundles /\ counted' \in [made: Nat, mishaps: Nat]
  BY DEF Split, SequenceInv, SequenceTypeOK
<1> HIDE DEF k, d
<1>. QED
  BY <1>5, <1>6, <1>7, <1>8, HolderMoves DEF d

LEMMA RereadMoves ==
  ASSUME SequenceInv, NEW w \in SequenceWorkers, Reread(w)
  PROVE  SequenceInv'
<1> DEFINE k == [worker[w] EXCEPT !.at = "store"]
<1>1. worker[w] \in WorkRecords /\ Fits(worker[w], disk[worker[w].disk]) /\ worker[w].at = "reread"
  BY DEF SequenceInv, SequenceTypeOK, Reread
<1>2. CASE Stops(w)
  BY <1>2, StoppingMoves DEF Reread, SequenceInv, SequenceTypeOK
<1>3. CASE worker' = [worker EXCEPT ![w] = k]
  <2>1. k \in WorkRecords /\ k.at = "store" /\ k.disk = worker[w].disk
    BY <1>1 DEF WorkRecords, Places, Locking, Running
  <2>2. Fits(k, disk[k.disk])
    BY <1>1, <2>1 DEF Fits, Locking, Running
  <2>3. worker[w].at \in Locking /\ UNCHANGED <<disk, granted, bundles, counted>>
    BY <1>1 DEF Reread, Locking, Running
  <2> HIDE DEF k
  <2>. QED
    BY <1>3, <2>1, <2>2, <2>3, HolderMoves DEF SequenceInv, SequenceTypeOK
<1>. QED
  BY <1>2, <1>3 DEF Reread, Moves

LEMMA StoreBundleMoves ==
  ASSUME SequenceInv, NEW w \in SequenceWorkers, StoreBundle(w)
  PROVE  SequenceInv'
<1>1. worker[w].chain \in Chains
  BY DEF SequenceInv, SequenceTypeOK, WorkRecords
<1>2. bundles' \in SUBSET [chain: Chains, whole: BOOLEAN]
  <2>1. [chain |-> worker[w].chain, whole |-> TRUE] \in [chain: Chains, whole: BOOLEAN]
    BY <1>1
  <2>2. bundles' = bundles \/ bundles' = bundles \cup {[chain |-> worker[w].chain, whole |-> TRUE]}
    BY DEF StoreBundle
  <2>. QED
    BY <2>1, <2>2 DEF SequenceInv, SequenceTypeOK
<1>. QED
  BY <1>2, StoppingMoves DEF StoreBundle, SequenceInv, SequenceTypeOK

LEMMA OpenRestoreMoves ==
  ASSUME SequenceInv, NEW w \in SequenceWorkers, NEW d \in Disks, OpenRestore(w, d)
  PROVE  SequenceInv'
<1>1. PICK b \in bundles :
        Chained(b.chain) /\ worker' = [worker EXCEPT ![w] = [Free EXCEPT
                    !.by = IF disk[d].is = "absent" THEN "rename" ELSE "compare",
                    !.at = "place", !.disk = d, !.chain = b.chain]]
  BY DEF OpenRestore
<1> DEFINE by == IF disk[d].is = "absent" THEN "rename" ELSE "compare"
           k == [Free EXCEPT !.by = by, !.at = "place", !.disk = d, !.chain = b.chain]
<1>2. b.chain \in Chains /\ by \in {"rename", "compare"}
  BY DEF SequenceInv, SequenceTypeOK
<1>3. k \in WorkRecords /\ k.at = "place" /\ k.disk = d /\ k.chain = b.chain
  BY <1>2, FreeFits DEF WorkRecords, Places, Free
<1>4. Fits(k, disk'[k.disk]) /\ k.at \notin Locking
  BY <1>1, <1>3 DEF Fits, Locking, Running
<1>5. worker' = [worker EXCEPT ![w] = k] /\ disk' = disk /\ granted' = granted
  BY <1>1 DEF OpenRestore
<1>6. bundles' \in SUBSET [chain: Chains, whole: BOOLEAN] /\ counted' \in [made: Nat, mishaps: Nat]
      /\ disk' \in [Disks -> Folders]
  BY DEF OpenRestore, SequenceInv, SequenceTypeOK
<1> HIDE DEF k, by
<1>. QED
  BY <1>3, <1>4, <1>5, <1>6, CommandMoves

(* Segments that come to a folder, or are damaged there, keep what was granted. *)
LEMMA IncludesKept ==
  ASSUME SequenceInv, NEW d \in Disks, NEW chain \in granted[d],
         \A j \in 1..Length : There(d, j) => There(d, j)' /\ disk'[d].segments[j].receipt = disk[d].segments[j].receipt
  PROVE  Includes(d, chain)'
<1> DEFINE before == {j \in 1..Length : There(d, j)}
           after == {j \in 1..Length : There(d, j)'}
<1>1. IsFiniteSet(after) /\ before \subseteq after
  <2>1. IsFiniteSet(1..Length) /\ after \in SUBSET (1..Length)
    BY FS_Interval, SequenceAssumption
  <2>2. IsFiniteSet(after)
    BY <2>1, FS_Subset
  <2>. QED
    BY <2>2
<1>2. Cardinality(before) <= Cardinality(after) /\ Cardinality(before) \in Nat /\ Cardinality(after) \in Nat
  BY <1>1, FS_Subset, FS_CardinalityType
<1>3. Includes(d, chain) /\ chain \in Seq(Receipts) /\ Len(chain) <= Length /\ Len(chain) \in Nat
  BY DEF SequenceInv, SequenceTypeOK, Chains
<1>4. Len(chain) <= Cardinality(after)
  <2>1. Len(chain) <= Cardinality(before)
    BY <1>3 DEF Includes
  <2> HIDE DEF before, after
  <2>. QED
    BY <1>2, <1>3, <2>1
<1>5. ASSUME NEW i \in 1..Len(chain) PROVE disk'[d].segments[i].receipt = chain[i]
  <2>1. disk[d].segments[i].receipt = chain[i] /\ chain[i] \in Receipts /\ i \in 1..Length
    BY <1>3, SequenceAssumption DEF Includes
  <2>2. There(d, i)
    BY <2>1 DEF There, NoSegment, Receipts
  <2>. QED
    BY <2>1, <2>2
<1>. QED
  BY <1>4, <1>5 DEF Includes

LEMMA DamageKeeps ==
  ASSUME SequenceInv, NEW d \in Disks, NEW i \in 1..Length, DamageFrames(d, i)
  PROVE  SequenceInv'
<1>1. disk[d].segments[i] \in Pieces /\ disk[d].segments[i] # NoSegment
  BY SegmentTyped DEF DamageFrames, There
<1> DEFINE piece == [disk[d].segments[i] EXCEPT !.frames = 0]
<1>2. piece \in Pieces /\ piece.frames = 0 /\ piece.receipt = disk[d].segments[i].receipt /\ piece # NoSegment
  BY <1>1 DEF Pieces, NoSegment
<1>3. /\ disk' \in [Disks -> Folders]
      /\ \A e \in Disks : disk'[e].is = disk[e].is /\ disk'[e].movie = disk[e].movie
                          /\ disk'[e].document = disk[e].document
      /\ \A e \in Disks \ {d} : disk'[e] = disk[e]
      /\ disk'[d].segments = [disk[d].segments EXCEPT ![i] = piece]
  BY <1>2, ZenonT(60) DEF DamageFrames, SequenceInv, SequenceTypeOK, Folders
<1>4. /\ disk'[d].segments[i] = piece
      /\ \A j \in 1..Length \ {i} : disk'[d].segments[j] = disk[d].segments[j]
  BY <1>3, ZenonT(60) DEF SequenceInv, SequenceTypeOK, Folders
<1>5. UNCHANGED <<bundles, worker, granted>> /\ counted' \in [made: Nat, mishaps: Nat]
  BY DEF DamageFrames, SequenceInv, SequenceTypeOK
<1>6. SequenceTypeOK'
  BY <1>3, <1>5 DEF SequenceInv, SequenceTypeOK
<1> HIDE DEF piece
<1>7. ASSUME NEW j \in 1..Length, NEW from, Continues(disk[d].segments, j, from)
      PROVE  Continues(disk'[d].segments, j, from)
  <2>1. CASE j = 1
    BY <1>7, <2>1 DEF Continues
  <2>2. CASE j # 1
    <3>1. j - 1 \in 1..Length
      BY <2>2, SequenceAssumption
    <3>. QED
      BY <1>2, <1>4, <1>7, <2>2, <3>1 DEF Continues
  <2>. QED
    BY <2>1, <2>2
<1>8. \A e \in Disks : SegmentsHold(disk'[e].segments)
  <2>1. SegmentsHold(disk'[d].segments)
    <3> SUFFICES ASSUME NEW j \in 1..Length, disk'[d].segments[j] # NoSegment
                 PROVE  /\ disk'[d].segments[j].frames \in {0, disk'[d].segments[j].receipt[1]}
                        /\ Continues(disk'[d].segments, j, disk'[d].segments[j].receipt[2])
      BY DEF SegmentsHold
    <3>1. disk[d].segments[j] # NoSegment /\ disk'[d].segments[j].receipt = disk[d].segments[j].receipt
          /\ disk'[d].segments[j].frames \in {0, disk[d].segments[j].frames}
      BY <1>1, <1>2, <1>4
    <3>2. disk[d].segments[j].frames \in {0, disk[d].segments[j].receipt[1]}
          /\ Continues(disk[d].segments, j, disk[d].segments[j].receipt[2])
      BY <3>1 DEF SequenceInv, SegmentsHold
    <3>. QED
      BY <1>7, <3>1, <3>2
  <2>. QED
    BY <1>3, <2>1 DEF SequenceInv
<1>9. ASSUME NEW k \in WorkRecords, Fits(k, disk[d]) PROVE Fits(k, disk'[d])
  <2>1. Len(k.chain) \in Nat /\ Len(k.chain) <= Length
    BY DEF WorkRecords, Chains
  <2>2. k.at \in Running => Follows(k.chain, disk'[d].segments)
    BY <1>2, <1>4, <1>9, <2>1, SequenceAssumption DEF Fits, Follows
  <2>3. k.at = "drawn" => /\ Len(k.chain) + 1 <= Length /\ disk'[d].segments[Len(k.chain) + 1] = NoSegment
                          /\ Continues(disk'[d].segments, Len(k.chain) + 1, k.draft[2])
    BY <1>1, <1>4, <1>7, <1>9, <2>1, SequenceAssumption DEF Fits
  <2>4. k.at = "recheck" => \A j \in 1..Length : \/ k.draft[j] = disk'[d].segments[j].frames
                                                 \/ disk'[d].segments[j].frames = 0
    BY <1>2, <1>4, <1>9 DEF Fits
  <2>. QED
    BY <1>3, <1>9, <2>2, <2>3, <2>4 DEF Fits
<1>10. ASSUME NEW v \in SequenceWorkers PROVE Fits(worker'[v], disk'[worker'[v].disk])
  <2>1. worker'[v] = worker[v] /\ worker[v] \in WorkRecords /\ Fits(worker[v], disk[worker[v].disk])
    BY <1>5 DEF SequenceInv, SequenceTypeOK
  <2>2. CASE worker[v].at = "idle"
    BY <2>1, <2>2 DEF Fits, Locking, Running
  <2>3. CASE worker[v].at # "idle"
    <3>1. worker[v].disk \in Disks
      BY <2>1, <2>3 DEF Fits
    <3>2. CASE worker[v].disk = d
      BY <1>9, <2>1, <3>2
    <3>3. CASE worker[v].disk # d
      BY <1>3, <2>1, <3>1, <3>3
    <3>. QED
      BY <3>2, <3>3
  <2>. QED
    BY <2>2, <2>3
<1>11. ASSUME NEW e \in Disks, NEW chain \in granted'[e] PROVE Includes(e, chain)'
  <2>1. \A j \in 1..Length : There(e, j) => There(e, j)' /\ disk'[e].segments[j].receipt = disk[e].segments[j].receipt
    BY <1>2, <1>3, <1>4 DEF There
  <2>. QED
    BY <1>5, <2>1, IncludesKept
<1>12. \A e \in Disks : DocumentHolds(e)'
  BY <1>3 DEF DocumentHolds, SequenceInv
<1>13. /\ \A e \in Disks : granted'[e] # {} => disk'[e].is = "used"
       /\ \A u, v \in SequenceWorkers :
            worker'[u].at \in Locking /\ worker'[v].at \in Locking /\ worker'[u].disk = worker'[v].disk => u = v
  BY <1>3, <1>5 DEF SequenceInv
<1>. QED
  BY <1>6, <1>8, <1>10, <1>11, <1>12, <1>13 DEF SequenceInv

LEMMA PublishSegmentMoves ==
  ASSUME SequenceInv, NEW w \in SequenceWorkers, PublishSegment(w)
  PROVE  SequenceInv'
<1> DEFINE d == worker[w].disk
           i == Len(worker[w].chain) + 1
           draft == worker[w].draft
           piece == Segment(draft)
           k == [worker[w] EXCEPT !.at = "look", !.chain = Append(worker[w].chain, draft), !.draft = <<>>]
<1>1. worker[w] \in WorkRecords /\ d \in Disks /\ Fits(worker[w], disk[d]) /\ worker[w].at = "drawn"
  BY DEF SequenceInv, SequenceTypeOK, Fits, PublishSegment
<1>2. worker[w].chain \in Seq(Receipts) /\ Len(worker[w].chain) \in Nat /\ i \in 1..Length
  BY <1>1, SequenceAssumption DEF WorkRecords, Chains, Fits
<1>3. disk[d].segments[i] = NoSegment /\ Continues(disk[d].segments, i, draft[2])
      /\ Follows(worker[w].chain, disk[d].segments)
  BY <1>1 DEF Fits, Running
<1>4. draft \in Receipts
  <2>1. Len(draft) = 2 /\ draft \in Seq(Int) /\ draft[1] \in Nat \ {0} /\ draft[2] \in Nat
    BY <1>1 DEF Fits, WorkRecords
  <2>2. draft = <<draft[1], draft[2]>>
    BY <2>1
  <2>. QED
    BY <2>1, <2>2 DEF Receipts
<1>5. piece \in Pieces /\ piece.frames = draft[1] /\ piece.receipt = draft /\ piece # NoSegment
  BY <1>4 DEF Segment, Pieces, Receipts, NoSegment
<1>6. /\ disk' \in [Disks -> Folders]
      /\ \A e \in Disks : disk'[e].is = disk[e].is /\ disk'[e].movie = disk[e].movie
                          /\ disk'[e].document = disk[e].document
      /\ \A e \in Disks \ {d} : disk'[e] = disk[e]
      /\ disk'[d].segments = [disk[d].segments EXCEPT ![i] = piece]
  BY <1>1, <1>2, <1>5, ZenonT(60) DEF PublishSegment, SequenceInv, SequenceTypeOK, Folders
<1>7. /\ disk'[d].segments[i] = piece
      /\ \A j \in 1..Length \ {i} : disk'[d].segments[j] = disk[d].segments[j]
  <2>1. disk[d].segments \in [1..Length -> Pieces \cup {NoSegment}] /\ i \in 1..Length
    BY <1>1, <1>2 DEF SequenceInv, SequenceTypeOK, Folders
  <2> HIDE DEF i, d, piece
  <2>. QED
    BY <1>6, <2>1
<1>8. k.chain \in Chains /\ Len(k.chain) = i
      /\ \A j \in 1..i : k.chain[j] = IF j = i THEN draft ELSE worker[w].chain[j]
  BY <1>1, <1>2, <1>4, SequenceAssumption DEF Chains, WorkRecords
<1>9. k \in WorkRecords /\ k.at = "look" /\ k.disk = d
  <2>1. <<>> \in Seq(Int)
    OBVIOUS
  <2>. QED
    BY <1>1, <1>8, <2>1 DEF WorkRecords, Places, Locking, Running
<1>10. /\ UNCHANGED <<bundles, granted, counted>>
       /\ worker'[w] = k /\ \A v \in SequenceWorkers \ {w} : worker'[v] = worker[v]
       /\ worker' \in [SequenceWorkers -> WorkRecords]
  <2>1. worker' = [worker EXCEPT ![w] = k] /\ UNCHANGED <<bundles, granted, counted>>
    BY DEF PublishSegment
  <2> HIDE DEF k
  <2>. QED
    BY <1>9, <2>1 DEF SequenceInv, SequenceTypeOK
<1>11. SequenceTypeOK'
  BY <1>6, <1>10 DEF SequenceInv, SequenceTypeOK
<1>12. Follows(k.chain, disk'[d].segments)
  <2> SUFFICES ASSUME NEW j \in 1..i
               PROVE  disk'[d].segments[j] # NoSegment /\ disk'[d].segments[j].receipt = k.chain[j]
    BY <1>8 DEF Follows
  <2>1. CASE j = i
    BY <1>5, <1>7, <1>8, <2>1
  <2>2. CASE j # i
    <3>1. j \in 1..Len(worker[w].chain) /\ j \in 1..Length \ {i}
      BY <1>2, <2>2, SequenceAssumption
    <3>2. disk[d].segments[j] # NoSegment /\ disk[d].segments[j].receipt = worker[w].chain[j]
      BY <1>3, <3>1 DEF Follows
    <3>. QED
      BY <1>7, <1>8, <2>2, <3>1, <3>2
  <2>. QED
    BY <2>1, <2>2
<1> HIDE DEF piece, k, draft
<1>13. ASSUME NEW j \in 1..Length, NEW from, Continues(disk[d].segments, j, from)
       PROVE  Continues(disk'[d].segments, j, from)
  <2>1. CASE j = 1
    BY <1>13, <2>1 DEF Continues
  <2>2. CASE j # 1
    <3>1. j - 1 \in 1..Length /\ disk[d].segments[j - 1] # NoSegment
      BY <1>13, <2>2, SequenceAssumption DEF Continues
    <3>2. disk'[d].segments[j - 1] = disk[d].segments[j - 1]
      BY <1>3, <1>7, <3>1
    <3>. QED
      BY <1>13, <2>2, <3>1, <3>2 DEF Continues
  <2>. QED
    BY <2>1, <2>2
<1>14. \A e \in Disks : SegmentsHold(disk'[e].segments)
  <2>1. ASSUME NEW j \in 1..Length, disk'[d].segments[j] # NoSegment
        PROVE  /\ disk'[d].segments[j].frames \in {0, disk'[d].segments[j].receipt[1]}
               /\ Continues(disk'[d].segments, j, disk'[d].segments[j].receipt[2])
    <3>1. CASE j = i
      <4>1. Continues(disk'[d].segments, j, draft[2])
        BY <1>2, <1>3, <1>13, <3>1
      <4>. QED
        BY <1>5, <1>7, <3>1, <4>1
    <3>2. CASE j # i
      <4>1. disk'[d].segments[j] = disk[d].segments[j]
        BY <1>7, <3>2
      <4>2. disk[d].segments[j].frames \in {0, disk[d].segments[j].receipt[1]}
            /\ Continues(disk[d].segments, j, disk[d].segments[j].receipt[2])
        BY <1>1, <2>1, <4>1 DEF SequenceInv, SegmentsHold
      <4>. QED
        BY <1>13, <4>1, <4>2, ZenonT(60)
    <3>. QED
      BY <3>1, <3>2
  <2>2. SegmentsHold(disk'[d].segments)
    BY <2>1 DEF SegmentsHold
  <2>. QED
    BY <1>6, <2>2 DEF SequenceInv
<1>15. \A v \in SequenceWorkers \ {w} : worker[v].at \in Locking => worker[v].disk # d
  BY <1>1 DEF SequenceInv, Locking, Running
<1>16. ASSUME NEW v \in SequenceWorkers PROVE Fits(worker'[v], disk'[worker'[v].disk])
  <2>1. CASE v = w
    <3>1. disk'[d].is = "used"
      BY <1>1, <1>6 DEF Fits, Locking, Running
    <3>2. Fits(k, disk'[d])
      BY <1>1, <1>9, <1>12, <3>1 DEF Fits, Locking, Running
    <3>. QED
      BY <1>9, <1>10, <2>1, <3>2
  <2>2. CASE v # w
    <3>1. worker'[v] = worker[v] /\ worker[v] \in WorkRecords /\ Fits(worker[v], disk[worker[v].disk])
      BY <1>10, <2>2 DEF SequenceInv, SequenceTypeOK
    <3>2. CASE worker[v].at \notin Locking
      BY <3>1, <3>2 DEF Fits, Locking, Running
    <3>3. CASE worker[v].at \in Locking
      <4>1. worker[v].disk \in Disks \ {d}
        BY <1>15, <2>2, <3>1, <3>3 DEF Fits, Locking, Running
      <4>. QED
        BY <1>6, <3>1, <4>1
    <3>. QED
      BY <3>2, <3>3
  <2>. QED
    BY <2>1, <2>2
<1>17. ASSUME NEW e \in Disks, NEW chain \in granted'[e] PROVE Includes(e, chain)'
  <2>1. \A j \in 1..Length : There(e, j) => There(e, j)' /\ disk'[e].segments[j].receipt = disk[e].segments[j].receipt
    BY <1>3, <1>6, <1>7 DEF There
  <2>. QED
    BY <1>10, <2>1, IncludesKept
<1>18. \A e \in Disks : DocumentHolds(e)'
  BY <1>6 DEF DocumentHolds, SequenceInv
<1>19. /\ \A e \in Disks : granted'[e] # {} => disk'[e].is = "used"
       /\ \A u, v \in SequenceWorkers :
            worker'[u].at \in Locking /\ worker'[v].at \in Locking /\ worker'[u].disk = worker'[v].disk => u = v
  BY <1>6, <1>9, <1>10, <1>15 DEF SequenceInv
<1>. QED
  BY <1>11, <1>14, <1>16, <1>17, <1>18, <1>19 DEF SequenceInv

(* The command that holds the lock of a folder changes its film and document. *)
LEMMA FilmMoves ==
  ASSUME SequenceInv, NEW w \in SequenceWorkers, NEW d \in Disks, NEW k \in WorkRecords,
         worker[w].at \in Locking, worker[w].disk = d, k.disk = d \/ k = Free,
         worker' = [worker EXCEPT ![w] = k], UNCHANGED <<bundles, granted, counted>>,
         disk' \in [Disks -> Folders], \A e \in Disks \ {d} : disk'[e] = disk[e],
         disk'[d].segments = disk[d].segments, disk'[d].is = disk[d].is,
         Fits(k, disk'[k.disk]), DocumentHolds(d)'
  PROVE  SequenceInv'
<1>1. worker'[w] = k /\ \A v \in SequenceWorkers \ {w} : worker'[v] = worker[v]
  BY DEF SequenceInv, SequenceTypeOK
<1>2. SequenceTypeOK'
  BY DEF SequenceInv, SequenceTypeOK
<1>3. \A v \in SequenceWorkers \ {w} : worker[v].at \in Locking => worker[v].disk # d
  BY DEF SequenceInv
<1>4. ASSUME NEW v \in SequenceWorkers PROVE Fits(worker'[v], disk'[worker'[v].disk])
  <2>1. CASE v = w
    BY <1>1, <2>1
  <2>2. CASE v # w
    <3>1. worker'[v] = worker[v] /\ worker[v] \in WorkRecords /\ Fits(worker[v], disk[worker[v].disk])
      BY <1>1, <2>2 DEF SequenceInv, SequenceTypeOK
    <3>2. CASE worker[v].at \notin Locking
      BY <3>1, <3>2 DEF Fits, Locking, Running
    <3>3. CASE worker[v].at \in Locking
      <4>1. worker[v].disk \in Disks \ {d}
        BY <1>3, <2>2, <3>1, <3>3 DEF Fits, Locking, Running
      <4>. QED
        BY <3>1, <4>1
    <3>. QED
      BY <3>2, <3>3
  <2>. QED
    BY <2>1, <2>2
<1>5. \A e \in Disks : SegmentsHold(disk'[e].segments)
  BY DEF SequenceInv
<1>6. ASSUME NEW e \in Disks, NEW chain \in granted'[e] PROVE Includes(e, chain)'
  <2>1. \A j \in 1..Length : There(e, j) => There(e, j)' /\ disk'[e].segments[j].receipt = disk[e].segments[j].receipt
    BY DEF There
  <2>. QED
    BY <2>1, IncludesKept
<1>7. \A e \in Disks \ {d} : DocumentHolds(e)'
  BY DEF DocumentHolds, SequenceInv
<1>8. \A e \in Disks : granted'[e] # {} => disk'[e].is = "used"
  BY DEF SequenceInv
<1>9. k = Free => k.at \notin Locking
  BY FreeFits DEF Locking, Running
<1>10. \A u, v \in SequenceWorkers :
         worker'[u].at \in Locking /\ worker'[v].at \in Locking /\ worker'[u].disk = worker'[v].disk => u = v
  BY <1>1, <1>3, <1>9 DEF SequenceInv
<1>. QED
  BY <1>2, <1>4, <1>5, <1>6, <1>7, <1>8, <1>10 DEF SequenceInv

LEMMA ReplaceMovieMoves ==
  ASSUME SequenceInv, NEW w \in SequenceWorkers, ReplaceMovie(w)
  PROVE  SequenceInv'
<1> DEFINE k == [worker[w] EXCEPT !.at = "attest"]
<1>0. PICK d \in Disks : d = worker[w].disk
  BY DEF SequenceInv, Fits, ReplaceMovie
<1>1. worker[w] \in WorkRecords /\ d = worker[w].disk /\ Fits(worker[w], disk[d]) /\ worker[w].at = "replace"
  BY <1>0 DEF SequenceInv, SequenceTypeOK, ReplaceMovie
<1>2. /\ k \in WorkRecords /\ k.at = "attest" /\ k.disk = d
      /\ k.chain = worker[w].chain /\ k.draft = worker[w].draft
  BY <1>1 DEF WorkRecords, Places, Locking, Running
<1>3. /\ disk' \in [Disks -> Folders] /\ \A e \in Disks \ {d} : disk'[e] = disk[e]
      /\ disk'[d].segments = disk[d].segments /\ disk'[d].is = disk[d].is
      /\ disk'[d].document = disk[d].document /\ disk'[d].movie = worker[w].draft
  BY <1>1, ZenonT(60) DEF ReplaceMovie, SequenceInv, SequenceTypeOK, Folders, WorkRecords
<1>4. Fits(k, disk'[k.disk])
  BY <1>1, <1>2, <1>3 DEF Fits, Locking, Running
<1>5. DocumentHolds(d)'
  BY <1>1, <1>3 DEF DocumentHolds, SequenceInv
<1>6. worker[w].at \in Locking /\ worker' = [worker EXCEPT ![w] = k] /\ UNCHANGED <<bundles, granted, counted>>
  BY <1>1 DEF ReplaceMovie, Moves, Locking, Running
<1> HIDE DEF k
<1>. QED
  BY <1>1, <1>2, <1>3, <1>4, <1>5, <1>6, FilmMoves

LEMMA WriteDocumentMoves ==
  ASSUME SequenceInv, NEW w \in SequenceWorkers, WriteDocument(w)
  PROVE  SequenceInv'
<1>0. PICK d \in Disks : d = worker[w].disk
  BY DEF SequenceInv, Fits, WriteDocument
<1> DEFINE attested == [chain |-> worker[w].chain, output |-> disk[d].movie]
<1>1. worker[w] \in WorkRecords /\ d = worker[w].disk /\ Fits(worker[w], disk[d]) /\ worker[w].at = "attest"
  BY <1>0 DEF SequenceInv, SequenceTypeOK, WriteDocument
<1>2. attested \in Documents /\ attested.chain = worker[w].chain /\ attested.output = disk[d].movie
  BY <1>1 DEF SequenceInv, SequenceTypeOK, Folders, Documents, WorkRecords
<1>3. Chained(attested.chain) /\ Len(attested.chain) = Length /\ attested.output = Frames(attested.chain)
  BY <1>1, <1>2 DEF Fits, Running
<1> HIDE DEF attested
<1>4. /\ disk' \in [Disks -> Folders] /\ \A e \in Disks \ {d} : disk'[e] = disk[e]
      /\ disk'[d].segments = disk[d].segments /\ disk'[d].is = disk[d].is
      /\ disk'[d].document = attested
  BY <1>1, <1>2, ZenonT(60) DEF WriteDocument, SequenceInv, SequenceTypeOK, Folders, attested
<1>5. DocumentHolds(d)'
  BY <1>1, <1>3, <1>4 DEF DocumentHolds
<1>6. worker[w].at \in Locking /\ worker' = [worker EXCEPT ![w] = Free] /\ UNCHANGED <<bundles, granted, counted>>
  BY <1>1 DEF WriteDocument, Stops, Locking, Running
<1>. QED
  BY <1>1, <1>4, <1>5, <1>6, FreeFits, FilmMoves

LEMMA CompareMoves ==
  ASSUME SequenceInv, NEW w \in SequenceWorkers, Compare(w)
  PROVE  SequenceInv'
<1>0. worker[w] \in WorkRecords /\ Fits(worker[w], disk[worker[w].disk]) /\ worker[w].at = "place"
  BY DEF SequenceInv, SequenceTypeOK, Compare
<1>1. PICK d \in Disks : d = worker[w].disk
  BY <1>0 DEF Fits
<1>2. PICK chain \in Chains : chain = worker[w].chain
  BY <1>0 DEF WorkRecords
<1>3. /\ disk' \in [Disks -> Folders] /\ disk'[d].is = "used"
      /\ \A e \in Disks : /\ disk'[e].segments = disk[e].segments /\ disk'[e].movie = disk[e].movie
                          /\ disk'[e].document = disk[e].document
                          /\ disk[e].is = "used" => disk'[e].is = "used"
  <2>1. disk' = [disk EXCEPT ![d].is = "used"] /\ disk \in [Disks -> Folders]
    BY <1>1 DEF Compare, SequenceInv, SequenceTypeOK
  <2>2. \A e \in Disks \ {d} : disk'[e] = disk[e]
    BY <2>1
  <2>3. disk'[d] = [disk[d] EXCEPT !.is = "used"] /\ disk[d] \in Folders
    BY <2>1
  <2>4. /\ disk'[d] \in Folders /\ disk'[d].is = "used" /\ disk'[d].segments = disk[d].segments
        /\ disk'[d].movie = disk[d].movie /\ disk'[d].document = disk[d].document
    BY <2>3 DEF Folders
  <2>5. disk' \in [Disks -> Folders]
    BY <2>1, <2>2, <2>4
  <2>. QED
    BY <2>2, <2>4, <2>5
<1>4. worker'[w] = Free /\ \A v \in SequenceWorkers \ {w} : worker'[v] = worker[v]
  BY DEF Compare, Stops, SequenceInv, SequenceTypeOK
<1>5. granted' = granted \/
      /\ granted' = [granted EXCEPT ![d] = @ \cup {chain}]
      /\ IsPrefix(chain, ChainOf(d))
  BY <1>1, <1>2 DEF Compare, Begins
<1>6. SequenceTypeOK'
  <2>1. worker' \in [SequenceWorkers -> WorkRecords]
    BY FreeFits DEF Compare, Stops, SequenceInv, SequenceTypeOK
  <2>2. granted' \in [Disks -> SUBSET Chains]
    BY <1>5 DEF SequenceInv, SequenceTypeOK
  <2>. QED
    BY <1>3, <2>1, <2>2 DEF Compare, SequenceInv, SequenceTypeOK
<1>7. ASSUME NEW v \in SequenceWorkers PROVE Fits(worker'[v], disk'[worker'[v].disk])
  <2>1. CASE v = w
    BY <1>4, <2>1, FreeFits
  <2>2. CASE v # w
    <3>1. worker'[v] = worker[v] /\ Fits(worker[v], disk[worker[v].disk]) /\ worker[v] \in WorkRecords
      BY <1>4, <2>2 DEF SequenceInv, SequenceTypeOK
    <3>2. CASE worker[v].at = "idle"
      BY <3>1, <3>2 DEF Fits, Locking, Running
    <3>3. CASE worker[v].at # "idle"
      <4>1. worker[v].disk \in Disks
        BY <3>1, <3>3 DEF Fits
      <4>. QED
        BY <1>3, <3>1, <4>1 DEF Fits
    <3>. QED
      BY <3>2, <3>3
  <2>. QED
    BY <2>1, <2>2
<1>8. \A e \in Disks : SegmentsHold(disk'[e].segments)
  BY <1>3 DEF SequenceInv
<1>9. \A e \in Disks : granted'[e] # {} => disk'[e].is = "used"
  BY <1>3, <1>5 DEF SequenceInv, SequenceTypeOK
<1>10. \A e \in Disks, j \in 1..Length : There(e, j)' = There(e, j)
  BY <1>3 DEF There
<1>11. ASSUME NEW e \in Disks, NEW c \in granted'[e] PROVE Includes(e, c)'
  <2>1. CASE c \in granted[e]
    BY <1>3, <1>10, <2>1, IncludesKept
  <2>2. CASE c \notin granted[e]
    <3>1. e = d /\ c = chain /\ IsPrefix(chain, ChainOf(d))
      BY <1>5, <2>2 DEF SequenceInv, SequenceTypeOK
    <3> DEFINE n == Cardinality({j \in 1..Length : There(d, j)})
    <3>2. n \in Nat
      <4>1. IsFiniteSet(1..Length) /\ {j \in 1..Length : There(d, j)} \in SUBSET (1..Length)
        BY FS_Interval, SequenceAssumption
      <4>. QED
        BY <4>1, FS_Subset, FS_CardinalityType
    <3>3. ChainOf(d) = [i \in 1..n |-> disk[d].segments[i].receipt]
      BY DEF ChainOf
    <3> HIDE DEF n
    <3>4. Len(ChainOf(d)) = n /\ ChainOf(d) \in Seq({disk[d].segments[i].receipt : i \in 1..n})
      BY <3>2, <3>3
    <3>5. Len(chain) \in Nat /\ chain \in Seq(Receipts) /\ Len(chain) <= n
      BY <3>1, <3>4 DEF Chains, IsPrefix
    <3>6. \A i \in 1..Len(chain) : chain[i] = disk[d].segments[i].receipt
      <4>1. SubSeq(chain, 1, Len(chain)) = SubSeq(ChainOf(d), 1, Len(chain))
        BY <3>1 DEF IsPrefix
      <4>2. \A i \in 1..Len(chain) : SubSeq(chain, 1, Len(chain))[i] = chain[i]
        BY <3>5
      <4>3. \A i \in 1..Len(chain) : SubSeq(ChainOf(d), 1, Len(chain))[i] = ChainOf(d)[i]
        BY <3>2, <3>4, <3>5
      <4>4. \A i \in 1..Len(chain) : i \in 1..n
        BY <3>2, <3>5
      <4>5. \A i \in 1..Len(chain) : ChainOf(d)[i] = disk[d].segments[i].receipt
        BY <3>3, <4>4
      <4>. QED
        BY <4>1, <4>2, <4>3, <4>5
    <3>7. {j \in 1..Length : There(d, j)'} = {j \in 1..Length : There(d, j)}
      BY <1>10
    <3>. QED
      BY <1>3, <3>1, <3>5, <3>6, <3>7 DEF Includes, n
  <2>. QED
    BY <2>1, <2>2
<1>12. \A e \in Disks : DocumentHolds(e)'
  BY <1>3 DEF DocumentHolds, SequenceInv
<1>13. \A u, v \in SequenceWorkers :
         worker'[u].at \in Locking /\ worker'[v].at \in Locking /\ worker'[u].disk = worker'[v].disk => u = v
  BY <1>4, FreeFits DEF SequenceInv, Locking, Running
<1>. QED
  BY <1>6, <1>7, <1>8, <1>9, <1>11, <1>12, <1>13 DEF SequenceInv

LEMMA RenameMoves ==
  ASSUME SequenceInv, NEW w \in SequenceWorkers, Rename(w)
  PROVE  SequenceInv'
<1>0. worker[w] \in WorkRecords /\ Fits(worker[w], disk[worker[w].disk]) /\ worker[w].at = "place"
  BY DEF SequenceInv, SequenceTypeOK, Rename
<1>1. PICK d \in Disks : d = worker[w].disk
  BY <1>0 DEF Fits
<1>2. PICK chain \in Chains : chain = worker[w].chain
  BY <1>0 DEF WorkRecords
<1>3. CASE disk[d].is = "used"
  <2>1. UNCHANGED <<disk, granted, bundles, counted>>
    BY <1>1, <1>3 DEF Rename
  <2>. QED
    BY <2>1, StoppingMoves DEF Rename, SequenceInv, SequenceTypeOK
<1>4. CASE disk[d].is # "used"
  <2> DEFINE place == Folder("used", chain)
  <2>1. /\ disk' = [disk EXCEPT ![d] = place]
        /\ granted' = [granted EXCEPT ![d] = @ \cup {chain}]
        /\ worker' = [worker EXCEPT ![w] = Free] /\ UNCHANGED <<bundles, counted>>
    BY <1>1, <1>2, <1>4 DEF Rename, Stops
  <2>2. /\ chain \in Seq(Receipts) /\ Len(chain) \in Nat /\ Len(chain) <= Length
        /\ Chained(chain)
    BY <1>0, <1>2 DEF Chains, Fits
  <2>3. \A i \in 1..Len(chain) : Segment(chain[i]) \in Pieces /\ Segment(chain[i]) # NoSegment
    BY <2>2 DEF Segment, Pieces, Receipts, NoSegment
  <2>4. /\ place.is = "used" /\ place.movie = <<>> /\ place.document = NoDocument
        /\ place.segments = [i \in 1..Length |-> IF i <= Len(chain) THEN Segment(chain[i]) ELSE NoSegment]
        /\ DOMAIN place = {"is", "movie", "document", "segments"}
        /\ place = [is |-> place.is, movie |-> place.movie, document |-> place.document, segments |-> place.segments]
    BY DEF Folder
  <2>5. place.segments \in [1..Length -> Pieces \cup {NoSegment}]
    <3>1. \A i \in 1..Length : i <= Len(chain) => Segment(chain[i]) \in Pieces
      BY <2>2, <2>3
    <3>. QED
      BY <2>4, <3>1
  <2>6. NoDocument \in Documents /\ place.movie \in Seq(Int)
    BY <2>4, NoneTyped
  <2> HIDE DEF place
  <2>7. place \in Folders
    BY <2>4, <2>5, <2>6 DEF Folders
  <2>8. /\ disk' \in [Disks -> Folders] /\ disk'[d] = place
        /\ \A e \in Disks \ {d} : disk'[e] = disk[e]
    BY <2>1, <2>7 DEF SequenceInv, SequenceTypeOK
  <2>9. granted[d] = {} /\ granted'[d] = {chain} /\ \A e \in Disks \ {d} : granted'[e] = granted[e]
    BY <1>4, <2>1 DEF SequenceInv, SequenceTypeOK
  <2>10. worker'[w] = Free /\ \A v \in SequenceWorkers \ {w} : worker'[v] = worker[v]
    BY <2>1 DEF SequenceInv, SequenceTypeOK
  <2>11. SequenceTypeOK'
    <3>1. worker' \in [SequenceWorkers -> WorkRecords]
      BY <2>1, FreeFits DEF SequenceInv, SequenceTypeOK
    <3>2. granted' \in [Disks -> SUBSET Chains]
      BY <2>1 DEF SequenceInv, SequenceTypeOK
    <3>. QED
      BY <2>1, <2>8, <3>1, <3>2 DEF SequenceInv, SequenceTypeOK
  <2>12. ASSUME NEW v \in SequenceWorkers PROVE Fits(worker'[v], disk'[worker'[v].disk])
    <3>1. CASE v = w
      BY <2>10, <3>1, FreeFits
    <3>2. CASE v # w
      <4>1. worker'[v] = worker[v] /\ Fits(worker[v], disk[worker[v].disk]) /\ worker[v] \in WorkRecords
        BY <2>10, <3>2 DEF SequenceInv, SequenceTypeOK
      <4>2. CASE worker[v].at \notin Locking
        BY <4>1, <4>2 DEF Fits, Locking, Running
      <4>3. CASE worker[v].at \in Locking
        <5>1. worker[v].disk \in Disks /\ disk[worker[v].disk].is = "used"
          BY <4>1, <4>3 DEF Fits, Locking, Running
        <5>. QED
          BY <1>4, <2>8, <4>1, <5>1
      <4>. QED
        BY <4>2, <4>3
    <3>. QED
      BY <3>1, <3>2
  <2>13. \A i \in 1..Length : place.segments[i] = IF i <= Len(chain) THEN Segment(chain[i]) ELSE NoSegment
    BY <2>4
  <2>14. ASSUME NEW i \in 1..Length, place.segments[i] # NoSegment
         PROVE  /\ place.segments[i].frames \in {0, place.segments[i].receipt[1]}
                /\ Continues(place.segments, i, place.segments[i].receipt[2])
    <3>1. i \in 1..Len(chain) /\ place.segments[i] = Segment(chain[i])
      BY <2>2, <2>13, <2>14, SequenceAssumption
    <3>2. place.segments[i].frames = chain[i][1] /\ place.segments[i].receipt = chain[i]
      BY <3>1 DEF Segment
    <3>3. chain[i][2] = IF i = 1 THEN 0 ELSE chain[i - 1][1]
      BY <2>2, <3>1 DEF Chained
    <3>4. CASE i = 1
      BY <3>2, <3>3, <3>4 DEF Continues
    <3>5. CASE i # 1
      <4>1. i - 1 \in 1..Len(chain) /\ i - 1 \in 1..Length
        BY <2>2, <3>1, <3>5, SequenceAssumption
      <4>2. place.segments[i - 1] = Segment(chain[i - 1]) /\ place.segments[i - 1] # NoSegment
        BY <2>2, <2>3, <2>13, <4>1
      <4>3. place.segments[i - 1].receipt[1] = chain[i - 1][1]
        BY <4>2 DEF Segment
      <4>. QED
        BY <3>2, <3>3, <3>5, <4>2, <4>3 DEF Continues
    <3>. QED
      BY <3>4, <3>5
  <2>15. \A e \in Disks : SegmentsHold(disk'[e].segments)
    <3>1. SegmentsHold(disk'[d].segments)
      BY <2>8, <2>14 DEF SegmentsHold
    <3>. QED
      BY <2>8, <3>1 DEF SequenceInv
  <2>16. \A e \in Disks : granted'[e] # {} => disk'[e].is = "used"
    BY <2>4, <2>8, <2>9 DEF SequenceInv
  <2>17. ASSUME NEW e \in Disks, NEW c \in granted'[e] PROVE Includes(e, c)'
    <3>1. CASE e = d
      <4>1. c = chain
        BY <2>9, <3>1
      <4> DEFINE present == {j \in 1..Length : There(d, j)'}
      <4>2. present = 1..Len(chain)
        <5>1. \A j \in 1..Length : There(d, j)' <=> j <= Len(chain)
          BY <2>2, <2>3, <2>8, <2>13, SequenceAssumption DEF There
        <5>. QED
          BY <2>2, <5>1, SequenceAssumption
      <4>3. Cardinality(1..Len(chain)) = Len(chain)
        BY <2>2, FS_Interval
      <4>4. \A i \in 1..Len(chain) : i \in 1..Length /\ i <= Len(chain)
        BY <2>2, SequenceAssumption
      <4>5. \A i \in 1..Len(chain) : disk'[d].segments[i] = Segment(chain[i])
        BY <2>8, <2>13, <4>4
      <4>6. \A i \in 1..Len(chain) : disk'[d].segments[i].receipt = chain[i]
        <5>1. \A i \in 1..Len(chain) : Segment(chain[i]).receipt = chain[i]
          BY DEF Segment
        <5>. QED
          BY <4>5, <5>1
      <4>7. Len(chain) <= Cardinality(present)
        <5> HIDE DEF present
        <5>. QED
          BY <2>2, <4>2, <4>3
      <4>8. Includes(d, chain)'
        BY <4>6, <4>7 DEF Includes
      <4>. QED
        BY <3>1, <4>1, <4>8
    <3>2. CASE e # d
      <4>1. c \in granted[e] /\ disk'[e] = disk[e]
        BY <2>8, <2>9, <3>2
      <4>2. \A j \in 1..Length : There(e, j) => There(e, j)' /\ disk'[e].segments[j].receipt = disk[e].segments[j].receipt
        BY <4>1 DEF There
      <4>. QED
        BY <4>1, <4>2, IncludesKept
    <3>. QED
      BY <3>1, <3>2
  <2>18. \A e \in Disks : DocumentHolds(e)'
    BY <2>4, <2>8 DEF DocumentHolds, SequenceInv
  <2>19. \A u, v \in SequenceWorkers :
           worker'[u].at \in Locking /\ worker'[v].at \in Locking /\ worker'[u].disk = worker'[v].disk => u = v
    BY <2>10, FreeFits DEF SequenceInv, Locking, Running
  <2>. QED
    BY <2>11, <2>12, <2>15, <2>16, <2>17, <2>18, <2>19 DEF SequenceInv
<1>. QED
  BY <1>3, <1>4

LEMMA SequenceStep == SequenceInv /\ [SequenceNext]_sequenceVars => SequenceInv'
<1> SUFFICES ASSUME SequenceInv, [SequenceNext]_sequenceVars PROVE SequenceInv'
  OBVIOUS
<1>1. ASSUME NEW w \in SequenceWorkers, NEW d \in Disks, OpenRun(w, d) \/ OpenExport(w, d) \/ OpenRestore(w, d)
      PROVE  SequenceInv'
  BY <1>1, OpenRunMoves, OpenExportMoves, OpenRestoreMoves
<1>2. ASSUME NEW w \in SequenceWorkers,
             LockRun(w) \/ TakeSegment(w) \/ Generate(w) \/ PublishSegment(w) \/ FinishLook(w)
      PROVE  SequenceInv'
  BY <1>2, LockRunMoves, TakeSegmentMoves, GenerateMoves, PublishSegmentMoves, FinishLookMoves
<1>3. ASSUME NEW w \in SequenceWorkers, Encode(w) \/ Recheck(w) \/ ReplaceMovie(w) \/ WriteDocument(w)
      PROVE  SequenceInv'
  BY <1>3, EncodeMoves, RecheckMoves, ReplaceMovieMoves, WriteDocumentMoves
<1>4. ASSUME NEW w \in SequenceWorkers,
             Split(w) \/ Reread(w) \/ StoreBundle(w) \/ Compare(w) \/ Rename(w)
      PROVE  SequenceInv'
  BY <1>4, SplitMoves, RereadMoves, StoreBundleMoves, CompareMoves, RenameMoves
<1>5. ASSUME NEW w \in SequenceWorkers, WorkerDies(w) PROVE SequenceInv'
  BY <1>5, StoppingMoves DEF WorkerDies, SequenceInv, SequenceTypeOK
<1>6. ASSUME NEW d \in Disks, NEW i \in 1..Length, DamageFrames(d, i) PROVE SequenceInv'
  BY <1>6, DamageKeeps
<1>7. ASSUME bundles' \in SUBSET [chain: Chains, whole: BOOLEAN], UNCHANGED <<disk, worker, granted>>,
             counted' \in [made: Nat, mishaps: Nat]
      PROVE  SequenceInv'
  <2>1. SequenceTypeOK'
    BY <1>7 DEF SequenceInv, SequenceTypeOK
  <2>2. ASSUME NEW d \in Disks, NEW chain \in granted'[d] PROVE Includes(d, chain)'
    <3>1. \A j \in 1..Length : There(d, j) => There(d, j)' /\ disk'[d].segments[j].receipt = disk[d].segments[j].receipt
      BY <1>7 DEF There
    <3>. QED
      BY <1>7, <3>1, IncludesKept
  <2>3. \A d \in Disks : DocumentHolds(d)'
    BY <1>7 DEF SequenceInv, DocumentHolds
  <2>. QED
    BY <1>7, <2>1, <2>2, <2>3 DEF SequenceInv
<1>8. ASSUME NEW b \in bundles, DamageBundle(b) PROVE SequenceInv'
  <2>1. [b EXCEPT !.whole = FALSE] \in [chain: Chains, whole: BOOLEAN]
    BY DEF SequenceInv, SequenceTypeOK
  <2>2. bundles' \in SUBSET [chain: Chains, whole: BOOLEAN]
    BY <1>8, <2>1 DEF DamageBundle, SequenceInv, SequenceTypeOK
  <2>. QED
    BY <1>7, <1>8, <2>2 DEF DamageBundle, SequenceInv, SequenceTypeOK
<1>9. CASE UNCHANGED sequenceVars
  BY <1>7, <1>9 DEF sequenceVars, SequenceInv, SequenceTypeOK
<1>. QED
  BY <1>1, <1>2, <1>3, <1>4, <1>5, <1>6, <1>8, <1>9 DEF SequenceNext

LEMMA SequenceInitHolds == SequenceInit => SequenceInv
<1> SUFFICES ASSUME SequenceInit PROVE SequenceInv
  OBVIOUS
<1> DEFINE place == Folder("absent", <<>>)
<1>1. place.is = "absent" /\ place.movie = <<>> /\ place.document = NoDocument
      /\ place.segments = [i \in 1..Length |-> NoSegment]
      /\ place = [is |-> place.is, movie |-> place.movie, document |-> place.document, segments |-> place.segments]
  <2>1. \A i \in 1..Length : ~(i <= Len(<<>>))
    BY SequenceAssumption
  <2>. QED
    BY <2>1 DEF Folder
<1>2. NoDocument \in Documents /\ place.movie \in Seq(Int)
  BY <1>1, NoneTyped
<1> HIDE DEF place
<1>3. place \in Folders
  BY <1>1, <1>2 DEF Folders
<1>4. disk = [d \in Disks |-> place]
  BY DEF SequenceInit, place
<1>5. SequenceTypeOK
  BY <1>3, <1>4, FreeFits DEF SequenceInit, SequenceTypeOK
<1>6. \A d \in Disks : SegmentsHold(disk[d].segments) /\ DocumentHolds(d)
  BY <1>1, <1>4 DEF SegmentsHold, DocumentHolds
<1>. QED
  BY <1>5, <1>6, FreeFits DEF SequenceInv, SequenceInit, Locking, Running

(* FilmIsOneChain follows from the invariant. *)
LEMMA FilmFollows == SequenceInv => FilmIsOneChain
<1> SUFFICES ASSUME SequenceInv, NEW d \in Disks, NEW chain \in granted[d]
             PROVE  IsPrefix(chain, ChainOf(d))
  BY DEF SequenceInv, DocumentHolds, FilmIsOneChain
<1> DEFINE n == Cardinality({j \in 1..Length : There(d, j)})
<1>1. n \in Nat
  <2>1. IsFiniteSet(1..Length) /\ {j \in 1..Length : There(d, j)} \in SUBSET (1..Length)
    BY FS_Interval, SequenceAssumption
  <2>. QED
    BY <2>1, FS_Subset, FS_CardinalityType
<1>2. ChainOf(d) = [i \in 1..n |-> disk[d].segments[i].receipt]
  BY DEF ChainOf
<1>3. chain \in Seq(Receipts) /\ Len(chain) \in Nat /\ Len(chain) <= n
      /\ \A i \in 1..Len(chain) : disk[d].segments[i].receipt = chain[i]
  <2>1. chain \in Chains /\ Includes(d, chain)
    BY DEF SequenceInv, SequenceTypeOK
  <2>. QED
    BY <2>1 DEF Chains, Includes
<1> HIDE DEF n
<1>4. Len(ChainOf(d)) = n /\ ChainOf(d) \in Seq({disk[d].segments[i].receipt : i \in 1..n})
  BY <1>1, <1>2
<1>5. \A i \in 1..Len(chain) : i \in 1..n /\ ChainOf(d)[i] = chain[i]
  BY <1>1, <1>2, <1>3
<1>6. SubSeq(chain, 1, Len(chain)) = SubSeq(ChainOf(d), 1, Len(chain))
  <2>1. SubSeq(chain, 1, Len(chain)) = [i \in 1..Len(chain) |-> chain[i]]
    BY <1>3
  <2>2. SubSeq(ChainOf(d), 1, Len(chain)) = [i \in 1..Len(chain) |-> ChainOf(d)[i]]
    BY <1>1, <1>3, <1>4
  <2>. QED
    BY <1>5, <2>1, <2>2
<1>. QED
  BY <1>3, <1>4, <1>6 DEF IsPrefix

(***************************************************************************)
(* A film that is attested shows one unbroken chain of generated frames,    *)
(* and what a restore reported as being on a disk stays there, on any       *)
(* number of disks, with any number of commands and whatever is damaged.    *)
(***************************************************************************)
THEOREM FilmIsChained == SequenceSpec => []FilmIsOneChain
<1>1. SequenceSpec => []SequenceInv
  BY SequenceInitHolds, SequenceStep, PTL DEF SequenceSpec
<1>. QED
  BY <1>1, FilmFollows, PTL
----------------------------------------------------------------------------
(* Films.                                                                  *)

Cuts == [sound : {"none", "dub", "own", "silence"}, length : Nat, held : Nat]
Films == [kind : {"film"}, segments : Seq(Cuts), music : BOOLEAN, titled : BOOLEAN,
          audible : BOOLEAN]

\* What conformance to a contract means, without the timeline it was made from.
Whole(film, planned, audio) ==
  /\ \A i \in DOMAIN film.segments : film.segments[i].held <= FreezeAllowed
  /\ Distance(LengthOf(film), planned) <= Tolerance
  /\ audio = "required" => film.audible

\* The prepared segments are the shots as planned, in their order.
FittedUpTo(segments, n) ==
  /\ segments \in Seq(Cuts) /\ Len(segments) = n /\ n <= Len(Clips)
  /\ \A i \in 1..n : segments[i] = Fitted(Clips[i])

IsCut(film) == film \in Films /\ FittedUpTo(film.segments, Len(Clips))

\* A film is heard through its first segment or through the music mixed in.
HeardAsMixed(film) ==
  film.audible = (film.segments[1].sound # "none" \/ timeline.music)

\* Every stage of a film is the plan's film; a verdict and a receipt that say
\* it conforms were given of a film that does, to the contract they name.
MediaInv ==
  /\ timeline \in Timelines
  /\ DOMAIN folder = {"film", "subtitles", "receipt"}
  /\ folder.film \in Films \cup {Absent}
  /\ folder.receipt.kind = "receipt" /\ folder.receipt.status = "conforms" =>
       Whole(folder.receipt.film, folder.receipt.planned, folder.receipt.audio)
  /\ cutting = "prepare" => FittedUpTo(reel, Len(reel))
  /\ cutting \in {"mix", "title", "publish"} => IsCut(stage)
  /\ cutting = "mix" => stage.audible = (stage.segments[1].sound # "none")
  /\ cutting \in {"title", "publish"} => HeardAsMixed(stage)
  /\ cutting \in {"measure", "attest"} => IsCut(folder.film) /\ HeardAsMixed(folder.film)
  /\ cutting = "attest" /\ verdict = "conforms" => Whole(folder.film, Planned, PlannedAudio)

LEMMA TimelineShots ==
  ASSUME timeline \in Timelines
  PROVE  /\ Clips \in Seq([have : Nat, want : Nat, own : BOOLEAN, dub : BOOLEAN])
         /\ Len(Clips) \in Nat \ {0}
         /\ DOMAIN Clips = 1..Len(Clips)
         /\ timeline.policy \in {"keep", "strip", "require"}
         /\ timeline.music \in BOOLEAN
BY MediaAssumption DEF Clips

\* What is prepared from a shot is a segment.
LEMMA FittedIsCut ==
  ASSUME timeline \in Timelines, NEW i \in 1..Len(Clips)
  PROVE  Fitted(Clips[i]) \in Cuts
<1>1. Clips[i] \in [have : Nat, want : Nat, own : BOOLEAN, dub : BOOLEAN]
  BY TimelineShots, ElementOfSeq
<1>2. SegmentSound(Clips[i]) \in {"none", "dub", "own", "silence"}
  BY DEF SegmentSound
<1>. QED
  BY <1>1, <1>2 DEF Fitted, Cuts

\* A verdict that a film conforms says so (media.py:611).
LEMMA ConformingIsWhole ==
  ASSUME NEW film \in Films, NEW measured \in BOOLEAN, Conformance(film, measured) = "conforms"
  PROVE  Whole(film, Planned, PlannedAudio)
<1>1. /\ AudioConforms(film) /\ Distance(LengthOf(film), Planned) <= Tolerance
      /\ \A i \in FrozenRuns(film) : film.segments[i].held <= FreezeAllowed
  BY DEF Conformance
<1>2. ASSUME NEW i \in DOMAIN film.segments
      PROVE  film.segments[i].held <= FreezeAllowed
  <2>. film.segments \in Seq(Cuts)
    BY DEF Films
  <2>. film.segments[i] \in Cuts
    BY <1>2
  <2>1. film.segments[i].held \in Nat
    BY DEF Cuts
  <2>2. CASE i \in FrozenRuns(film)
    BY <1>1, <2>2
  <2>3. CASE i \notin FrozenRuns(film)
    BY <1>2, <2>1, <2>3 DEF FrozenRuns, FreezeFound, FreezeAllowed
  <2>. QED
    BY <2>2, <2>3
<1>3. PlannedAudio = "required" => film.audible
  BY <1>1 DEF AudioConforms
<1>. QED
  BY <1>1, <1>2, <1>3 DEF Whole

\* The planner's rule about sound is met by what the assembly makes of a plan:
\* every segment is heard as its policy says unless a required sound is lacking,
\* and all have the same streams.
LEMMA CutSounds ==
  ASSUME timeline \in Timelines, NEW film, IsCut(film), HeardAsMixed(film)
  PROVE  /\ \A i \in DOMAIN Clips :
              LacksRequired(Clips[i]) \/ film.segments[i].sound \in Heard(Clips[i])
         /\ \A i, j \in DOMAIN Clips :
              film.segments[i].sound = "none" <=> film.segments[j].sound = "none"
         /\ AudioConforms(film)
<1>1. ASSUME NEW i \in DOMAIN Clips
      PROVE  film.segments[i].sound = SegmentSound(Clips[i])
  <2>1. film.segments[i] = Fitted(Clips[i])
    BY TimelineShots DEF IsCut, FittedUpTo
  <2>2. Fitted(Clips[i]).sound = SegmentSound(Clips[i])
    BY DEF Fitted
  <2>. QED
    BY <2>1, <2>2
<1>2. ASSUME NEW i \in DOMAIN Clips, ~LacksRequired(Clips[i])
      PROVE  SegmentSound(Clips[i]) \in Heard(Clips[i])
  BY <1>2, TimelineShots DEF SegmentSound, Heard, LacksRequired
<1>3. ASSUME NEW i \in DOMAIN Clips
      PROVE  SegmentSound(Clips[i]) = "none" <=>
               \/ timeline.policy = "strip"
               \/ timeline.policy = "keep" /\ ~timeline.music /\ ~AnyShotHeard
  BY TimelineShots DEF SegmentSound, ForcedSound, AnyShotHeard, AnyDub
<1>4. 1 \in DOMAIN Clips
  BY TimelineShots
<1>5. film.audible <=> \/ timeline.music
                       \/ ~ \/ timeline.policy = "strip"
                            \/ timeline.policy = "keep" /\ ~AnyShotHeard
  BY <1>1, <1>3, <1>4, TimelineShots DEF HeardAsMixed, IsCut, Films
<1>6. AudioConforms(film)
  BY <1>5, TimelineShots DEF AudioConforms, PlannedAudio, AnyShotHeard, AnyDub
<1>. QED
  BY <1>1, <1>2, <1>3, <1>6

\* What a step leaves of the plan is what the plan makes of a film.
LEMMA SameTimeline ==
  ASSUME timeline' = timeline
  PROVE  /\ \A segments, n : FittedUpTo(segments, n)' <=> FittedUpTo(segments, n)
         /\ Clips' = Clips /\ Planned' = Planned /\ PlannedAudio' = PlannedAudio
BY DEF FittedUpTo, Fitted, SegmentSound, ForcedSound, AnyShotHeard, AnyDub, Clips, Planned,
       PlannedAudio

\* The conjuncts of the invariant that a step outside the folder leaves alone.
LEMMA FolderKept ==
  ASSUME MediaInv, timeline' = timeline, folder' = folder
  PROVE  /\ timeline' \in Timelines /\ folder'.film \in Films \cup {Absent}
         /\ DOMAIN folder' = {"film", "subtitles", "receipt"}
         /\ folder'.receipt.kind = "receipt" /\ folder'.receipt.status = "conforms" =>
              Whole(folder'.receipt.film, folder'.receipt.planned, folder'.receipt.audio)
BY DEF MediaInv

LEMMA MediaKept ==
  ASSUME MediaInv, [MediaNext]_mediaVars
  PROVE  MediaInv'
<1>1. CASE StartAssembly
  <2>1. FittedUpTo(<<>>, 0)
    BY TimelineShots DEF MediaInv, FittedUpTo
  <2>2. FittedUpTo(reel', Len(reel'))
    BY <1>1, <2>1 DEF StartAssembly
  <2>3. FittedUpTo(reel, Len(reel))'
    BY <1>1, <2>2, SameTimeline DEF StartAssembly
  <2>. QED
    BY <1>1, <2>3, FolderKept DEF MediaInv, StartAssembly
<1>2. CASE PrepareSegment
  <2>. DEFINE fitted == Fitted(Clips[Len(reel) + 1])
  <2>1. FittedUpTo(reel, Len(reel)) /\ Len(reel) < Len(Clips) /\ timeline \in Timelines
    BY <1>2 DEF MediaInv, PrepareSegment
  <2>2. reel \in Seq(Cuts) /\ Len(reel) \in Nat /\ Len(reel) + 1 \in 1..Len(Clips)
    BY <2>1, TimelineShots DEF FittedUpTo
  <2>3. fitted \in Cuts
    BY <2>1, <2>2, FittedIsCut
  <2>4. reel' = Append(reel, fitted)
    BY <1>2 DEF PrepareSegment
  <2>. HIDE DEF fitted
  <2>5. /\ reel' \in Seq(Cuts) /\ Len(reel') = Len(reel) + 1
        /\ \A i \in 1..Len(reel) : reel'[i] = reel[i]
        /\ reel'[Len(reel) + 1] = fitted
    BY <2>2, <2>3, <2>4, AppendProperties
  <2>6. ASSUME NEW i \in 1..Len(reel')
        PROVE  reel'[i] = Fitted(Clips[i])
    <3>1. CASE i = Len(reel) + 1
      BY <3>1, <2>5 DEF fitted
    <3>2. CASE i # Len(reel) + 1
      BY <3>2, <2>1, <2>2, <2>5 DEF FittedUpTo
    <3>. QED
      BY <3>1, <3>2
  <2>7. FittedUpTo(reel', Len(reel'))
    BY <2>2, <2>5, <2>6, TimelineShots, <2>1 DEF FittedUpTo
  <2>8. FittedUpTo(reel, Len(reel))'
    BY <1>2, <2>7, SameTimeline DEF PrepareSegment
  <2>. QED
    BY <1>2, <2>8, FolderKept DEF MediaInv, PrepareSegment
<1>3. CASE ConcatSegments
  <2>1. FittedUpTo(reel, Len(Clips))
    BY <1>3 DEF MediaInv, ConcatSegments
  <2>2. Joined(reel) \in Films /\ Joined(reel).segments = reel
        /\ Joined(reel).audible = (reel[1].sound # "none")
    BY <2>1 DEF Joined, Films, FittedUpTo
  <2>3. stage' \in Films /\ stage'.segments = reel /\ stage'.audible = (stage'.segments[1].sound # "none")
    BY <1>3, <2>2 DEF ConcatSegments
  <2>4. IsCut(stage)'
    BY <1>3, <2>1, <2>3, SameTimeline DEF IsCut, ConcatSegments
  <2>. QED
    BY <1>3, <2>3, <2>4, FolderKept DEF MediaInv, ConcatSegments
<1>4. CASE MixAudio
  <2>1. IsCut(stage) /\ stage.audible = (stage.segments[1].sound # "none") /\ timeline \in Timelines
    BY <1>4 DEF MediaInv, MixAudio
  <2>2. stage' = Mixed(stage)
    BY <1>4 DEF MixAudio
  <2>3. stage' \in Films /\ stage'.segments = stage.segments
        /\ stage'.audible = (stage.segments[1].sound # "none" \/ timeline.music)
    BY <2>1, <2>2, TimelineShots DEF IsCut, Films, Mixed
  <2>4. IsCut(stage)' /\ HeardAsMixed(stage)'
    BY <1>4, <2>1, <2>3, SameTimeline DEF IsCut, HeardAsMixed, MixAudio
  <2>. QED
    BY <1>4, <2>4, FolderKept DEF MediaInv, MixAudio
<1>5. CASE WriteTitles
  <2>1. IsCut(stage) /\ HeardAsMixed(stage)
    BY <1>5 DEF MediaInv, WriteTitles
  <2>2. stage' \in Films /\ stage'.segments = stage.segments /\ stage'.audible = stage.audible
    BY <1>5, <2>1 DEF IsCut, Films, WriteTitles
  <2>3. IsCut(stage)' /\ HeardAsMixed(stage)'
    BY <1>5, <2>1, <2>2, SameTimeline DEF IsCut, HeardAsMixed, WriteTitles
  <2>4. folder'.film = folder.film /\ folder'.receipt = folder.receipt
        /\ DOMAIN folder' = DOMAIN folder
    BY <1>5 DEF MediaInv, WriteTitles
  <2>5. cutting' \in {"publish", "failed"} /\ timeline' = timeline
    BY <1>5 DEF WriteTitles
  <2>. QED
    BY <2>3, <2>4, <2>5 DEF MediaInv
<1>6. CASE PublishFilm
  <2>1. IsCut(stage) /\ HeardAsMixed(stage)
    BY <1>6 DEF MediaInv, PublishFilm
  <2>2. folder'.film = stage /\ folder'.receipt = folder.receipt /\ DOMAIN folder' = DOMAIN folder
    BY <1>6 DEF MediaInv, PublishFilm
  <2>3. IsCut(folder.film)' /\ HeardAsMixed(folder.film)'
    BY <1>6, <2>1, <2>2, SameTimeline DEF IsCut, HeardAsMixed, PublishFilm
  <2>4. folder'.film \in Films
    BY <2>1, <2>2 DEF IsCut
  <2>. QED
    BY <1>6, <2>2, <2>3, <2>4 DEF MediaInv, PublishFilm
<1>7. CASE MeasureFilm
  <2>1. IsCut(folder.film) /\ HeardAsMixed(folder.film)
    BY <1>7 DEF MediaInv, MeasureFilm
  <2>2. verdict' = "conforms" => Whole(folder.film, Planned, PlannedAudio)
    BY <1>7, <2>1, ConformingIsWhole DEF IsCut, MeasureFilm
  <2>3. IsCut(folder.film)' /\ HeardAsMixed(folder.film)'
    BY <1>7, <2>1, SameTimeline DEF IsCut, HeardAsMixed, MeasureFilm
  <2>4. (verdict = "conforms" => Whole(folder.film, Planned, PlannedAudio))'
    BY <1>7, <2>2, SameTimeline DEF MeasureFilm
  <2>. QED
    BY <1>7, <2>3, <2>4, FolderKept DEF MediaInv, MeasureFilm
<1>8. CASE WriteReceipt
  <2>1. verdict = "conforms" => Whole(folder.film, Planned, PlannedAudio)
    BY <1>8 DEF MediaInv, WriteReceipt
  <2>2. PICK subtitles : folder' = [folder EXCEPT !.receipt = ReceiptOf(folder.film, subtitles, verdict)]
    BY <1>8 DEF WriteReceipt
  <2>3. folder'.film = folder.film /\ DOMAIN folder' = DOMAIN folder
        /\ folder'.receipt = ReceiptOf(folder.film, subtitles, verdict)
    BY <2>2 DEF MediaInv
  <2>4. /\ folder'.receipt.status = verdict /\ folder'.receipt.film = folder.film
        /\ folder'.receipt.planned = Planned /\ folder'.receipt.audio = PlannedAudio
    BY <2>3 DEF ReceiptOf
  <2>5. cutting' \in {"completed", "failed"} /\ timeline' = timeline
    BY <1>8 DEF WriteReceipt
  <2>. QED
    BY <2>1, <2>3, <2>4, <2>5 DEF MediaInv
<1>9. CASE ToolFails
  BY <1>9, FolderKept DEF MediaInv, ToolFails
<1>10. CASE AssemblyDies
  <2>1. folder'.film = folder.film /\ DOMAIN folder' = DOMAIN folder
        /\ (folder'.receipt = folder.receipt \/ folder'.receipt = Torn)
    BY <1>10 DEF MediaInv, AssemblyDies
  <2>2. cutting' = "idle" /\ timeline' = timeline /\ Torn.kind # "receipt"
    BY <1>10 DEF AssemblyDies, Torn
  <2>. QED
    BY <2>1, <2>2 DEF MediaInv
<1>11. CASE Revise
  BY <1>11 DEF MediaInv, Revise
<1>12. CASE EditByHand
  <2>1. folder'.receipt = folder.receipt /\ DOMAIN folder' = DOMAIN folder
    BY <1>12 DEF MediaInv, EditByHand
  <2>2. folder'.film \in Films \cup {Absent}
    <3>1. CASE /\ folder.film # Absent /\ Len(folder.film.segments) > 1
               /\ folder' = [folder EXCEPT !.film.segments = Front(@)]
      <4>1. folder.film \in Films
        BY <3>1 DEF MediaInv
      <4>2. folder.film.segments \in Seq(Cuts) /\ folder.film.segments # <<>>
        BY <4>1, <3>1 DEF Films
      <4>3. Front(folder.film.segments) \in Seq(Cuts)
        BY <4>2 DEF Front
      <4>4. folder'.film = [folder.film EXCEPT !.segments = Front(folder.film.segments)]
        BY <3>1 DEF MediaInv
      <4>. QED
        BY <4>1, <4>3, <4>4 DEF Films
    <3>2. CASE folder' = [folder EXCEPT !.subtitles = Torn]
      BY <3>2 DEF MediaInv
    <3>. QED
      BY <1>12, <3>1, <3>2 DEF EditByHand
  <2>3. cutting' = cutting /\ cutting \in {"completed", "failed"} /\ timeline' = timeline
    BY <1>12 DEF EditByHand
  <2>. QED
    BY <2>1, <2>2, <2>3 DEF MediaInv
<1>13. CASE UNCHANGED mediaVars
  BY <1>13, SameTimeline, FolderKept DEF MediaInv, mediaVars, IsCut, HeardAsMixed
<1>. QED
  BY <1>1, <1>2, <1>3, <1>4, <1>5, <1>6, <1>7, <1>8, <1>9, <1>10, <1>11, <1>12, <1>13 DEF MediaNext

\* An attested film is the one that was planned, in picture and, but for shots
\* that lack a required sound, in sound, for every plan and any number of runs,
\* deaths and edits (fast_assembly.py:619, media.py:595, plan.py:511).
THEOREM FilmIsPlanned == MediaSpec => []FilmIsAsPlanned
<1>1. MediaInit => MediaInv
  BY DEF MediaInit, MediaInv, Absent
<1>2. MediaInv /\ [MediaNext]_mediaVars => MediaInv'
  BY MediaKept
<1>3. MediaInv => FilmIsAsPlanned
  <2>. SUFFICES ASSUME MediaInv PROVE FilmIsAsPlanned
    OBVIOUS
  <2>1. VerifiedFilmIsWhole
    BY DEF MediaInv, VerifiedFilmIsWhole, ReceiptVerifies, Whole
  <2>2. SoundIsAsPlanned
    BY CutSounds DEF MediaInv, SoundIsAsPlanned
  <2>. QED
    BY <2>1, <2>2 DEF FilmIsAsPlanned
<1>. QED
  BY <1>1, <1>2, <1>3, PTL DEF MediaSpec
=============================================================================
