---------------------------- MODULE FrameSequence ----------------------------
(***************************************************************************)
(* Generated frames and the disks they live on: the resumable sequence of   *)
(* segments (production/video_sequence.py), its portable checkpoints        *)
(* (production/sequence_checkpoints.py) and the chunks these are made of    *)
(* (production/artifacts.py). Every segment is generated from the last      *)
(* frames of the one before it, and a generator never makes the same frames *)
(* twice; so a film is whole only if all its segments come of one chain.    *)
(* Runs, exports and restores share the disks, may die at every point, and  *)
(* frames may be damaged between them.                                     *)
(*                                                                         *)
(* Frames of a segment are a number, the how manieth the generator has made;*)
(* 0 are frames somebody damaged.                                          *)
(***************************************************************************)
EXTENDS Integers, Sequences, FiniteSets, SequencesExt

CONSTANTS
  Disks,            \* the folders that may hold the sequence
  SequenceWorkers,  \* the commands that may go on at the same time
  Length,           \* the number of segments of the plan
  MaxFramesMade,    \* bound on the segments ever generated
  MaxMishaps        \* bound on damaged files and commands that die

ASSUME SequenceAssumption ==
  /\ Length \in Nat \ {0}
  /\ MaxFramesMade \in Nat /\ MaxMishaps \in Nat

VARIABLES
  disk,      \* disk -> the folder of the plan
  bundles,   \* exported checkpoints: their chain of receipts and whether they are whole
  worker,    \* command -> where it is
  granted,   \* disk -> the chains a restore has reported as being there
  counted    \* counts of the bounded events

sequenceVars == <<disk, bundles, worker, granted, counted>>

\* A receipt names the frames of a segment and those it was generated from.
NoSegment == [frames |-> -1, receipt |-> <<-1, -1>>]
Segment(receipt) == [frames |-> receipt[1], receipt |-> receipt]
NoDocument == [chain |-> <<>>, output |-> <<>>]
Folder(is, chain) ==
  [is |-> is, movie |-> <<>>, document |-> NoDocument,
   segments |-> [i \in 1..Length |-> IF i <= Len(chain) THEN Segment(chain[i]) ELSE NoSegment]]
Free == [by |-> "none", at |-> "idle", disk |-> "none", chain |-> <<>>, draft |-> <<>>]

There(d, i) == disk[d].segments[i] # NoSegment
Undamaged(d, i) == disk[d].segments[i].frames = disk[d].segments[i].receipt[1]
\* The frames a segment is generated from: the last ones of the segment before it.
Initialization(d, i) == IF i = 1 THEN 0 ELSE disk[d].segments[i - 1].frames
Frames(chain) == [i \in DOMAIN chain |-> chain[i][1]]
Chained(chain) ==
  \A i \in DOMAIN chain : chain[i][2] = IF i = 1 THEN 0 ELSE chain[i - 1][1]

\* _prefix: the receipts of the segments that are there, if they hold and their
\* files are as they say.
ChainOf(d) ==
  [i \in 1..Cardinality({j \in 1..Length : There(d, j)}) |-> disk[d].segments[i].receipt]
PrefixHolds(d) ==
  /\ Chained(ChainOf(d))
  /\ \A i \in DOMAIN ChainOf(d) : There(d, i) /\ Undamaged(d, i)

\* The lock of a folder, held by a run or an export, and that of restores to it.
Locked(d) == \E w \in SequenceWorkers :
               worker[w].disk = d /\ worker[w].at \in {"look", "drawn", "encode", "recheck",
                                                       "replace", "attest", "split", "reread"}
Restoring(d) == \E w \in SequenceWorkers : worker[w].disk = d /\ worker[w].at = "place"

Moves(w, at) == worker' = [worker EXCEPT ![w].at = at]
Stops(w) == worker' = [worker EXCEPT ![w] = Free]

-----------------------------------------------------------------------------
SequenceInit ==
  /\ disk = [d \in Disks |-> Folder("absent", <<>>)]
  /\ bundles = {}
  /\ worker = [w \in SequenceWorkers |-> Free]
  /\ granted = [d \in Disks |-> {}]
  /\ counted = [made |-> 0, mishaps |-> 0]

(* run_sequence. *)

\* The folder is made before its lock is taken.
OpenRun(w, d) ==
  /\ worker[w].at = "idle"
  /\ worker' = [worker EXCEPT ![w] = [Free EXCEPT !.by = "run", !.at = "lock", !.disk = d]]
  /\ disk' = [disk EXCEPT ![d].is = IF @ = "absent" THEN "empty" ELSE @]
  /\ UNCHANGED <<bundles, granted, counted>>

LockRun(w) ==
  LET d == worker[w].disk IN
    /\ worker[w].by = "run" /\ worker[w].at = "lock" /\ ~Locked(d)
    /\ disk' = [disk EXCEPT ![d].is = "used"] /\ Moves(w, "look")
    /\ UNCHANGED <<bundles, granted, counted>>

\* A segment with a receipt is verified and taken as it is; one that differs ends the run.
TakeSegment(w) ==
  LET d == worker[w].disk i == Len(worker[w].chain) + 1 IN
    /\ worker[w].at = "look" /\ i <= Length /\ There(d, i)
    /\ IF Undamaged(d, i) /\ disk[d].segments[i].receipt[2] = Initialization(d, i)
       THEN worker' = [worker EXCEPT ![w].chain = Append(@, disk[d].segments[i].receipt)]
       ELSE Stops(w)
    /\ UNCHANGED <<disk, bundles, granted, counted>>

\* A missing one is generated beside the folder, or left to a later run.
Generate(w) ==
  LET d == worker[w].disk i == Len(worker[w].chain) + 1 IN
    /\ worker[w].at = "look" /\ i <= Length /\ ~There(d, i)
    /\ \/ /\ counted.made < MaxFramesMade
          /\ counted' = [counted EXCEPT !.made = @ + 1]
          /\ worker' = [worker EXCEPT ![w].at = "drawn",
                                      ![w].draft = <<counted.made + 1, Initialization(d, i)>>]
       \/ Stops(w) /\ UNCHANGED counted
    /\ UNCHANGED <<disk, bundles, granted>>

PublishSegment(w) ==
  LET d == worker[w].disk i == Len(worker[w].chain) + 1 IN
    /\ worker[w].at = "drawn"
    /\ disk' = [disk EXCEPT ![d].segments[i] = Segment(worker[w].draft)]
    /\ worker' = [worker EXCEPT ![w].at = "look", ![w].chain = Append(@, worker[w].draft),
                                ![w].draft = <<>>]
    /\ UNCHANGED <<bundles, granted, counted>>

\* All segments are there: a finished film is compared, an unfinished one encoded.
FinishLook(w) ==
  LET d == worker[w].disk IN
    /\ worker[w].at = "look" /\ Len(worker[w].chain) = Length
    /\ IF disk[d].document = NoDocument THEN Moves(w, "encode") ELSE Stops(w)
    /\ UNCHANGED <<disk, bundles, granted, counted>>

\* The encoder reads the frames on the disk; it may fail.
Encode(w) ==
  LET d == worker[w].disk IN
    /\ worker[w].at = "encode"
    /\ \/ Stops(w)
       \/ worker' = [worker EXCEPT ![w].at = "recheck",
                       ![w].draft = [i \in 1..Length |-> disk[d].segments[i].frames]]
    /\ UNCHANGED <<disk, bundles, granted, counted>>

\* What the encoder read is compared with the receipts once more.
Unchecked(w) == TRUE
Rechecked(w) ==
  \A i \in 1..Length : disk[worker[w].disk].segments[i].frames = worker[w].chain[i][1]
Recheck(w) ==
  /\ worker[w].at = "recheck"
  /\ IF Rechecked(w) THEN Moves(w, "replace") ELSE Stops(w)
  /\ UNCHANGED <<disk, bundles, granted, counted>>

ReplaceMovie(w) ==
  /\ worker[w].at = "replace"
  /\ disk' = [disk EXCEPT ![worker[w].disk].movie = worker[w].draft]
  /\ Moves(w, "attest") /\ UNCHANGED <<bundles, granted, counted>>

WriteDocument(w) ==
  LET d == worker[w].disk IN
    /\ worker[w].at = "attest"
    /\ disk' = [disk EXCEPT ![d].document = [chain |-> worker[w].chain, output |-> disk[d].movie]]
    /\ Stops(w) /\ UNCHANGED <<bundles, granted, counted>>

(* export_checkpoint. *)

\* The prefix is read under the folder's lock.
OpenExport(w, d) ==
  /\ worker[w].at = "idle" /\ disk[d].is # "absent" /\ ~Locked(d)
  /\ PrefixHolds(d) /\ ChainOf(d) # <<>>
  /\ worker' = [worker EXCEPT ![w] = [Free EXCEPT !.by = "export", !.at = "split", !.disk = d,
                                                  !.chain = ChainOf(d)]]
  /\ disk' = [disk EXCEPT ![d].is = "used"]
  /\ UNCHANGED <<bundles, granted, counted>>

\* The files are cut into chunks, each with the digest of what was read.
Split(w) ==
  LET d == worker[w].disk IN
    /\ worker[w].at = "split"
    /\ worker' = [worker EXCEPT ![w].at = "reread",
                    ![w].draft = [i \in DOMAIN worker[w].chain |-> disk[d].segments[i].frames]]
    /\ UNCHANGED <<disk, bundles, granted, counted>>

Reread(w) ==
  LET d == worker[w].disk IN
    /\ worker[w].at = "reread"
    /\ IF PrefixHolds(d) /\ ChainOf(d) = worker[w].chain THEN Moves(w, "store") ELSE Stops(w)
    /\ UNCHANGED <<disk, bundles, granted, counted>>

\* The bundle is verified against its receipts and appears under its digest
\* at once; one that is there already is verified instead.
Stored(chain) == {b \in bundles : b.chain = chain}
StoreBundle(w) ==
  LET chain == worker[w].chain IN
    /\ worker[w].at = "store"
    /\ bundles' = IF worker[w].draft = Frames(chain) /\ Stored(chain) = {}
                  THEN bundles \cup {[chain |-> chain, whole |-> TRUE]} ELSE bundles
    /\ Stops(w) /\ UNCHANGED <<disk, granted, counted>>

(* restore_checkpoint. *)

\* Every byte of the bundle is verified and assembled beside the folder. Then
\* the restore looks, under the lock of restores, whether the folder is there.
OpenRestore(w, d) ==
  \E b \in bundles :
    /\ worker[w].at = "idle" /\ b.whole /\ Chained(b.chain) /\ ~Restoring(d)
    /\ worker' = [worker EXCEPT ![w] = [Free EXCEPT
                    !.by = IF disk[d].is = "absent" THEN "rename" ELSE "compare",
                    !.at = "place", !.disk = d, !.chain = b.chain]]
    /\ UNCHANGED <<disk, bundles, granted, counted>>

\* The folder that is there must begin with the chain of the bundle.
Begins(chain, restored) == IsPrefix(restored, chain)
Compare(w) ==
  LET d == worker[w].disk IN
    /\ worker[w].by = "compare" /\ worker[w].at = "place" /\ ~Locked(d)
    /\ disk' = [disk EXCEPT ![d].is = "used"]
    /\ granted' = IF PrefixHolds(d) /\ Begins(ChainOf(d), worker[w].chain)
                  THEN [granted EXCEPT ![d] = @ \cup {worker[w].chain}] ELSE granted
    /\ Stops(w) /\ UNCHANGED <<bundles, counted>>

\* The folder is renamed into place. One that a run has made meanwhile is
\* replaced while it is empty, and else makes the restore fail.
Rename(w) ==
  LET d == worker[w].disk IN
    /\ worker[w].by = "rename" /\ worker[w].at = "place"
    /\ IF disk[d].is = "used" THEN UNCHANGED <<disk, granted>>
       ELSE /\ disk' = [disk EXCEPT ![d] = Folder("used", worker[w].chain)]
            /\ granted' = [granted EXCEPT ![d] = @ \cup {worker[w].chain}]
    /\ Stops(w) /\ UNCHANGED <<bundles, counted>>

-----------------------------------------------------------------------------
\* A command dies; its lock is released and what it had beside the folder is lost.
WorkerDies(w) ==
  /\ worker[w].at # "idle" /\ counted.mishaps < MaxMishaps
  /\ counted' = [counted EXCEPT !.mishaps = @ + 1]
  /\ Stops(w) /\ UNCHANGED <<disk, bundles, granted>>

DamageFrames(d, i) ==
  /\ There(d, i) /\ counted.mishaps < MaxMishaps
  /\ counted' = [counted EXCEPT !.mishaps = @ + 1]
  /\ disk' = [disk EXCEPT ![d].segments[i].frames = 0]
  /\ UNCHANGED <<bundles, worker, granted>>

DamageBundle(b) ==
  /\ b.whole /\ counted.mishaps < MaxMishaps
  /\ counted' = [counted EXCEPT !.mishaps = @ + 1]
  /\ bundles' = (bundles \ {b}) \cup {[b EXCEPT !.whole = FALSE]}
  /\ UNCHANGED <<disk, worker, granted>>

SequenceNext ==
  \/ \E w \in SequenceWorkers :
       \/ \E d \in Disks : OpenRun(w, d) \/ OpenExport(w, d) \/ OpenRestore(w, d)
       \/ LockRun(w) \/ TakeSegment(w) \/ Generate(w) \/ PublishSegment(w) \/ FinishLook(w)
       \/ Encode(w) \/ Recheck(w) \/ ReplaceMovie(w) \/ WriteDocument(w)
       \/ Split(w) \/ Reread(w) \/ StoreBundle(w)
       \/ Compare(w) \/ Rename(w) \/ WorkerDies(w)
  \/ \E d \in Disks, i \in 1..Length : DamageFrames(d, i)
  \/ \E b \in bundles : DamageBundle(b)

SequenceSpec == SequenceInit /\ [][SequenceNext]_sequenceVars

-----------------------------------------------------------------------------
\* A film that is attested shows one unbroken chain of generated frames,
\* whatever was resumed, restored to another disk or damaged before: each
\* segment continues the one before it and the frames are those of the
\* receipts (video_sequence.py:150). And what a restore reported as being on a
\* disk stays the beginning of the sequence there: accepted frames are never
\* generated again (sequence_checkpoints.py:279).
FilmIsOneChain ==
  \A d \in Disks :
    /\ disk[d].document # NoDocument =>
         /\ Chained(disk[d].document.chain) /\ Len(disk[d].document.chain) = Length
         /\ disk[d].document.output = Frames(disk[d].document.chain)
    /\ \A chain \in granted[d] : IsPrefix(chain, ChainOf(d))
=============================================================================
