--------------------------- MODULE ArtifactChunks ---------------------------
(***************************************************************************)
(* A large file on its way between worker disks (production/artifacts.py):  *)
(* split into chunks named by their digest, carried over chunk by chunk and *)
(* assembled again with a checkpoint after each chunk. The three commands   *)
(* may die after every step and are run again; the file may be rewritten    *)
(* while it is split, and what lies on the disks may be damaged.            *)
(*                                                                         *)
(* Chunk i of version v of the file is <<v, i>>, its digest is itself.      *)
(***************************************************************************)
EXTENDS Integers, Sequences, FiniteSets, SequencesExt

CONSTANTS
  Chunks,           \* the number of chunks of the file
  MaxVersions,      \* bound on the versions of the file
  MaxChunkMishaps   \* bound on damaged or removed files and commands that die

ASSUME ChunkAssumption ==
  Chunks \in Nat \ {0} /\ MaxVersions \in Nat \ {0} /\ MaxChunkMishaps \in Nat

VARIABLES
  original,   \* the version of the file now
  near,       \* the chunk store beside it: digest -> bytes
  far,        \* the chunk store of the other disk
  lists,      \* the manifests at either store
  splitting,  \* the split that goes on
  carrying,   \* the transfer that goes on
  joining,    \* the assembly that goes on
  output,     \* the assembled file with its partial file and checkpoint
  spoiled     \* count of the bounded events

chunkVars == <<original, near, far, lists, splitting, carrying, joining, output, spoiled>>

Digests == (1..MaxVersions) \X (1..Chunks)
NoChunk == <<0, 0>>
Rotten == <<0, 1>>
FileOfVersion(v) == [i \in 1..Chunks |-> <<v, i>>]
NoFile == <<>>

\* A command that is not running; otherwise the manifest and the chunks done.
Resting == [list |-> <<>>, done |-> 0, on |-> FALSE]

ChunksInit ==
  /\ original = 1
  /\ near = [c \in Digests |-> NoChunk] /\ far = near
  /\ lists = [near |-> {}, far |-> {}]
  /\ splitting = [read |-> <<>>, before |-> 0]
  /\ carrying = Resting /\ joining = Resting
  /\ output = [of |-> <<>>, file |-> NoFile, partial |-> NoFile, count |-> 0]
  /\ spoiled = 0

-----------------------------------------------------------------------------
(* split_artifact.                                                         *)
BeginSplit ==
  /\ splitting.before = 0
  /\ splitting' = [read |-> <<>>, before |-> original]
  /\ UNCHANGED <<original, near, far, lists, carrying, joining, output, spoiled>>

\* The next block is read and stored; a chunk of that name must hold those bytes.
SplitChunk ==
  LET chunk == <<original, Len(splitting.read) + 1>> IN
    /\ splitting.before # 0 /\ Len(splitting.read) < Chunks
    /\ IF near[chunk] \in {NoChunk, chunk}
       THEN /\ near' = [near EXCEPT ![chunk] = chunk]
            /\ splitting' = [splitting EXCEPT !.read = Append(@, chunk)]
       ELSE near' = near /\ splitting' = [read |-> <<>>, before |-> 0]
    /\ UNCHANGED <<original, far, lists, carrying, joining, output, spoiled>>

\* What was read is the file as it was before and as it still is.
Unchanged == splitting.read = FileOfVersion(splitting.before) /\ original = splitting.before
EndSplit ==
  /\ splitting.before # 0 /\ Len(splitting.read) = Chunks
  /\ lists' = IF Unchanged THEN [lists EXCEPT !.near = @ \cup {splitting.read}] ELSE lists
  /\ splitting' = [read |-> <<>>, before |-> 0]
  /\ UNCHANGED <<original, near, far, carrying, joining, output, spoiled>>

-----------------------------------------------------------------------------
(* transfer_chunks.                                                        *)
BeginTransfer ==
  /\ ~carrying.on
  /\ \E list \in lists.near : carrying' = [list |-> list, done |-> 0, on |-> TRUE]
  /\ UNCHANGED <<original, near, far, lists, splitting, joining, output, spoiled>>

\* A chunk that has arrived is verified; the others are copied beside their
\* place, verified there and moved to it.
CarryChunk ==
  LET chunk == carrying.list[carrying.done + 1] IN
    /\ carrying.on /\ carrying.done < Chunks
    /\ IF far[chunk] = chunk \/ (far[chunk] = NoChunk /\ near[chunk] = chunk)
       THEN far' = [far EXCEPT ![chunk] = chunk] /\ carrying' = [carrying EXCEPT !.done = @ + 1]
       ELSE far' = far /\ carrying' = Resting
    /\ UNCHANGED <<original, near, lists, splitting, joining, output, spoiled>>

EndTransfer ==
  /\ carrying.on /\ carrying.done = Chunks
  /\ lists' = [lists EXCEPT !.far = @ \cup {carrying.list}] /\ carrying' = Resting
  /\ UNCHANGED <<original, near, far, splitting, joining, output, spoiled>>

-----------------------------------------------------------------------------
(* assemble_artifact. The partial file and its checkpoint are named after  *)
(* the manifest; those of one manifest, any one, are modelled.             *)

\* What the checkpoint counts must be in the partial file as listed; what
\* lies beyond it was cut short and is cut off.
Counted(list) == IsPrefix(SubSeq(list, 1, output.count), output.partial)
BeginAssembly(list) ==
  /\ ~joining.on /\ list \in lists.far /\ output.file = NoFile
  /\ output.of \in {<<>>, list} /\ Counted(list)
  /\ joining' = [list |-> list, done |-> output.count, on |-> TRUE]
  /\ output' = [output EXCEPT !.of = list, !.partial = SubSeq(@, 1, output.count)]
  /\ UNCHANGED <<original, near, far, lists, splitting, carrying, spoiled>>

\* A chunk is verified and appended, then the checkpoint moves on.
AppendChunk ==
  LET chunk == joining.list[joining.done + 1] IN
    /\ joining.on /\ joining.done < Chunks /\ output.count = joining.done
    /\ IF Len(output.partial) = joining.done
       THEN IF far[chunk] = chunk
            THEN output' = [output EXCEPT !.partial = Append(@, chunk)] /\ joining' = joining
            ELSE output' = output /\ joining' = Resting
       ELSE /\ output' = [output EXCEPT !.count = @ + 1]
            /\ joining' = [joining EXCEPT !.done = @ + 1]
    /\ UNCHANGED <<original, near, far, lists, splitting, carrying, spoiled>>

\* The whole file is verified and put into place; the checkpoint goes last.
NoVerification == TRUE
Verified == output.partial = joining.list
PlaceOutput ==
  /\ joining.on /\ joining.done = Chunks /\ output.file = NoFile
  /\ IF Verified
     THEN output' = [output EXCEPT !.file = output.partial, !.partial = NoFile] /\ joining' = joining
     ELSE output' = output /\ joining' = Resting
  /\ UNCHANGED <<original, near, far, lists, splitting, carrying, spoiled>>

DropCheckpoint ==
  /\ joining.on /\ joining.done = Chunks /\ output.file # NoFile
  /\ output' = [output EXCEPT !.count = 0] /\ joining' = Resting
  /\ UNCHANGED <<original, near, far, lists, splitting, carrying, spoiled>>

-----------------------------------------------------------------------------
Rewritten ==
  /\ original < MaxVersions /\ original' = original + 1
  /\ UNCHANGED <<near, far, lists, splitting, carrying, joining, output, spoiled>>

\* A command dies, the assembly perhaps with more in the partial file than
\* its checkpoint counts.
CommandDies ==
  /\ \/ splitting.before # 0 /\ splitting' = [read |-> <<>>, before |-> 0]
        /\ UNCHANGED <<carrying, joining>>
     \/ carrying.on /\ carrying' = Resting /\ UNCHANGED <<splitting, joining>>
     \/ joining.on /\ joining' = Resting /\ UNCHANGED <<splitting, carrying>>
  /\ UNCHANGED <<original, near, far, lists, output>>

DamageChunk ==
  /\ \E c \in Digests :
       \/ near[c] # NoChunk /\ near' = [near EXCEPT ![c] = Rotten] /\ UNCHANGED <<far, output>>
       \/ far[c] # NoChunk /\ far' = [far EXCEPT ![c] = Rotten] /\ UNCHANGED <<near, output>>
  /\ UNCHANGED <<original, lists, splitting, carrying, joining>>

DamagePartial ==
  /\ output.partial # NoFile
  /\ \/ \E i \in DOMAIN output.partial : output' = [output EXCEPT !.partial[i] = Rotten]
     \/ ~joining.on /\ output' = [output EXCEPT !.partial = NoFile]
  /\ UNCHANGED <<original, near, far, lists, splitting, carrying, joining>>

RemoveOutput ==
  /\ output.file # NoFile /\ ~joining.on /\ output' = [output EXCEPT !.file = NoFile]
  /\ UNCHANGED <<original, near, far, lists, splitting, carrying, joining>>

Mishap ==
  /\ spoiled < MaxChunkMishaps /\ spoiled' = spoiled + 1
  /\ CommandDies \/ DamageChunk \/ DamagePartial \/ RemoveOutput

ChunksNext ==
  \/ BeginSplit \/ SplitChunk \/ EndSplit \/ BeginTransfer \/ CarryChunk \/ EndTransfer
  \/ \E list \in lists.far : BeginAssembly(list)
  \/ AppendChunk \/ PlaceOutput \/ DropCheckpoint
  \/ Rewritten \/ Mishap

ChunksSpec == ChunksInit /\ [][ChunksNext]_chunkVars

-----------------------------------------------------------------------------
\* A manifest lists the chunks of one version of the file, and a file that was
\* assembled is exactly that version, whatever was rewritten, cut short,
\* resumed or damaged on the way (artifacts.py:106, 162).
AssembledIsOneVersion ==
  /\ \A list \in lists.near \cup lists.far :
       \E v \in 1..original : list = FileOfVersion(v)
  /\ output.file # NoFile => output.file \in lists.far
=============================================================================
