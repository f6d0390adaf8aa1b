----------------------------- MODULE MCMachine -----------------------------
(***************************************************************************)
(* What one machine does with the segments of a film, whose rows are in its *)
(* production store: the sequences of frames on its disks, the chunks they  *)
(* travel in, the assembly of the film, the process trees of the tools and  *)
(* their resumable runs. The six share no state; a behaviour is one of them *)
(* at work, the others resting.                                             *)
(***************************************************************************)
EXTENDS MCProductionStore, MediaAssembly, ProcessGuard, JobResume, FrameSequence,
  ArtifactChunks

CONSTANTS diskA, diskB, ann, bob

VARIABLE part  \* the component at work

Parts == {"store", "media", "guard", "resume", "sequence", "chunks"}

\* Timelines: two shots of one second with every rule about sound, each with or without sound
\* of its own and a dub; shots that are too short, in both places; and one film under three
\* texts.
Text(n) == [kind |-> "text", n |-> n]
Shot(have, want, own, dub) == [have |-> have, want |-> want, own |-> own, dub |-> dub]
Film(shots, policy, music, titles, n) ==
  [shots |-> shots, policy |-> policy, music |-> music, titles |-> titles,
   text |-> Text(n), folder |-> IF n = 4 THEN 3 ELSE n]
MCTimelines ==
  {Film(<<Shot(4, 4, o, d), Shot(4, 4, p, e)>>, policy, music, "none", IF music THEN 1 ELSE 5) :
     o, p, d, e, music \in BOOLEAN, policy \in {"keep", "strip", "require"}}
  \cup {Film(<<Shot(h[1], 4, TRUE, FALSE), Shot(h[2], 4, TRUE, FALSE)>>, "keep", FALSE, "none", 2) :
          h \in {<<1, 2>>, <<2, 1>>, <<2, 5>>}}
  \cup {Film(<<Shot(4, 4, TRUE, FALSE), Shot(5, 4, TRUE, FALSE)>>, "keep", FALSE, titles, n) :
          titles \in {"sidecar", "burned"}, n \in {3, 4}}
NoTimeline == Film(<<Shot(4, 4, FALSE, FALSE)>>, "keep", FALSE, "none", 0)

\* Platforms of a process tree.
MCHosts ==
  {[platform |-> "posix", job |-> FALSE, capture |-> k] : k \in {"plain", "limited"}}
  \cup {[platform |-> "windows", job |-> j, capture |-> "plain"] : j \in BOOLEAN}
NoHost == [platform |-> "none", job |-> FALSE, capture |-> "plain"]
MCAllHosts == MCHosts \cup {NoHost}
MCAllTimelines == MCTimelines \cup {NoTimeline}

MCShotIds == <<"s1", "s2">>

MachineInit ==
  /\ part \in Parts
  /\ Init /\ MediaInit /\ GuardInit /\ ResumeInit /\ SequenceInit /\ ChunksInit
  /\ (part = "media") = (timeline # NoTimeline)
  /\ (part = "guard") = (host # NoHost)

MachineNext ==
  /\ part' = part
  /\ \/ /\ part = "store" /\ Next
        /\ UNCHANGED <<mediaVars, guardVars, resumeVars, sequenceVars, chunkVars>>
     \/ /\ part = "media" /\ MediaNext
        /\ UNCHANGED <<vars, guardVars, resumeVars, sequenceVars, chunkVars>>
     \/ /\ part = "guard" /\ GuardNext
        /\ UNCHANGED <<vars, mediaVars, resumeVars, sequenceVars, chunkVars>>
     \/ /\ part = "resume" /\ ResumeNext
        /\ UNCHANGED <<vars, mediaVars, guardVars, sequenceVars, chunkVars>>
     \/ /\ part = "sequence" /\ SequenceNext
        /\ UNCHANGED <<vars, mediaVars, guardVars, resumeVars, chunkVars>>
     \/ /\ part = "chunks" /\ ChunksNext
        /\ UNCHANGED <<vars, mediaVars, guardVars, resumeVars, sequenceVars>>

machineVars == <<part, vars, mediaVars, guardVars, resumeVars, sequenceVars, chunkVars>>

MachineSpec == MachineInit /\ [][MachineNext]_machineVars

\* The disks of a sequence are interchangeable, its two commands too, and the two tasks of the
\* store's plan: they are exchanged with the commands, since only one part is at work.
Exchange == t1 :> t2 @@ t2 :> t1 @@ ann :> bob @@ bob :> ann
Alike == {Exchange} \cup Permutations({diskA, diskB})
=============================================================================
