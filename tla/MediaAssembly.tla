--------------------------- MODULE MediaAssembly ---------------------------
(***************************************************************************)
(* The assembly of a timeline and the technical check of what it made:      *)
(* assembly/fast_assembly.py with the measuring half of conformance/media.py,*)
(* as the assembly step of the plan executor runs them. Shots are cut or    *)
(* padded with a frozen last frame, joined, mixed with the music, titled,   *)
(* published over the earlier film, measured, and attested by a receipt.    *)
(* The plan's contract says what the film must be, decided by the planner   *)
(* before any of it exists; the step ends as completed only if the film     *)
(* conforms. Any tool may fail, the process may die at every point, the     *)
(* plan may be revised and run again over the same folder, and files may be *)
(* edited by hand.                                                          *)
(*                                                                         *)
(* Time is counted in quarters of a second, the tolerance of a contract.    *)
(***************************************************************************)
EXTENDS Integers, Sequences, FiniteSets, SequencesExt

CONSTANTS
  Timelines,      \* the plans that may be assembled
  MaxRevisions,   \* bound on the number of plans run in one folder
  MaxEdits,       \* bound on edits of the published files by hand
  MaxAssemblyDeaths

\* A timeline has a shot and one of three rules about sound (fast_assembly.py:739, 785); each
\* shot has sound of its own or not, and is dubbed or not.
ASSUME MediaAssumption ==
  /\ MaxRevisions \in Nat /\ MaxEdits \in Nat /\ MaxAssemblyDeaths \in Nat
  /\ \A t \in Timelines :
       /\ t.shots \in Seq([have : Nat, want : Nat, own : BOOLEAN, dub : BOOLEAN])
       /\ t.shots # <<>>
       /\ t.policy \in {"keep", "strip", "require"} /\ t.music \in BOOLEAN
       /\ t.titles \in {"none", "sidecar", "burned"}

VARIABLES
  timeline,   \* the plan being assembled
  reel,       \* the prepared segments of this run
  stage,      \* the film in the work folder
  folder,     \* the published film, its subtitle file and its receipt
  cutting,    \* where the assembly is, or how it ended
  verdict,    \* the evaluation status of the published film
  mishaps     \* counts of the bounded events

mediaVars == <<timeline, reel, stage, folder, cutting, verdict, mishaps>>

\* A file that is not there, and one whose writing was cut short.
Absent == [kind |-> "absent"]
Torn == [kind |-> "torn"]

FreezeFound == 2    \* freezedetect reports frozen runs of half a second
FreezeAllowed == 2  \* max_freeze_duration_seconds of the contract
Tolerance == 1      \* duration_tolerance_seconds of the contract

Clips == timeline.shots
SumOf(s) == FoldSeq(+, 0, s)
Planned == SumOf([i \in DOMAIN Clips |-> Clips[i].want])

-----------------------------------------------------------------------------
(* What the planner promises and what the assembly decides about sound.    *)

AnyDub == \E i \in DOMAIN Clips : Clips[i].dub

\* The audio rule of the compiled contract.
PlannedAudio ==
  CASE timeline.policy = "strip" -> IF timeline.music THEN "required" ELSE "forbidden"
    [] timeline.policy = "require" -> "required"
    [] OTHER -> IF timeline.music \/ AnyDub THEN "required" ELSE "allowed"

\* Something in the timeline can be heard before any music.
AnyShotHeard == AnyDub \/ \E i \in DOMAIN Clips : Clips[i].own

\* Silent shots get a silent track, so that all segments have the same streams.
ForcedSound ==
  \/ timeline.policy = "require"
  \/ timeline.policy = "keep" /\ (AnyShotHeard \/ timeline.music)

\* The sound of a prepared segment: its dub goes before its own sound.
SegmentSound(shot) ==
  IF timeline.policy = "strip" THEN "none"
  ELSE IF shot.dub THEN "dub"
  ELSE IF shot.own THEN "own"
  ELSE IF ForcedSound THEN "silence" ELSE "none"

\* A shot fitted to its planned time: cut, or held on its last frame.
Fitted(shot) ==
  [sound |-> SegmentSound(shot), length |-> shot.want,
   held |-> IF shot.want > shot.have THEN shot.want - shot.have ELSE 0]

\* The joined film has the streams of its first segment.
Joined(segments) ==
  [kind |-> "film", segments |-> segments, music |-> FALSE, titled |-> FALSE,
   audible |-> segments[1].sound # "none"]

Mixed(film) ==
  IF timeline.music THEN [film EXCEPT !.music = TRUE, !.audible = TRUE] ELSE film

-----------------------------------------------------------------------------
(* The measurement of the film on disk and its comparison with the contract.*)

\* The frozen runs ffmpeg reports, the one that lasts to the end included:
\* it never prints a duration, and is settled from the length of the film.
FrozenRunsPrinted(film) ==
  {i \in DOMAIN film.segments :
     film.segments[i].held >= FreezeFound /\ i < Len(film.segments)}
FrozenRuns(film) ==
  {i \in DOMAIN film.segments : film.segments[i].held >= FreezeFound}

AudioConforms(film) ==
  CASE PlannedAudio = "required" -> film.audible
    [] PlannedAudio = "forbidden" -> ~film.audible
    [] OTHER -> TRUE

LengthOf(film) == SumOf([i \in DOMAIN film.segments |-> film.segments[i].length])

Distance(a, b) == IF a > b THEN a - b ELSE b - a

\* The adapter's verdict; without a measurement there is none.
Conformance(film, measured) ==
  IF ~measured THEN "evaluation_failed"
  ELSE IF /\ AudioConforms(film)
          /\ Distance(LengthOf(film), Planned) <= Tolerance
          /\ \A i \in FrozenRuns(film) : film.segments[i].held <= FreezeAllowed
  THEN "conforms" ELSE "does_not_conform"

\* The receipt binds the film and the subtitles on disk, the contract and the report.
ReceiptOf(film, subtitles, status) ==
  [kind |-> "receipt", film |-> film, subtitles |-> subtitles, status |-> status,
   planned |-> Planned, audio |-> PlannedAudio]

\* verify_assembly_receipt: the digests of the files are those of the receipt.
ReceiptVerifies ==
  /\ folder.receipt.kind = "receipt"
  /\ folder.film = folder.receipt.film
  /\ folder.receipt.subtitles # Absent => folder.subtitles = folder.receipt.subtitles

-----------------------------------------------------------------------------
MediaInit ==
  /\ timeline \in Timelines
  /\ reel = <<>> /\ stage = Absent
  /\ folder = [film |-> Absent, subtitles |-> Absent, receipt |-> Absent]
  /\ cutting = "idle" /\ verdict = "none"
  /\ mishaps = [revisions |-> 0, edits |-> 0, deaths |-> 0]

\* The executor calls the assembly; the sound of every shot is probed first.
StartAssembly ==
  /\ cutting = "idle"
  /\ cutting' = "prepare" /\ reel' = <<>> /\ stage' = Absent /\ verdict' = "none"
  /\ UNCHANGED <<timeline, folder, mishaps>>

PrepareSegment ==
  /\ cutting = "prepare" /\ Len(reel) < Len(Clips)
  /\ reel' = Append(reel, Fitted(Clips[Len(reel) + 1]))
  /\ UNCHANGED <<timeline, stage, folder, cutting, verdict, mishaps>>

\* Stream copy, or a second encoding if that fails.
ConcatSegments ==
  /\ cutting = "prepare" /\ Len(reel) = Len(Clips)
  /\ stage' = Joined(reel) /\ cutting' = "mix"
  /\ UNCHANGED <<timeline, reel, folder, verdict, mishaps>>

MixAudio ==
  /\ cutting = "mix"
  /\ stage' = Mixed(stage) /\ cutting' = "title"
  /\ UNCHANGED <<timeline, reel, folder, verdict, mishaps>>

\* The subtitle file is written beside the film that is still there. Burning
\* it in may fail, and without permission to fall back the assembly fails.
WriteTitles ==
  /\ cutting = "title"
  /\ IF timeline.titles = "none"
     THEN cutting' = "publish" /\ UNCHANGED <<stage, folder>>
     ELSE /\ folder' = [folder EXCEPT !.subtitles = timeline.text]
          /\ \/ timeline.titles = "sidecar" /\ cutting' = "publish" /\ stage' = stage
             \/ /\ timeline.titles = "burned"
                /\ \/ cutting' = "publish" /\ stage' = [stage EXCEPT !.titled = TRUE]
                   \/ cutting' = "failed" /\ stage' = stage
  /\ UNCHANGED <<timeline, reel, verdict, mishaps>>

\* A copy beside the old film replaces it in one step.
PublishFilm ==
  /\ cutting = "publish"
  /\ folder' = [folder EXCEPT !.film = stage] /\ cutting' = "measure"
  /\ UNCHANGED <<timeline, reel, stage, verdict, mishaps>>

MeasureFilm ==
  /\ cutting = "measure"
  /\ \E measured \in BOOLEAN : verdict' = Conformance(folder.film, measured)
  /\ cutting' = "attest"
  /\ UNCHANGED <<timeline, reel, stage, folder, mishaps>>

\* The receipt is written in place; the step's result follows the report.
WriteReceipt ==
  /\ cutting = "attest"
  /\ LET subtitles == IF timeline.titles = "none" THEN Absent ELSE folder.subtitles IN
       folder' = [folder EXCEPT !.receipt = ReceiptOf(folder.film, subtitles, verdict)]
  /\ cutting' = IF verdict = "conforms" THEN "completed" ELSE "failed"
  /\ UNCHANGED <<timeline, reel, stage, verdict, mishaps>>

\* An encoder or a probe fails, and the step with it.
ToolFails ==
  /\ cutting \in {"prepare", "mix", "measure"}
  /\ cutting' = "failed"
  /\ UNCHANGED <<timeline, reel, stage, folder, verdict, mishaps>>

\* The process dies; the receipt may be half written.
AssemblyDies ==
  /\ cutting \notin {"idle", "completed", "failed"} /\ mishaps.deaths < MaxAssemblyDeaths
  /\ mishaps' = [mishaps EXCEPT !.deaths = @ + 1]
  /\ \/ folder' = folder
     \/ cutting = "attest" /\ folder' = [folder EXCEPT !.receipt = Torn]
  /\ cutting' = "idle" /\ UNCHANGED <<timeline, reel, stage, verdict>>

\* A plan, the same or another one, is run in the folder again.
Revise ==
  /\ cutting \in {"completed", "failed"} /\ mishaps.revisions < MaxRevisions
  /\ timeline' \in {t \in Timelines : t.folder = timeline.folder}
  /\ mishaps' = [mishaps EXCEPT !.revisions = @ + 1]
  /\ cutting' = "idle" /\ UNCHANGED <<reel, stage, folder, verdict>>

\* Somebody cuts the film or edits its subtitles between two runs.
EditByHand ==
  /\ cutting \in {"completed", "failed"} /\ mishaps.edits < MaxEdits
  /\ \/ /\ folder.film # Absent /\ Len(folder.film.segments) > 1
        /\ folder' = [folder EXCEPT !.film.segments = Front(@)]
     \/ folder.subtitles # Absent /\ folder' = [folder EXCEPT !.subtitles = Torn]
  /\ mishaps' = [mishaps EXCEPT !.edits = @ + 1]
  /\ UNCHANGED <<timeline, reel, stage, cutting, verdict>>

MediaNext ==
  \/ StartAssembly \/ PrepareSegment \/ ConcatSegments \/ MixAudio \/ WriteTitles
  \/ PublishFilm \/ MeasureFilm \/ WriteReceipt \/ ToolFails
  \/ AssemblyDies \/ Revise \/ EditByHand

MediaSpec == MediaInit /\ [][MediaNext]_mediaVars

-----------------------------------------------------------------------------
\* What a viewer should hear of a shot, by the policy alone: a dub replaces
\* its own sound, nothing of a stripped shot is left, and a shot with nothing
\* to hear has no place in a film that requires sound.
Heard(shot) ==
  IF timeline.policy = "strip" THEN {"none"}
  ELSE IF shot.dub THEN {"dub"}
  ELSE IF shot.own THEN {"own"}
  ELSE IF timeline.policy = "keep" THEN {"none", "silence"} ELSE {}

\* Such a shot: what becomes of it is the matter of RequireFailsClosed.
LacksRequired(shot) == timeline.policy = "require" /\ ~shot.dub /\ ~shot.own

\* A receipt that verifies and reports conformance stands for the whole film as
\* planned, whatever was run, cut short or edited before: no shot is held on a
\* frozen frame for longer than allowed, the last one included, and the film
\* is as long as the plan of its receipt (fast_assembly.py:619, media.py:595).
VerifiedFilmIsWhole ==
  ReceiptVerifies /\ folder.receipt.status = "conforms" =>
    /\ \A i \in DOMAIN folder.film.segments : folder.film.segments[i].held <= FreezeAllowed
    /\ Distance(LengthOf(folder.film), folder.receipt.planned) <= Tolerance
    /\ folder.receipt.audio = "required" => folder.film.audible

\* The planner and the assembly decide about sound in two places; whenever an
\* assembly was published, every shot that does not lack a required sound has
\* the sound its policy says, all segments have the same streams, and the film
\* meets the audio rule of the contract that was compiled before it
\* (plan.py:511, fast_assembly.py:751).
SoundIsAsPlanned ==
  cutting \in {"measure", "attest"} =>
    /\ \A i \in DOMAIN Clips :
         LacksRequired(Clips[i]) \/ folder.film.segments[i].sound \in Heard(Clips[i])
    /\ \A i, j \in DOMAIN Clips :
         folder.film.segments[i].sound = "none" <=> folder.film.segments[j].sound = "none"
    /\ AudioConforms(folder.film)

\* A film that is attested is the one that was planned, in picture and sound.
FilmIsAsPlanned == VerifiedFilmIsWhole /\ SoundIsAsPlanned

\* "'require': fails closed if segment and audio_path are both missing audio"
\* (fast_assembly.py:87): no film is published with such a shot in it. It is:
\* the shot gets a silent track (fast_assembly.py:137).
RequireFailsClosed ==
  cutting \in {"measure", "attest"} => \A i \in DOMAIN Clips : ~LacksRequired(Clips[i])
=============================================================================
