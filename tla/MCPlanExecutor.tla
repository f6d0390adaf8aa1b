---------------------------- MODULE MCPlanExecutor ----------------------------
(* Small plans and the ways to run them for TLC. *)
EXTENDS PlanExecutor, PlanCompiler
CONSTANTS shot, check, next, recheck, other, proof, cut, teaser

\* "next" continues from "shot", "other" does not; every one has its technical check.
\* The teaser is an assembly of the first shot alone, the cut of the first two.
ListedSteps == <<next, check, recheck, shot, other, proof, cut, teaser>>
KindOf == [s \in Steps |-> CASE s \in {check, recheck, proof} -> "qc"
                             [] s \in {cut, teaser} -> "assembly"
                             [] OTHER -> "tool"]
DepsOf == [s \in Steps |-> CASE s = check -> {shot} [] s = next -> {check}
                             [] s = recheck -> {next} [] s = proof -> {other}
                             [] s = cut -> {check, next} [] s = teaser -> {check}
                             [] OTHER -> {}]
TargetOf == [s \in Steps |-> CASE s = check -> {shot} [] s = recheck -> {next}
                               [] s = proof -> {other} [] OTHER -> {}]
ConsumesOf == [s \in Steps |-> CASE s = cut -> {shot, next} [] s = teaser -> {shot}
                                 [] OTHER -> {}]
SourceOf == [s \in Steps |-> IF s = next THEN {shot} ELSE {}]

Mode(steps, handoff, recovering, runGiven, edits, stops) ==
  [steps |-> steps, handoff |-> handoff, recovering |-> recovering, resume |-> TRUE,
   runGiven |-> runGiven, edits |-> edits, stops |-> stops]

\* The command with and without workorders, a recovery policy and a run id of its own.
OneByOne ==
  {Mode({shot, check, teaser}, TRUE, FALSE, TRUE, 1, 1),
   Mode({shot, check, next, cut}, FALSE, FALSE, TRUE, 0, 1),
   Mode({shot, check, teaser}, FALSE, FALSE, TRUE, 1, 1),
   Mode({shot, check, next, recheck}, FALSE, TRUE, TRUE, 0, 1),
   Mode({shot, check}, TRUE, TRUE, TRUE, 1, 0),
   Mode({shot, check, next}, TRUE, FALSE, TRUE, 1, 0),
   Mode({shot, check}, TRUE, FALSE, FALSE, 0, 1),
   [Mode({shot, check, teaser}, FALSE, FALSE, TRUE, 1, 0) EXCEPT !.resume = FALSE]}
\* Two shots that know nothing of each other, with a recovery policy.
TwoShots == {Mode({shot, check, other, proof}, FALSE, TRUE, TRUE, 0, 0)}

-----------------------------------------------------------------------------
(* Documents, jobs and options for the compiler. *)

Block(kind, id, prompt, refs, continues) ==
  [kind |-> kind, id |-> id, prompt |-> prompt, refs |-> refs, continues |-> continues,
   aspects |-> FALSE, review |-> "none"]
\* Explicit names that meet default names, references and sources in either direction.
Blocks == {Block("asset", id, prompt, <<>>, 0) : id \in {0, 2}, prompt \in {0, 5}}
          \cup {Block("shot", id, 7, refs, from) :
                   id \in {0, 1}, refs \in {<<>>, <<1>>, <<2, 1>>}, from \in {0, 1, 2}}
          \cup {[Block("shot", 0, 7, <<>>, 1) EXCEPT !.review = r, !.aspects = a] :
                   r \in {"false", "other"}, a \in BOOLEAN}
Documents == [1..2 -> Blocks] \cup [1..3 -> {b \in Blocks : b.prompt = 0 \/ b.review # "other"}]
Accepted == {doc \in Documents : ~IntakeRefused(doc)}

Options(skills, tool, checks, sources, assembly) ==
  [skills |-> skills, tool |-> tool, checks |-> checks, sources |-> sources,
   assembly |-> assembly, shape |-> FALSE]
SomeOptions ==
  {Options(SkillsOf(p, <<>>), tool, TRUE, p = "p0", TRUE) :
     p \in {"generate", "p0"}, tool \in {"generate", "vendor"}}
  \cup {[Options(SkillsOf("p0", <<>>), "generate", FALSE, FALSE, TRUE) EXCEPT !.shape = TRUE],
        Options(SkillsOf("custom", <<"asset3d", "generate", "dub">>), "generate", TRUE, FALSE, TRUE),
        Options(SkillsOf("custom", <<"remaster", "dub", "generate">>), "generate", TRUE, TRUE, FALSE)}

\* A job after somebody changed one thing in it.
Changed(job) ==
  {[job EXCEPT ![i].spec = {}] : i \in DOMAIN job}
  \cup {[job EXCEPT ![i].spec = {[s EXCEPT !.prompt = 6] : s \in @}, ![i].prompt = 6] : i \in DOMAIN job}
  \cup {[job EXCEPT ![i].context = {[c EXCEPT !.continues = v, !.resolved = r] : c \in @}] :
           i \in DOMAIN job, v \in 1..3, r \in {0, 9}}
  \cup {[job EXCEPT ![i] = job[k], ![k] = job[i]] : i, k \in DOMAIN job}

\* A context with an image of the shot and two of an asset, over two files.
Image == [sha : 1..2, path : 0..2]
Illustrated(shown, first, second) ==
  [continues |-> 0, resolved |-> 0, images |-> <<shown>>, intent |-> {},
   refs |-> <<[asset |-> 1, images |-> <<first, second>>]>>]

\* Two shots and an asset, the second shot continues from the first and quotes the asset.
Sequel == Intake(<<Block("shot", 0, 7, <<>>, 0), Block("asset", 0, 5, <<>>, 0),
                   Block("shot", 0, 8, <<2>>, 1)>>)

\* Intake and the compiler agree on every small document.
ASSUME IntakeAssumption == \A doc \in Documents : IntakeIsAccepted(doc)
\* A change of an accepted job that would make a context untrue is refused.
ASSUME ChangeAssumption ==
  \A doc \in {d \in Accepted : Len(d) = 3} : \A job \in Changed(Intake(doc)) : ContextsAreCurrent(job)
\* Every small job compiles to a plan that the executor can rely on.
ASSUME PlanSoundAssumption ==
  \A job \in {Intake(doc) : doc \in Accepted} \cup {Sequel} : \A opts \in SomeOptions :
    ~PlanRefused(job, opts) => PlanIsSound(job, opts)
\* The images of a context are what it declares when a step runs.
ASSUME ImageAssumption ==
  \A shown, first, second \in Image : \A there \in [1..2 -> 0..2] :
    ImagesAreDeclared(Illustrated(shown, first, second), there)
=============================================================================
