----------------------------- MODULE PlanCompiler -----------------------------
(***************************************************************************)
(* From a document to a plan: intake makes a job of the blocks of a        *)
(* document and resolves the consistency tags of its shots; the compiler   *)
(* checks every context against the job as it is now and lays the steps    *)
(* out; the executor resolves a context again before it runs a step.       *)
(*                                                                         *)
(* Identifiers, texts and contents are numbers, 0 is an absent one; the    *)
(* identifier n is also the default name of the n-th task.  A digest is    *)
(* the thing it is the digest of, an optional record is a set.             *)
(***************************************************************************)
EXTENDS Naturals, Sequences, FiniteSets, SequencesExt

-----------------------------------------------------------------------------
(* Intake.  A block is [kind, id, prompt, refs, continues, aspects, review].  *)

\* The blocks that become tasks; metadata needs a prompt, identifiers are unique.
Worded(doc) == SelectSeq(doc, LAMBDA b : b.prompt > 0)
Identifier(doc, i) == IF Worded(doc)[i].id = 0 THEN i ELSE Worded(doc)[i].id
Tagged(b) == b.refs # <<>> \/ b.continues > 0 \/ b.aspects \/ b.review # "none"
Bare(b) == b.prompt = 0 /\ (b.id > 0 \/ Tagged(b))
Ambiguous(doc) == \E i, j \in DOMAIN Worded(doc) :
                    i < j /\ Identifier(doc, i) = Identifier(doc, j)

\* The tasks without contexts: a shot is generated from its prompt, an asset is its prompt.
TasksOf(doc) ==
  [i \in DOMAIN Worded(doc) |->
     LET b == Worded(doc)[i]
     IN [id |-> Identifier(doc, i), kind |-> b.kind, prompt |-> b.prompt, context |-> {},
         spec |-> IF b.kind = "asset"
                  THEN {[asset |-> Identifier(doc, i), prompt |-> b.prompt]} ELSE {}]]

IsShot(t) == t.kind = "shot"
Ids(job, kind) == {job[i].id : i \in {k \in DOMAIN job : job[k].kind = kind}}
Place(job, id) == CHOOSE i \in DOMAIN job :
                    /\ job[i].id = id
                    /\ \A k \in DOMAIN job : job[k].id = id => i <= k
\* asset_spec of the job, the content that a reference has to match.
SpecOf(job, id) == UNION {job[i].spec : i \in {k \in DOMAIN job : job[k].kind = "asset"
                                                                  /\ job[k].id = id}}
AssetDigest(asset, version, prompt, images) == <<asset, version, prompt, images>>

\* What intake makes of the tags of the i-th task: every referenced asset is injected.
ContextOf(job, b) ==
  LET prompt(a) == (CHOOSE s \in SpecOf(job, a) : TRUE).prompt
  IN [formed |-> TRUE, review |-> b.review # "false", images |-> <<>>,
      continues |-> b.continues, resolved |-> 0,
      refs |-> [k \in DOMAIN b.refs |->
                 [asset |-> b.refs[k], version |-> 1, images |-> <<>>,
                  hash |-> AssetDigest(b.refs[k], 1, prompt(b.refs[k]), <<>>)]],
      intent |-> {[base |-> b.prompt, effective |-> 0,
                   injects |-> [k \in DOMAIN b.refs |->
                                 [asset |-> b.refs[k], text |-> prompt(b.refs[k])]]]}]

-----------------------------------------------------------------------------
(* What the compiler refuses, whether intake or somebody else wrote the context. *)

UnknownAsset(c, job) == \E r \in ToSet(c.refs) : r.asset \notin Ids(job, "asset")
\* The reference is to the asset as the job has it now.
OtherContent(c, job) ==
  \E r \in ToSet(c.refs) :
    ~ \E s \in SpecOf(job, r.asset) :
        s.asset = r.asset /\ r.hash = AssetDigest(s.asset, r.version, s.prompt, r.images)
\* The source is another shot, declared earlier, whose artifact nobody has filled in.
BadSource(c, id, job) ==
  /\ c.continues > 0
  /\ \/ c.continues \notin Ids(job, "shot") \ {id}
     \/ Place(job, c.continues) >= Place(job, id)
     \/ c.resolved > 0
OtherPrompt(c, t) == \E g \in c.intent : g.base # t.prompt
Preset(c) == \E g \in c.intent : g.effective > 0
Undeclared(c) == \E g \in c.intent : \E n \in ToSet(g.injects) :
                   n.asset \notin {r.asset : r \in ToSet(c.refs)}

ContextRefused(c, t, job, withSpecs) ==
  \/ ~c.formed
  \/ UnknownAsset(c, job)
  \/ withSpecs /\ OtherContent(c, job)
  \/ BadSource(c, t.id, job)
  \/ OtherPrompt(c, t) \/ Preset(c) \/ Undeclared(c)

\* The search follows the declared sources from shot to shot, over shots with a context.
Continued(job, ids) ==
  {v \in Ids(job, "shot") :
     \E i \in DOMAIN job : /\ IsShot(job[i]) /\ job[i].id \in ids
                           /\ \E c \in job[i].context : c.continues = v}
Cyclic(job) ==
  \E u \in Ids(job, "shot") :
    LET at[n \in 0..Len(job)] == IF n = 0 THEN {u} ELSE Continued(job, at[n - 1])
    IN \E n \in 1..Len(job) : u \in at[n]

JobRefused(job) ==
  LET shots == {i \in DOMAIN job : IsShot(job[i])}
  IN \/ Cyclic(job)
     \/ \E i \in shots : \E c \in job[i].context : ContextRefused(c, job[i], job, TRUE)

\* Intake: consistency tags belong to shots, aspects to a continuity; every reference is
\* known when the context is built, which the builder checks like the compiler does.
BadTags(job, b) ==
  \/ b.kind = "asset"
  \/ b.aspects /\ b.continues = 0
  \/ b.review = "other"
  \/ ~IsInjective(b.refs)
  \/ ~(ToSet(b.refs) \subseteq Ids(job, "asset"))
IntakeRefused(doc) ==
  \/ \E i \in DOMAIN doc : Bare(doc[i])
  \/ Ambiguous(doc)
  \/ LET job == TasksOf(doc)
     IN \E i \in DOMAIN job :
          /\ Tagged(Worded(doc)[i])
          /\ \/ BadTags(job, Worded(doc)[i])
             \/ ContextRefused(ContextOf(job, Worded(doc)[i]), job[i], job, FALSE)
Intake(doc) ==
  LET job == TasksOf(doc)
  IN [i \in DOMAIN job |->
        IF Tagged(Worded(doc)[i])
        THEN [job[i] EXCEPT !.context = {ContextOf(job, Worded(doc)[i])}] ELSE job[i]]

-----------------------------------------------------------------------------
(* Compilation.  A step is known by its number.  The options are           *)
(* [skills, tool, shape, checks, sources, assembly]: "tool" generates,     *)
(* "sources" asks for a check of what edits are made of.                   *)

Ladder(pipeline) ==
  LET p0 == <<"storyboard", "generate", "remaster", "audio">>
      p1 == <<"storyboard", "generate", "remaster", "vfx", "audio", "dub", "trailer", "sfx">>
      p2 == p1 \o <<"asset3d", "mocap", "design">>
  IN CASE pipeline = "generate" -> <<"generate">>
       [] pipeline = "p0" -> p0
       [] pipeline = "p1" -> p1
       [] pipeline = "p2" -> p2
       [] pipeline = "p3" -> p2 \o <<"lora", "dataset", "specialist">>
       [] OTHER -> <<>>
\* Skills that are named replace the ladder; a custom pipeline has none of its own.
SkillsOf(pipeline, named) == IF named # <<>> THEN named ELSE Ladder(pipeline)
OptionsRefused(opts) ==
  opts.skills = <<>> \/ ~IsInjective(opts.skills) \/ (opts.sources /\ ~opts.checks)

Applies(tool, t) == tool \in {"asset3d", "mocap"} \/ IsShot(t)
ToolOf(skill, opts) == IF skill = "generate" THEN opts.tool ELSE skill
\* The tools whose artifact is checked at once.  No skill is called "vfx video".
IsChecked(tool, opts) ==
  opts.checks /\ (tool = "generate" \/ (opts.sources /\ tool \in {"remaster", "vfx video"}))

Step(unit, tool, deps, makes) ==
  [unit |-> unit, tool |-> tool, deps |-> deps, makes |-> makes, target |-> {}, takes |-> {}]
Check(unit, number, artifact) ==
  [Step(unit, "check", {number}, <<unit, "report">>) EXCEPT !.target = {artifact}]

\* A unit's steps form a chain in the order of the skills, each with its check.
AddSkill(steps, first, t, skill, opts) ==
  LET n == Len(steps) + 1
      dep == IF n = first THEN {} ELSE {n - 1}
      step == Step(t.id, ToolOf(skill, opts), dep, <<t.id, skill>>)
  IN IF ~Applies(step.tool, t) THEN steps
     ELSE IF IsChecked(step.tool, opts) THEN steps \o <<step, Check(t.id, n, step.makes)>>
     ELSE Append(steps, step)
AddTask(steps, t, opts) ==
  FoldLeft(LAMBDA acc, skill : AddSkill(acc, Len(steps) + 1, t, skill, opts), steps, opts.skills)
Chains(job, opts) == FoldLeft(LAMBDA acc, t : AddTask(acc, t, opts), <<>>, job)

StepsOf(steps, unit) == {n \in DOMAIN steps : steps[n].unit = unit}
FirstStep(steps, unit) == Min(StepsOf(steps, unit))
LastStep(steps, unit) == Max(StepsOf(steps, unit))

\* The first step of a shot waits for the last step of the shot it continues from.
Continuity(job, steps) ==
  [n \in DOMAIN steps |->
     [steps[n] EXCEPT !.deps = @ \cup
        {LastStep(steps, c.continues) :
           c \in {d \in UNION {job[i].context : i \in {k \in DOMAIN job :
                                 IsShot(job[k]) /\ FirstStep(steps, job[k].id) = n}} :
                  d.continues > 0}}]]
\* A source without steps is refused; with a skill for shots every shot has one.
SourceMissing(job, steps) ==
  \E i \in DOMAIN job : \E c \in job[i].context :
    /\ IsShot(job[i]) /\ c.continues > 0 /\ StepsOf(steps, job[i].id) # {}
    /\ StepsOf(steps, c.continues) = {}

\* The assembly takes one picture of each shot, the remastered one if the pipeline has it,
\* names the step it expects it from, 0 for none, and takes the shot's dub if there is one.
Pictures(job, steps, opts) ==
  LET skill == IF "remaster" \in ToSet(opts.skills) THEN "remaster" ELSE "generate"
      makers(id) == {n \in StepsOf(steps, id) : steps[n].tool = ToolOf(skill, opts)}
  IN {[shot |-> id, artifact |-> <<id, skill>>,
       step |-> IF makers(id) = {} THEN 0 ELSE Max(makers(id)),
       sound |-> IF "dub" \in ToSet(opts.skills) THEN {<<id, "dub">>} ELSE {}] :
        id \in Ids(job, "shot")}
Assembly(job, steps, opts) ==
  LET n == Len(steps) + 1
      lasts == {LastStep(steps, steps[k].unit) : k \in DOMAIN steps}
      movie == [Step(0, "assembly", lasts, <<0, "film">>)
                EXCEPT !.takes = Pictures(job, steps, opts)]
  IN IF ~opts.assembly \/ Ids(job, "shot") = {} THEN steps
     ELSE IF opts.checks THEN steps \o <<movie, Check(0, n, movie.makes)>>
     ELSE Append(steps, movie)

PlanRefused(job, opts) ==
  OptionsRefused(opts) \/ JobRefused(job) \/ SourceMissing(job, Chains(job, opts))
Compiled(job, opts) == Assembly(job, Continuity(job, Chains(job, opts)), opts)

-----------------------------------------------------------------------------
(* What the executor makes of a context before a step, with the steps in   *)
(* "done" completed.  A reference image is [sha, path]; disk maps a path   *)
(* to the content of the file, 0 if there is none.                         *)

\* The artifacts that count as video; stand-ins count in shape mode whatever they stand for.
IsVideo(skill, opts) ==
  IF opts.shape THEN skill \in {"storyboard", "generate", "remaster", "design"}
                ELSE skill \in {"generate", "remaster", "vfx"}
Videos(plan, unit, opts) == {n \in StepsOf(plan, unit) : IsVideo(plan[n].makes[2], opts)}
\* The step a shot continues from: the latest completed one that made a video.
SourceStep(plan, c, done, opts) ==
  LET made == Videos(plan, c.continues, opts) \cap done
  IN IF made = {} THEN {} ELSE {Max(made)}

Images(c) == c.images \o FoldLeft(LAMBDA acc, r : acc \o r.images, <<>>, c.refs)
\* An image without a path is looked up by its digest among those that have one.
PathOf(c, image) ==
  LET named == {k \in DOMAIN Images(c) : Images(c)[k].sha = image.sha /\ Images(c)[k].path > 0}
  IN IF image.path > 0 THEN image.path
     ELSE IF named = {} THEN 0 ELSE Images(c)[Max(named)].path
ImageRefused(c, image, disk) ==
  PathOf(c, image) = 0 \/ disk[PathOf(c, image)] = 0 \/ disk[PathOf(c, image)] # image.sha
ContextFails(plan, c, done, opts, disk) ==
  \/ c.continues > 0 /\ (c.resolved > 0 \/ SourceStep(plan, c, done, opts) = {})
  \/ \E image \in ToSet(Images(c)) : ImageRefused(c, image, disk)
  \/ Preset(c)
\* The prompt a shot is generated from: its own text and the injected ones in their order.
EffectivePrompt(c) ==
  {SelectSeq(<<g.base>> \o [k \in DOMAIN g.injects |-> g.injects[k].text],
             LAMBDA text : text > 0) : g \in c.intent}

-----------------------------------------------------------------------------
(* What a plan owes the executor. *)

Before(plan) ==
  LET up[n \in DOMAIN plan] == plan[n].deps \cup UNION {up[d] : d \in plan[n].deps}
  IN up
\* The steps named as a dependency come earlier, so the list is one order to run them in.
IsOrdered(plan) == \A n \in DOMAIN plan : plan[n].deps \subseteq 1..(n - 1)

\* What a check inspects and what an assembly takes are made by the very step the plan
\* names, and that step has finished before, with the check on it where there is one.
ReadsAreMade(plan) ==
  /\ \A n \in DOMAIN plan : \A a \in plan[n].target :
       \E d \in plan[n].deps : plan[d].makes = a
  /\ \A n \in DOMAIN plan : \A picture \in plan[n].takes :
       /\ picture.step > 0 => /\ picture.step \in Before(plan)[n]
                              /\ plan[picture.step].makes = picture.artifact
                              /\ \A q \in DOMAIN plan : plan[q].target = {picture.artifact}
                                                         => q \in Before(plan)[n]
       /\ picture.sound \subseteq {plan[d].makes : d \in Before(plan)[n]}

\* Two steps write one file only if a shot is checked twice: both checks are its report.
WritesApart(plan) ==
  \A m, n \in DOMAIN plan : m # n /\ plan[m].makes = plan[n].makes =>
                            plan[m].tool = "check" /\ plan[n].tool = "check"

\* Whatever of the source is done when a step of a continuing shot may start, the shot
\* continues from the last video its source will ever have.
ContinuesFromFinal(plan, job, opts) ==
  \A i \in DOMAIN job : \A c \in job[i].context : \A n \in StepsOf(plan, job[i].id) :
    IsShot(job[i]) /\ c.continues > 0 =>
      \A done \in SUBSET StepsOf(plan, c.continues) :
        (Before(plan)[n] \cap StepsOf(plan, c.continues)) \subseteq done
        => SourceStep(plan, c, done, opts) = SourceStep(plan, c, DOMAIN plan, opts)

PlanIsSound(job, opts) ==
  LET plan == Compiled(job, opts)
  IN /\ IsOrdered(plan) /\ ReadsAreMade(plan) /\ WritesApart(plan)
     /\ ContinuesFromFinal(plan, job, opts)

\* Nothing intake lets through is refused by the compiler, whatever the pipeline, and the
\* prompt of every shot quotes the assets it refers to as the job has them.
IntakeIsAccepted(doc) ==
  LET job == Intake(doc)
  IN ~IntakeRefused(doc) =>
       /\ ~JobRefused(job)
       /\ \A i \in DOMAIN job : \A c \in job[i].context :
            LET quoted == [k \in DOMAIN c.refs |-> job[Place(job, c.refs[k].asset)].prompt]
            IN EffectivePrompt(c) = {<<job[i].prompt>> \o quoted}

\* Whoever wrote the contexts: in a job that is accepted the shots continue from earlier
\* shots only, and every reference holds the present content of an asset of the job.
ContextsAreCurrent(job) ==
  ~JobRefused(job) =>
    \A i \in DOMAIN job : \A c \in job[i].context : IsShot(job[i]) =>
      /\ c.continues > 0 => \E k \in 1..(i - 1) : IsShot(job[k]) /\ job[k].id = c.continues
      /\ \A k \in DOMAIN c.refs : \E a \in DOMAIN job :
           /\ job[a].kind = "asset" /\ job[a].id = c.refs[k].asset
           /\ \E s \in job[a].spec : c.refs[k].hash[3] = s.prompt

\* A context without a source or a prompt of its own fails exactly if one of its images is
\* not to be had as declared, under its own path or under that of an equal image.
ImagesAreDeclared(c, disk) ==
  ContextFails(<<>>, c, {}, [shape |-> FALSE], disk) <=>
    \E image \in ToSet(Images(c)) : \A other \in ToSet(Images(c)) :
      ~(/\ other.sha = image.sha /\ (image.path > 0 => other = image)
        /\ other.path > 0 /\ disk[other.path] = image.sha)
=============================================================================
