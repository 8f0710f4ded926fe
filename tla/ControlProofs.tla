---------------------------- MODULE ControlProofs ----------------------------
(***************************************************************************)
(* Proofs about ControlPlane: the types, the pipeline that follows the     *)
(* configuration file, the run and the analyses of the source links; for   *)
(* all requests, patches, workers and faults.                              *)
(***************************************************************************)
EXTENDS ControlPlane, SequenceTheorems, TLAPS

-----------------------------------------------------------------------------
(* Configurations and strategies.                                          *)

\* A file that is loaded is a configuration and looks for the same tokens.
LEMMA ExpandTypes ==
    ASSUME NEW c \in Configs
    PROVE  Expand(c) \in Configs /\ Effective(Expand(c)) = Effective(c)
<1>1. \A l \in Links : SourceOf(l) \in Sources
  BY DEF SourceOf, Links, Sources, Kinds
<1>2. {SourceOf(l) : l \in c.links} \subseteq Sources
  BY <1>1 DEF Configs
<1>3. QED
  BY <1>2 DEF Expand, Configs, Effective

\* The lists a patch works on and the domain profiles name all the configuration
\* looks for; the lists may name more.
Sound(g) == Effective(g.config) \subseteq g.listed \cup g.config.profile

SoundGens == {g \in Generations : Sound(g)}

\* What the text of a request makes is a configuration.
LEMMA TextTypes ==
    ASSUME NEW request \in Requests, NEW base \in Configs
    PROVE  TextConfig(request, base) \in Configs
<1> DEFINE sources == News(request.tokens \ Keywords)
                        \cup {[url |-> l.url, kind |-> "page"] : l \in request.links}
<1>1. sources \subseteq Sources
  BY DEF Requests, News, Sources, Links, Places, Kinds
<1> HIDE DEF sources
<1>2. \A s \in sources : [url |-> s.url, type |-> "auto"] \in Links
  BY <1>1 DEF Links, Sources
<1>3. {[url |-> s.url, type |-> "auto"] : s \in sources} \subseteq Links
  BY <1>2
<1>4. TextConfig(request, base) =
        [named |-> Named(request), profile |-> Named(request),
         links |-> {[url |-> s.url, type |-> "auto"] : s \in sources},
         sources |-> sources, carried |-> base.carried, styled |-> 0]
  BY DEF TextConfig, sources
<1>5. Named(request) \subseteq Tokens
  BY StrategyRulesAssumption DEF Named, Requests
<1>6. QED
  BY <1>1, <1>3, <1>4, <1>5 DEF Configs, Requests

\* A request makes a sound strategy.
LEMMA GenerateTypes ==
    ASSUME NEW request \in Requests, NEW base \in Configs
    PROVE  Generate(request, base) \in SoundGens
<1>1. [request EXCEPT !.links = {}] \in Requests
  BY DEF Requests
<1>2. Config(request, base) \in Configs
  BY <1>1, TextTypes DEF Config, FormConfig, Configs, Requests
<1>3. Config(request, base).named = Config(request, base).profile
  BY <1>1, TextTypes DEF Config, FormConfig, TextConfig, Configs, Requests
<1>4. UiLinks(request, Config(request, base)) \subseteq Places
  BY <1>2 DEF UiLinks, UrlsOf, Requests, Configs, Links
<1>5. Listed(request) \subseteq Tokens /\ Queried(request) \subseteq Tokens
  BY StrategyRulesAssumption DEF Listed, Queried, Requests
<1>6. Generate(request, base) \in Generations
  BY <1>2, <1>4, <1>5 DEF Generate, Generations, Requests
<1>7. QED
  BY <1>3, <1>5, <1>6 DEF Generate, SoundGens, Sound, Effective

\* The resolved links of a strategy leave it sound.
LEMMA ResolvedTypes ==
    ASSUME NEW g \in SoundGens, NEW urls, NEW advised \in [urls -> Links]
    PROVE  Resolved(g, advised) \in SoundGens
<1> DEFINE links == {IF l.url \in DOMAIN advised THEN Resolve(l, advised[l.url]) ELSE l :
                        l \in g.config.links}
<1>1. links \subseteq Links
  BY DEF Resolve, Links, SoundGens, Generations, Configs
<1>2. UrlsOf(links) \subseteq Places
  BY <1>1 DEF UrlsOf, Links
<1> HIDE DEF links
<1>3. Resolved(g, advised) = [g EXCEPT !.config.links = links, !.uiLinks = UrlsOf(links)]
  BY DEF Resolved, links
<1>4. QED
  BY <1>1, <1>2, <1>3 DEF SoundGens, Generations, Configs, Sound, Effective

\* A patched strategy is sound; it looks for all it looked for but what the patch
\* takes out, and for nothing more than the patch puts in and the lists name.
LEMMA PatchTypes ==
    ASSUME NEW g \in SoundGens, NEW p \in Patches
    PROVE  /\ ApplyPatch(g, p) \in SoundGens
           /\ Effective(g.config) \ Effective(ApplyPatch(g, p).config) \subseteq p.out
           /\ Effective(ApplyPatch(g, p).config) \ Effective(g.config) \subseteq p.in \cup g.listed
<1> DEFINE listed == Patched(g.listed, p)
           queries == SyncedQueries(g, p, listed)
<1>1. listed \subseteq Tokens /\ queries \subseteq Tokens
  BY DEF Patched, SyncedQueries, SoundGens, Generations, Patches
<1>2. SyncedSources(g, queries) \subseteq Sources
  BY <1>1 DEF SyncedSources, News, SoundGens, Generations, Configs, Sources, Places, Kinds
<1>3. ApplyPatch(g, p) = [g EXCEPT !.listed = listed, !.queries = queries,
                                   !.config.named = listed,
                                   !.config.sources = SyncedSources(g, queries)]
  BY DEF ApplyPatch
<1>4. g.listed \ listed \subseteq p.out /\ listed \subseteq p.in \cup g.listed
  BY DEF Patched
<1> DEFINE config == [g.config EXCEPT !.named = listed, !.sources = SyncedSources(g, queries)]
<1> HIDE DEF listed, queries
<1>5. config \in Configs
  BY <1>1, <1>2 DEF SoundGens, Generations, Configs
<1>6. ApplyPatch(g, p) = [g EXCEPT !.listed = listed, !.queries = queries, !.config = config]
  BY <1>3 DEF SoundGens, Generations, Configs
<1>7. /\ ApplyPatch(g, p) \in Generations
      /\ ApplyPatch(g, p).listed = listed /\ ApplyPatch(g, p).config.named = listed
      /\ ApplyPatch(g, p).config.profile = g.config.profile
  BY <1>1, <1>5, <1>6 DEF SoundGens, Generations, Configs
<1>8. g.config.named \cup g.config.profile \subseteq g.listed \cup g.config.profile
  BY DEF SoundGens, Sound, Effective
<1>9. QED
  BY <1>4, <1>7, <1>8 DEF SoundGens, Sound, Effective

\* What the panel writes is a configuration.
LEMMA PanelTypes ==
    ASSUME NEW c \in Configs, NEW edit \in Nat
    PROVE  PanelConfig(c, edit) \in Configs /\ SectionsSaved(c, edit) \in Configs
BY DEF PanelConfig, SectionsSaved, Configs
-----------------------------------------------------------------------------
(* Steps.                                                                  *)

Asks(w) == AskToGenerate(w) \/ AskForAdvice(w) \/ AskToPatch(w) \/ AskToDeploy(w) \/ OpenForm(w)

\* A step that saves no file and replaces no part of the pipeline.
Works(w) == AdviceTaken(w) \/ LinksResolved(w) \/ LoadState(w) \/ LoadHistory(w)
            \/ RefuseToOverwrite(w) \/ WriteElsewhere(w) \/ Reload(w) \/ CallFails(w)

Panel(w) == SaveSections(w) \/ SaveRoot(w)

SetsPart(w) == SetConfig(w) \/ SetIngestion(w) \/ SetEngines(w)

RunSteps == RunBegin \/ RunRefreshed \/ RunRefreshFails \/ RunIngest \/ RunAnalyse

\* The steps.
LEMMA ControlSteps ==
    ASSUME [Next]_vars
    PROVE  \/ \E w \in Workers : Asks(w) \/ Works(w) \/ Panel(w) \/ SetsPart(w)
                                 \/ SaveState(w) \/ SaveHistory(w) \/ WriteFile(w)
           \/ RunSteps \/ Restart \/ TimePasses \/ UNCHANGED vars
BY DEF Next, Request, Submit, Step, RunStep, Asks, Works, Panel, SetsPart, RunSteps

\* What a call may hold at its stage.
Fits(stage, call, updates) ==
    /\ stage = "built" => call.kind \in {"draft", "replace", "patch", "amend", "current"}
    /\ (stage \in {"diagnose", "built"} /\ call.kind \in {"draft", "replace"}) => call.gen \in SoundGens
    /\ (stage = "built" /\ call.kind \in {"patch", "amend"}) => call.patch \in PatchWith
    /\ stage = "computed" => call.state \in States /\ Sound(call.state.gen)
    /\ stage \in {"set_ingestion", "set_engines"} => call.stamp \in updates

JobOK(w) == Fits(pc[w], job[w], DOMAIN applied)

\* The files, the pipeline and the calls are well formed.
DiskOK == /\ state \in States \cup {NoState} /\ (state # NoState => Sound(state.gen))
          /\ history \in Seq(Rows) /\ file \in Configs /\ edits \in Nat
PipelineOK == applied \in Seq(Configs) /\ live \in [Parts -> DOMAIN applied]
CallsOK == /\ pc \in [Workers -> Stages] /\ job \in [Workers -> Jobs]
           /\ \A w \in Workers : JobOK(w)
CoreOK == DiskOK /\ PipelineOK /\ CallsOK

\* The steps leave the files alone, but for the saves and restarts.
LEMMA DiskFrame ==
    ASSUME [Next]_vars
    PROVE  \/ UNCHANGED disk
           \/ \E w \in Workers : SaveState(w) \/ SaveHistory(w) \/ WriteFile(w) \/ Panel(w)
           \/ Restart
<1> USE DEF CallFrame
<1>1. ASSUME NEW w \in Workers, Asks(w)
      PROVE  UNCHANGED disk
  BY <1>1 DEF Asks, AskToGenerate, AskForAdvice, AskToPatch, AskToDeploy, Build, OpenForm
<1>2. ASSUME NEW w \in Workers, Works(w)
      PROVE  UNCHANGED disk
  BY <1>2 DEF Works, AdviceTaken, LinksResolved, LoadState, LoadHistory, RefuseToOverwrite, WriteElsewhere, Reload, CallFails
<1>3. ASSUME NEW w \in Workers, SetsPart(w)
      PROVE  UNCHANGED disk
  BY <1>3 DEF SetsPart, SetConfig, SetIngestion, SetEngines
<1>4. CASE RunSteps \/ TimePasses \/ UNCHANGED vars
  BY <1>4 DEF RunSteps, RunBegin, RunRefreshed, RunRefreshFails, RunIngest, RunAnalyse, TimePasses, vars
<1>5. QED
  BY <1>1, <1>2, <1>3, <1>4, ControlSteps

\* The steps leave the pipeline alone, but for the updates and restarts.
LEMMA PipelineFrame ==
    ASSUME [Next]_vars
    PROVE  UNCHANGED pipeline \/ (\E w \in Workers : SetsPart(w)) \/ Restart
<1> USE DEF CallFrame
<1>1. ASSUME NEW w \in Workers, Asks(w)
      PROVE  UNCHANGED pipeline
  BY <1>1 DEF Asks, AskToGenerate, AskForAdvice, AskToPatch, AskToDeploy, Build, OpenForm
<1>2. ASSUME NEW w \in Workers, Works(w)
      PROVE  UNCHANGED pipeline
  BY <1>2 DEF Works, AdviceTaken, LinksResolved, LoadState, LoadHistory, RefuseToOverwrite, WriteElsewhere, Reload, CallFails
<1>3. ASSUME NEW w \in Workers, SaveState(w) \/ SaveHistory(w) \/ WriteFile(w) \/ Panel(w)
      PROVE  UNCHANGED pipeline
  BY <1>3 DEF SaveState, SaveHistory, WriteFile, Panel, SaveSections, SaveRoot
<1>4. CASE RunSteps \/ TimePasses \/ UNCHANGED vars
  BY <1>4 DEF RunSteps, RunBegin, RunRefreshed, RunRefreshFails, RunIngest, RunAnalyse, TimePasses, vars
<1>5. QED
  BY <1>1, <1>2, <1>3, <1>4, ControlSteps

-----------------------------------------------------------------------------
(* Types.                                                                  *)

\* An update appends a configuration and names it, or names one there is.
LEMMA PipelineNext == CoreOK /\ [Next]_vars => PipelineOK'
<1> SUFFICES ASSUME CoreOK, [Next]_vars
             PROVE  PipelineOK'
  OBVIOUS
<1> USE DEF CoreOK, PipelineOK
<1>0. DOMAIN applied = 1..Len(applied) /\ Len(applied) \in Nat
  BY LenProperties
<1>1. ASSUME NEW c \in Configs, applied' = Append(applied, c)
      PROVE  applied' \in Seq(Configs) /\ DOMAIN applied' = 1..(Len(applied) + 1)
  BY <1>0, <1>1, AppendProperties, LenProperties
<1>2. CASE UNCHANGED pipeline
  BY <1>2 DEF pipeline
<1>3. ASSUME NEW w \in Workers, SetConfig(w)
      PROVE  PipelineOK'
  <2>1. job[w].config \in Configs /\ applied' = Append(applied, job[w].config)
    BY <1>3 DEF SetConfig, CallsOK, Jobs
  <2>2. live' = [live EXCEPT !["config"] = Len(applied) + 1]
    BY <1>3 DEF SetConfig, SetPart
  <2>3. applied' \in Seq(Configs) /\ DOMAIN applied' = 1..(Len(applied) + 1)
    BY <1>1, <2>1
  <2>4. live' \in [Parts -> 1..(Len(applied) + 1)]
    <3>1. \A part \in Parts : live[part] \in 1..(Len(applied) + 1)
      BY <1>0
    <3>2. Len(applied) + 1 \in 1..(Len(applied) + 1)
      BY <1>0
    <3>3. live \in [Parts -> 1..(Len(applied) + 1)]
      BY <3>1
    <3>4. QED
      BY <2>2, <3>2, <3>3
  <2>5. QED
    BY <2>3, <2>4
<1>4. ASSUME NEW w \in Workers, SetIngestion(w) \/ SetEngines(w)
      PROVE  PipelineOK'
  <2>1. /\ applied' = applied /\ job[w].stamp \in DOMAIN applied
        /\ \E part \in Parts : live' = [live EXCEPT ![part] = job[w].stamp]
    BY <1>4 DEF SetIngestion, SetEngines, SetPart, CallsOK, JobOK, Fits, Parts
  <2>2. QED
    BY <2>1
<1>5. CASE Restart
  <2>1. applied' = Append(applied, Expand(file)) /\ Expand(file) \in Configs
    BY <1>5, ExpandTypes DEF Restart, DiskOK
  <2>2. live' = [part \in Parts |-> Len(applied) + 1]
    BY <1>5 DEF Restart
  <2>3. QED
    BY <1>0, <1>1, <2>1, <2>2
<1>6. QED
  BY <1>2, <1>3, <1>4, <1>5, PipelineFrame DEF SetsPart

\* The configurations a run or a call finds are well formed.
LEMMA BaseTypes ==
    ASSUME PipelineOK
    PROVE  Base \in Configs
BY ElementOfSeq, LenProperties DEF PipelineOK, Base, Parts

\* The saves keep the files well formed.
LEMMA DiskNext == CoreOK /\ [Next]_vars => DiskOK'
<1> SUFFICES ASSUME CoreOK, [Next]_vars
             PROVE  DiskOK'
  OBVIOUS
<1> USE DEF CoreOK, DiskOK
<1>0. edits' = edits \/ edits' = edits + 1
  <2> USE DEF CallFrame
  <2>1. ASSUME NEW w \in Workers, Asks(w)
        PROVE  edits' = edits \/ edits' = edits + 1
    BY <2>1 DEF Asks, AskToGenerate, AskForAdvice, AskToPatch, AskToDeploy, Build, OpenForm
  <2>2. ASSUME NEW w \in Workers, Works(w)
        PROVE  edits' = edits
    BY <2>2 DEF Works, AdviceTaken, LinksResolved, LoadState, LoadHistory, RefuseToOverwrite, WriteElsewhere, Reload, CallFails
  <2>3. ASSUME NEW w \in Workers, SaveState(w) \/ SaveHistory(w) \/ WriteFile(w) \/ Panel(w) \/ SetsPart(w)
        PROVE  edits' = edits
    BY <2>3 DEF SaveState, SaveHistory, WriteFile, Panel, SaveSections, SaveRoot, SetsPart, SetConfig,
                SetIngestion, SetEngines
  <2>4. CASE RunSteps \/ Restart \/ TimePasses \/ UNCHANGED vars
    BY <2>4 DEF RunSteps, RunBegin, RunRefreshed, RunRefreshFails, RunIngest, RunAnalyse, Restart,
                TimePasses, vars
  <2>5. QED
    BY <2>1, <2>2, <2>3, <2>4, ControlSteps
<1>1. CASE UNCHANGED disk
  BY <1>0, <1>1 DEF disk
<1>2. ASSUME NEW w \in Workers, SaveState(w)
      PROVE  DiskOK'
  BY <1>0, <1>2 DEF SaveState, CallsOK, JobOK, Fits
<1>3. ASSUME NEW w \in Workers, SaveHistory(w)
      PROVE  DiskOK'
  BY <1>0, <1>3 DEF SaveHistory, CallsOK, Jobs
<1>4. ASSUME NEW w \in Workers, WriteFile(w)
      PROVE  DiskOK'
  BY <1>0, <1>4 DEF WriteFile, CallsOK, Jobs
<1>5. ASSUME NEW w \in Workers, Panel(w)
      PROVE  DiskOK'
  <2>1. job[w].config \in Configs /\ job[w].stamp \in Nat
    BY DEF CallsOK, Jobs
  <2>2. file' \in Configs
    BY <1>5, <2>1, PanelTypes DEF Panel, SaveSections, SaveRoot
  <2>3. QED
    BY <1>0, <1>5, <2>2 DEF Panel, SaveSections, SaveRoot
<1>6. CASE Restart
  <2>1. UNCHANGED <<file, edits>>
    BY <1>6 DEF Restart
  <2>2. state' \in {state, NoState} /\ history' \in {history, <<>>}
    BY <1>6 DEF Restart, CrashFile
  <2>3. <<>> \in Seq(Rows)
    OBVIOUS
  <2>4. /\ state' \in States \cup {NoState} /\ (state' # NoState => Sound(state'.gen))
        /\ history' \in Seq(Rows)
    BY <2>2, <2>3
  <2>5. QED
    BY <2>1, <2>4
<1>7. QED
  BY <1>1, <1>2, <1>3, <1>4, <1>5, <1>6, DiskFrame
\* No update is lost from the list.
LEMMA AppliedGrows ==
    ASSUME CoreOK, [Next]_vars
    PROVE  /\ DOMAIN applied \subseteq DOMAIN applied'
           /\ \A i \in DOMAIN applied : applied'[i] = applied[i]
<1>1. ASSUME NEW c \in Configs, applied' = Append(applied, c)
      PROVE  /\ DOMAIN applied \subseteq DOMAIN applied'
             /\ \A i \in DOMAIN applied : applied'[i] = applied[i]
  <2>1. applied \in Seq(Configs)
    BY DEF CoreOK, PipelineOK
  <2>2. /\ DOMAIN applied = 1..Len(applied) /\ DOMAIN applied' = 1..(Len(applied) + 1)
        /\ Len(applied) \in Nat
    BY <1>1, <2>1, AppendProperties, LenProperties
  <2>3. \A i \in 1..Len(applied) : applied'[i] = applied[i]
    BY <1>1, <2>1
  <2>4. QED
    BY <2>2, <2>3
<1>2. CASE UNCHANGED applied
  BY <1>2
<1>3. \A w \in Workers : job[w].config \in Configs
  BY DEF CoreOK, CallsOK, Jobs
<1>4. Expand(file) \in Configs
  BY ExpandTypes DEF CoreOK, DiskOK
<1>5. QED
  BY <1>1, <1>2, <1>3, <1>4, PipelineFrame DEF pipeline, SetsPart, SetConfig, SetIngestion, SetEngines, Restart

\* No job is a job.
LEMMA NoJobTypes == NoJob \in Jobs
BY ControlAssumption DEF NoJob, Jobs

\* A call goes on, and the others stay.
LEMMA CallMoves ==
    ASSUME CallsOK, NEW w \in Workers, NEW stage \in Stages, NEW call \in Jobs,
           pc' = [pc EXCEPT ![w] = stage], job' = [job EXCEPT ![w] = call],
           DOMAIN applied \subseteq DOMAIN applied',
           Fits(stage, call, DOMAIN applied')
    PROVE  CallsOK'
<1>1. pc' \in [Workers -> Stages] /\ job' \in [Workers -> Jobs]
  BY DEF CallsOK
<1>2. pc'[w] = stage /\ job'[w] = call
  BY DEF CallsOK
<1>3. \A v \in Workers : v # w => pc'[v] = pc[v] /\ job'[v] = job[v]
  BY DEF CallsOK
<1>4. \A v \in Workers : JobOK(v)'
  BY <1>2, <1>3 DEF CallsOK, JobOK, Fits
<1>5. QED
  BY <1>1, <1>4 DEF CallsOK

\* A call that begins is well formed.
LEMMA AsksTypes ==
    ASSUME CoreOK, NEW w \in Workers, Asks(w), DOMAIN applied \subseteq DOMAIN applied'
    PROVE  CallsOK'
<1> USE NoJobTypes, ControlAssumption
<1>1. Base \in Configs /\ CallsOK
  BY BaseTypes DEF CoreOK
<1>2. ASSUME NEW call \in Jobs, NEW stage \in Stages, Begin(w, call, stage), Fits(stage, call, DOMAIN applied')
      PROVE  CallsOK'
  BY <1>1, <1>2, CallMoves DEF Begin, Go
<1>3. ASSUME NEW kind \in {"draft", "replace"}, Build(w, kind)
      PROVE  CallsOK'
  <2>1. PICK request \in AskFor : \E stage \in {"built", "diagnose"} :
             Begin(w, [NoJob EXCEPT !.kind = kind, !.gen = Generate(request, Base)], stage)
    BY <1>3 DEF Build
  <2>2. Generate(request, Base) \in SoundGens
    BY <1>1, GenerateTypes
  <2>3. [NoJob EXCEPT !.kind = kind, !.gen = Generate(request, Base)] \in Jobs
    BY <2>2 DEF NoJob, Jobs, SoundGens, Kinds3
  <2>4. QED
    BY <1>2, <2>1, <2>2, <2>3 DEF Fits, Stages, NoJob
<1>4. CASE AskForAdvice(w)
  <2>1. [NoJob EXCEPT !.kind = "suggest"] \in Jobs
    BY DEF NoJob, Jobs, Kinds3
  <2>2. QED
    BY <1>2, <1>4, <2>1 DEF AskForAdvice, Fits, Stages, NoJob
<1>5. CASE AskToPatch(w)
  <2>1. PICK p \in PatchWith : Begin(w, [NoJob EXCEPT !.kind = "patch", !.patch = p], "built")
    BY <1>5 DEF AskToPatch
  <2>2. [NoJob EXCEPT !.kind = "patch", !.patch = p] \in Jobs
    BY DEF NoJob, Jobs, Kinds3
  <2>3. QED
    BY <1>2, <2>1, <2>2 DEF Fits, Stages, NoJob
<1>6. CASE AskToDeploy(w)
  <2>1. CASE Build(w, "replace")
    BY <1>3, <2>1
  <2>2. ASSUME NEW p \in PatchWith, Begin(w, [NoJob EXCEPT !.kind = "amend", !.patch = p], "built")
        PROVE  CallsOK'
    <3>1. [NoJob EXCEPT !.kind = "amend", !.patch = p] \in Jobs
      BY DEF NoJob, Jobs, Kinds3
    <3>2. QED
      BY <1>2, <2>2, <3>1 DEF Fits, Stages, NoJob
  <2>3. CASE Begin(w, [NoJob EXCEPT !.kind = "current"], "built")
    <3>1. [NoJob EXCEPT !.kind = "current"] \in Jobs
      BY DEF NoJob, Jobs, Kinds3
    <3>2. QED
      BY <1>2, <2>3, <3>1 DEF Fits, Stages, NoJob
  <2>4. QED
    BY <1>6, <2>1, <2>2, <2>3 DEF AskToDeploy
<1>7. CASE OpenForm(w)
  <2>1. edits' \in Nat /\ file \in Configs
    BY <1>7 DEF OpenForm, CoreOK, DiskOK
  <2>2. [NoJob EXCEPT !.kind = "panel", !.config = file, !.stamp = edits'] \in Jobs
    BY <2>1 DEF NoJob, Jobs, Kinds3
  <2>3. QED
    BY <1>2, <1>7, <2>2 DEF OpenForm, Fits, Stages, NoJob
<1>8. QED
  BY <1>3, <1>4, <1>5, <1>6, <1>7 DEF Asks, AskToGenerate

\* What a call makes of the state it has loaded is a sound state.
LEMMA NewStateTypes ==
    ASSUME NEW call \in Jobs, NEW updates, Fits("built", call, updates),
           NEW seen \in States \cup {NoState}, seen # NoState => Sound(seen.gen),
           Accepted(call, seen)
    PROVE  /\ NewState(call, seen) \in States /\ Sound(NewState(call, seen).gen)
           /\ Target(call, NewState(call, seen)) \in Configs
           /\ NewState(call, seen).version \in
                (IF MakesVersion(call, seen) THEN {NextVersion(seen)} ELSE {seen.version})
           /\ MakesVersion(call, seen) \/ seen # NoState
<1>1. call.kind \in {"draft", "replace"} => call.gen \in SoundGens
  BY DEF Fits
<1>2. call.kind \in {"patch", "amend"} => call.patch \in Patches
  BY ControlAssumption DEF Fits
<1>3. call.kind \in {"patch", "amend", "current"} => seen # NoState
  BY DEF Accepted
<1>4. seen # NoState => /\ seen.version \in Nat /\ seen.deployed \in Nat /\ seen.gen \in SoundGens
                        /\ seen.gen \in Generations
  BY DEF States, SoundGens
<1>5. MakesVersion(call, seen) \/ seen # NoState
  BY <1>3 DEF MakesVersion, SameConfig, Fits
<1>6. NewGen(call, seen) \in SoundGens
  <2>1. CASE call.kind = "draft"
    BY <1>1, <2>1 DEF NewGen
  <2>2. CASE call.kind = "replace"
    BY <1>1, <1>4, <2>2 DEF NewGen, SameConfig
  <2>3. CASE call.kind \in {"patch", "amend"}
    BY <1>2, <1>3, <1>4, <2>3, PatchTypes DEF NewGen
  <2>4. CASE call.kind = "current"
    BY <1>3, <1>4, <2>4 DEF NewGen
  <2>5. QED
    BY <2>1, <2>2, <2>3, <2>4 DEF Fits
<1>7. NextVersion(seen) \in Nat /\ DeployedOf(seen) \in Nat
  BY <1>4 DEF NextVersion, DeployedOf
<1>8. NewState(call, seen) \in States /\ Sound(NewState(call, seen).gen)
  BY <1>4, <1>5, <1>6, <1>7 DEF NewState, States, SoundGens
<1>9. Target(call, NewState(call, seen)) \in Configs
  BY <1>1, <1>8 DEF Target, States, Generations, SoundGens
<1>10. QED
  BY <1>5, <1>8, <1>9 DEF NewState
\* A call that loads the state is well formed.
LEMMA LoadTypes ==
    ASSUME CoreOK, NEW w \in Workers, LoadState(w), DOMAIN applied \subseteq DOMAIN applied'
    PROVE  CallsOK'
<1>1. PICK seen \in States \cup {NoState} :
         /\ seen # NoState => Sound(seen.gen)
         /\ IF Accepted(job[w], seen)
            THEN LET next == NewState(job[w], seen) IN
                 /\ pc' = [pc EXCEPT ![w] = "computed"]
                 /\ job' = [job EXCEPT ![w] =
                       [NoJob EXCEPT !.kind = job[w].kind, !.state = next,
                                     !.config = IF Deploys(job[w]) THEN Target(job[w], next) ELSE Initial,
                                     !.rows = IF MakesVersion(job[w], seen)
                                              THEN <<[version |-> next.version, config |-> next.gen.config]>>
                                              ELSE <<>>]]
            ELSE EndCall(w)
  BY DEF LoadState, Go, CoreOK, DiskOK
<1>2. job[w] \in Jobs /\ Fits("built", job[w], DOMAIN applied) /\ CallsOK
  BY DEF CoreOK, CallsOK, JobOK, LoadState
<1>3. CASE ~Accepted(job[w], seen)
  <2>1. EndCall(w)
    BY <1>1, <1>3
  <2>2. QED
    BY <1>2, <2>1, CallMoves, NoJobTypes DEF EndCall, Go, Fits, Stages
<1>4. CASE Accepted(job[w], seen)
  <2> DEFINE next == NewState(job[w], seen)
             rows == IF MakesVersion(job[w], seen)
                     THEN <<[version |-> next.version, config |-> next.gen.config]>> ELSE <<>>
             config == IF Deploys(job[w]) THEN Target(job[w], next) ELSE Initial
             call == [NoJob EXCEPT !.kind = job[w].kind, !.state = next, !.config = config, !.rows = rows]
  <2>1. next \in States /\ Sound(next.gen) /\ Target(job[w], next) \in Configs
    BY <1>1, <1>2, <1>4, NewStateTypes
  <2>2. config \in Configs
    BY <2>1, ControlAssumption
  <2>3. rows \in Seq(Rows)
    <3>1. [version |-> next.version, config |-> next.gen.config] \in Rows
      BY <2>1 DEF Rows, States, Generations
    <3> HIDE DEF next
    <3>2. QED
      BY <3>1
  <2>4. /\ pc' = [pc EXCEPT ![w] = "computed"]
        /\ job' = [job EXCEPT ![w] = call]
    BY <1>1, <1>4
  <2> HIDE DEF next, rows, config
  <2>5. call \in Jobs /\ call.state = next
    BY <1>2, <2>1, <2>2, <2>3, NoJobTypes DEF Jobs
  <2> HIDE DEF call
  <2>6. QED
    BY <1>2, <2>1, <2>4, <2>5, CallMoves DEF Fits, Stages
<1>5. QED
  BY <1>3, <1>4

\* The other steps keep the calls well formed.
LEMMA CallsNext == CoreOK /\ [Next]_vars => CallsOK'
<1> SUFFICES ASSUME CoreOK, [Next]_vars
             PROVE  CallsOK'
  OBVIOUS
<1>0. DOMAIN applied \subseteq DOMAIN applied' /\ CallsOK
  BY AppliedGrows DEF CoreOK
<1>1. ASSUME UNCHANGED callVars
      PROVE  CallsOK'
  <2>1. \A w \in Workers : JobOK(w)'
    BY <1>0, <1>1 DEF callVars, CallsOK, JobOK, Fits
  <2>2. QED
    BY <1>0, <1>1, <2>1 DEF callVars, CallsOK
<1>2. ASSUME NEW w \in Workers, NEW stage \in Stages, NEW call \in Jobs,
             pc' = [pc EXCEPT ![w] = stage], job' = [job EXCEPT ![w] = call],
             Fits(stage, call, DOMAIN applied')
      PROVE  CallsOK'
  BY <1>0, <1>2, CallMoves
<1>3. ASSUME NEW w \in Workers, EndCall(w)
      PROVE  CallsOK'
  BY <1>2, <1>3, NoJobTypes DEF EndCall, Go, Fits, Stages
<1>4. ASSUME NEW w \in Workers
      PROVE  job[w] \in Jobs /\ JobOK(w) /\ job[w] = [job[w] EXCEPT !.kind = job[w].kind]
             /\ job = [job EXCEPT ![w] = job[w]]
  BY <1>0 DEF CallsOK, Jobs
<1>5. ASSUME NEW w \in Workers, Works(w)
      PROVE  CallsOK'
  <2>1. CASE AdviceTaken(w) \/ RefuseToOverwrite(w) \/ CallFails(w)
    BY <1>3, <2>1 DEF AdviceTaken, RefuseToOverwrite, WriteElsewhere, CallFails
  <2>2. CASE LinksResolved(w)
    <3>1. PICK advised : /\ advised \in [asked[w] -> Links]
                         /\ job' = [job EXCEPT ![w] = [job[w] EXCEPT !.gen = Resolved(job[w].gen, advised)]]
      BY <2>2, <1>4 DEF LinksResolved, Advised
    <3>2. Resolved(job[w].gen, advised) \in SoundGens
      BY <1>4, <2>2, <3>1, ResolvedTypes DEF LinksResolved, JobOK, Fits
    <3>3. [job[w] EXCEPT !.gen = Resolved(job[w].gen, advised)] \in Jobs
      BY <1>4, <3>2 DEF Jobs, SoundGens
    <3>4. job[w].kind \in {"draft", "replace"}
      BY <2>2 DEF LinksResolved
    <3>5. pc' = [pc EXCEPT ![w] = "built"]
      BY <2>2 DEF LinksResolved, Go
    <3>6. Fits("built", [job[w] EXCEPT !.gen = Resolved(job[w].gen, advised)], DOMAIN applied')
      BY <1>4, <3>2, <3>4 DEF Fits, Jobs
    <3>7. QED
      BY <1>2, <3>1, <3>3, <3>5, <3>6 DEF Stages
  <2>3. CASE LoadState(w)
    BY <1>0, <2>3, LoadTypes
  <2>4. CASE LoadHistory(w)
    <3>1. PICK rows \in {history, <<>>} :
             job' = [job EXCEPT ![w] = [job[w] EXCEPT !.rows = rows \o job[w].rows]]
      BY <2>4, <1>4 DEF LoadHistory
    <3>2. rows \o job[w].rows \in Seq(Rows)
      <4>1. job[w].rows \in Seq(Rows)
        BY <1>4 DEF Jobs
      <4>2. rows \in Seq(Rows)
        <5>1. history \in Seq(Rows) /\ <<>> \in Seq(Rows)
          BY DEF CoreOK, DiskOK
        <5>2. QED
          BY <3>1, <5>1
      <4>3. QED
        BY <4>1, <4>2, ConcatProperties
    <3>3. [job[w] EXCEPT !.rows = rows \o job[w].rows] \in Jobs
      BY <1>4, <3>2 DEF Jobs
    <3>4. pc' = [pc EXCEPT ![w] = "rows"]
      BY <2>4 DEF LoadHistory, Go
    <3>5. QED
      BY <1>2, <3>1, <3>3, <3>4 DEF Fits, Stages
  <2>5. CASE Reload(w)
    <3>1. job' = [job EXCEPT ![w] = [job[w] EXCEPT !.config = Expand(file), !.stamp = 0]]
      BY <2>5, <1>4 DEF Reload
    <3>2. Expand(file) \in Configs
      BY ExpandTypes DEF CoreOK, DiskOK
    <3>3. [job[w] EXCEPT !.config = Expand(file), !.stamp = 0] \in Jobs
      BY <1>4, <3>2 DEF Jobs
    <3>4. pc' = [pc EXCEPT ![w] = "set_config"]
      BY <2>5 DEF Reload, Go
    <3>5. QED
      BY <1>2, <3>1, <3>3, <3>4 DEF Fits, Stages
  <2>6. CASE WriteElsewhere(w)
    <3>1. job' = [job EXCEPT ![w] = [job[w] EXCEPT !.away = TRUE]]
      BY <2>6, <1>4 DEF WriteElsewhere
    <3>2. [job[w] EXCEPT !.away = TRUE] \in Jobs
      BY <1>4 DEF Jobs
    <3>3. pc' = [pc EXCEPT ![w] = "set_config"]
      BY <2>6 DEF WriteElsewhere, Go
    <3>4. QED
      BY <1>2, <3>1, <3>2, <3>3 DEF Fits, Stages
  <2>7. QED
    BY <1>5, <2>1, <2>2, <2>3, <2>4, <2>5, <2>6 DEF Works
<1>6. ASSUME NEW w \in Workers, SaveState(w)
      PROVE  CallsOK'
  <2>1. CASE EndCall(w)
    BY <1>3, <2>1
  <2>2. CASE Go(w, AfterState(job[w])) /\ UNCHANGED job
    BY <1>2, <1>4, <2>2 DEF Go, AfterState, Fits, Stages
  <2>3. QED
    BY <1>6, <2>1, <2>2 DEF SaveState
<1>7. ASSUME NEW w \in Workers, SaveHistory(w)
      PROVE  CallsOK'
  <2>1. CASE EndCall(w)
    BY <1>3, <2>1
  <2>2. CASE Go(w, "write") /\ job' = [job EXCEPT ![w].rows = <<>>]
    <3>1. job' = [job EXCEPT ![w] = [job[w] EXCEPT !.rows = <<>>]]
      BY <1>4, <2>2
    <3>2. [job[w] EXCEPT !.rows = <<>>] \in Jobs
      <4>1. <<>> \in Seq(Rows)
        OBVIOUS
      <4>2. QED
        BY <1>4, <4>1 DEF Jobs
    <3>3. QED
      BY <1>2, <2>2, <3>1, <3>2 DEF Go, Fits, Stages
  <2>3. QED
    BY <1>7, <2>1, <2>2 DEF SaveHistory
<1>8. ASSUME NEW w \in Workers, WriteFile(w) \/ Panel(w)
      PROVE  CallsOK'
  <2>1. job' = job
    BY <1>8 DEF WriteFile, Panel, SaveSections, SaveRoot
  <2>2. PICK stage \in {"set_config", "sections", "reload"} : pc' = [pc EXCEPT ![w] = stage]
    BY <1>8 DEF WriteFile, Panel, SaveSections, SaveRoot, Go
  <2>3. job' = [job EXCEPT ![w] = job[w]] /\ job[w] \in Jobs
    BY <1>4, <2>1
  <2>4. stage \in Stages /\ Fits(stage, job[w], DOMAIN applied')
    BY DEF Fits, Stages
  <2>5. QED
    BY <1>2, <2>2, <2>3, <2>4
<1>9. ASSUME NEW w \in Workers, SetsPart(w)
      PROVE  CallsOK'
  <2>1. CASE SetConfig(w)
    <3> DEFINE call == [NoJob EXCEPT !.kind = job[w].kind, !.stamp = Len(applied) + 1,
                                    !.away = job[w].away]
    <3>1. /\ job' = [job EXCEPT ![w] = call]
          /\ pc' = [pc EXCEPT ![w] = "set_ingestion"]
          /\ applied' = Append(applied, job[w].config)
      BY <2>1 DEF SetConfig, Go
    <3>2. applied \in Seq(Configs) /\ job[w].config \in Configs
      BY <1>4 DEF CoreOK, PipelineOK, Jobs
    <3>3. Len(applied) \in Nat /\ Len(applied) + 1 \in DOMAIN applied'
      BY <3>1, <3>2, AppendProperties, LenProperties
    <3>4. call \in Jobs
      <4>1. job[w].kind \in Kinds3 \cup {"none"} /\ job[w].away \in BOOLEAN
        BY <1>4 DEF Jobs
      <4>2. Len(applied) + 1 \in Nat
        BY <3>3
      <4>3. QED
        BY <4>1, <4>2, NoJobTypes DEF Jobs
    <3>5. call.stamp = Len(applied) + 1
      BY DEF NoJob
    <3> HIDE DEF call
    <3>6. QED
      BY <1>2, <3>1, <3>3, <3>4, <3>5 DEF Fits, Stages
  <2>2. CASE SetIngestion(w)
    BY <1>0, <1>2, <1>4, <2>2 DEF SetIngestion, Go, JobOK, Fits, Stages
  <2>3. CASE SetEngines(w)
    BY <1>3, <2>3 DEF SetEngines
  <2>4. QED
    BY <1>9, <2>1, <2>2, <2>3 DEF SetsPart
<1>10. CASE RunSteps \/ TimePasses \/ UNCHANGED vars
  BY <1>1, <1>10 DEF RunSteps, RunBegin, RunRefreshed, RunRefreshFails, RunIngest, RunAnalyse, TimePasses, vars
<1>11. CASE Restart
  BY <1>11, NoJobTypes DEF Restart, CallsOK, JobOK, Fits, Stages
<1>12. QED
  BY <1>0, <1>5, <1>6, <1>7, <1>8, <1>9, <1>10, <1>11, AsksTypes, ControlSteps

\* Initially the files, the pipeline and the calls are well formed.
LEMMA CoreInit == Init => CoreOK
<1> SUFFICES ASSUME Init
             PROVE  CoreOK
  OBVIOUS
<1>1. Expand(Initial) \in Configs /\ Initial \in Configs
  BY ExpandTypes, ControlAssumption
<1>2. DiskOK
  BY <1>1 DEF Init, DiskOK
<1>3. PipelineOK
  <2>1. applied = <<Expand(Initial)>> /\ live = [part \in Parts |-> 1]
    BY DEF Init
  <2>2. applied \in Seq(Configs) /\ 1 \in DOMAIN applied
    BY <1>1, <2>1
  <2>3. QED
    BY <2>1, <2>2 DEF PipelineOK
<1>4. CallsOK
  BY NoJobTypes DEF Init, CallsOK, JobOK, Fits, Stages
<1>5. QED
  BY <1>2, <1>3, <1>4 DEF CoreOK

\* The files, the pipeline and the calls are well formed always.
LEMMA CoreAlways == Spec => []CoreOK
<1>1. CoreOK /\ [Next]_vars => CoreOK'
  BY DiskNext, PipelineNext, CallsNext DEF CoreOK
<1>2. QED
  BY <1>1, CoreInit, PTL DEF Spec
\* What a call has read, and what was lost, are files.
GhostsOK == /\ behind \in [Workers -> SUBSET Files] /\ undone \subseteq Files
            /\ astray \in BOOLEAN /\ unsettled \in BOOLEAN

\* The bookkeeping of readings and saves keeps its types.
LEMMA GhostsNext == GhostsOK /\ [Next]_vars => GhostsOK'
<1> SUFFICES ASSUME GhostsOK, [Next]_vars
             PROVE  GhostsOK'
  OBVIOUS
<1> USE DEF GhostsOK
<1>1. ASSUME NEW w \in Workers, Asks(w)
      PROVE  GhostsOK'
  BY <1>1 DEF Asks, AskToGenerate, AskForAdvice, AskToPatch, AskToDeploy, Build, OpenForm, Begin, CallFrame
<1>2. ASSUME NEW w \in Workers, Works(w)
      PROVE  GhostsOK'
  <2>1. CASE AdviceTaken(w) \/ LinksResolved(w) \/ RefuseToOverwrite(w) \/ CallFails(w)
    BY <2>1 DEF AdviceTaken, LinksResolved, RefuseToOverwrite, WriteElsewhere, CallFails, ghosts
  <2>2. CASE LoadState(w) \/ LoadHistory(w) \/ Reload(w)
    <3>1. \E read \in SUBSET Files : behind' = [behind EXCEPT ![w] = read]
      <4>1. behind[w] \cup {"state"} \in SUBSET Files /\ behind[w] \cup {"history"} \in SUBSET Files
        BY DEF Files
      <4>2. \A f : behind[w] \ {f} \in SUBSET Files
        OBVIOUS
      <4>3. CASE LoadState(w)
        BY <4>1, <4>2, <4>3 DEF LoadState
      <4>4. CASE LoadHistory(w)
        BY <4>1, <4>2, <4>4 DEF LoadHistory
      <4>5. CASE Reload(w)
        BY <4>2, <4>5 DEF Reload, Reads
      <4>6. QED
        BY <2>2, <4>3, <4>4, <4>5
    <3>2. UNCHANGED <<undone, astray, unsettled>>
      BY <2>2 DEF LoadState, LoadHistory, Reload
    <3>3. QED
      BY <3>1, <3>2
  <2>3. CASE WriteElsewhere(w)
    BY <2>3 DEF WriteElsewhere
  <2>4. QED
    BY <1>2, <2>1, <2>2, <2>3 DEF Works
<1>3. ASSUME NEW w \in Workers, NEW f \in Files, Writes(w, f)
      PROVE  behind' \in [Workers -> SUBSET Files] /\ undone' \subseteq Files
  BY <1>3 DEF Writes
<1>4. ASSUME NEW w \in Workers, SaveState(w) \/ SaveHistory(w) \/ WriteFile(w) \/ Panel(w)
      PROVE  GhostsOK'
  <2>1. \E f \in Files : Writes(w, f)
    BY <1>4 DEF SaveState, SaveHistory, WriteFile, Panel, SaveSections, SaveRoot, Files
  <2>2. astray' \in BOOLEAN /\ unsettled' \in BOOLEAN
    <3>1. CASE SaveState(w)
      <4>1. astray' = (astray \/ Deploys(job[w])) /\ unsettled' = unsettled
        BY <3>1 DEF SaveState
      <4>2. QED
        BY <4>1
    <3>2. CASE SaveHistory(w)
      BY <3>2 DEF SaveHistory
    <3>3. CASE WriteFile(w)
      BY <3>3 DEF WriteFile
    <3>4. CASE Panel(w)
      BY <3>4 DEF Panel, SaveSections, SaveRoot
    <3>5. QED
      BY <1>4, <3>1, <3>2, <3>3, <3>4
  <2>3. QED
    BY <1>3, <2>1, <2>2
<1>5. ASSUME NEW w \in Workers, SetsPart(w)
      PROVE  GhostsOK'
  <2>1. PICK part, stamp : SetPart(w, part, stamp) /\ astray' = astray
    BY <1>5 DEF SetsPart, SetConfig, SetIngestion, SetEngines
  <2>2. behind' \in [Workers -> SUBSET Files] /\ undone' \subseteq Files
    BY <2>1 DEF SetPart, Files
  <2>3. unsettled' \in BOOLEAN
    <3>1. unsettled' = (part # "engines"
                        \/ (IF part = "config" THEN behind[w] \ {"live"} ELSE behind[w])
                              \cap {"file", "live"} # {}
                        \/ job[w].away)
      BY <2>1 DEF SetPart
    <3>2. QED
      BY <3>1
  <2>4. QED
    BY <2>1, <2>2, <2>3
<1>6. CASE RunSteps \/ TimePasses \/ UNCHANGED vars
  BY <1>6 DEF RunSteps, RunBegin, RunRefreshed, RunRefreshFails, RunIngest, RunAnalyse, TimePasses, vars, ghosts
<1>7. CASE Restart
  <2>1. behind' = [w \in Workers |-> {}] /\ astray' = astray /\ unsettled' = FALSE
    BY <1>7 DEF Restart
  <2>2. undone' \subseteq Files
    BY <1>7 DEF Restart, CrashFile, Files
  <2>3. QED
    BY <2>1, <2>2
<1>8. QED
  BY <1>1, <1>2, <1>4, <1>5, <1>6, <1>7, ControlSteps

\* Initially nothing was lost.
LEMMA GhostsInit == Init => GhostsOK
BY DEF Init, GhostsOK

\* The bookkeeping keeps its types always.
LEMMA GhostsAlways == Spec => []GhostsOK
BY GhostsInit, GhostsNext, PTL DEF Spec

-----------------------------------------------------------------------------
(* The run.                                                                *)

RunOK == runPc \in {"idle", "refresh", "ingest", "analyse"} /\ used \subseteq DOMAIN applied
             /\ mixed \in BOOLEAN

\* Without an update in between, the parts are those of the update the run began
\* with.
RunInv ==
    /\ RunOK
    /\ runPc # "idle" => used # {}
    /\ ~mixed => /\ \A m, n \in used : m = n
                 /\ runPc # "idle" => \A part \in Parts : \A m \in used : live[part] = m

\* Every step keeps the run on one update or notices that it is not.
LEMMA RunNext == CoreOK /\ RunInv /\ [Next]_vars => RunInv'
<1> SUFFICES ASSUME CoreOK, RunInv, [Next]_vars
             PROVE  RunInv'
  OBVIOUS
<1>0. /\ DOMAIN applied \subseteq DOMAIN applied'
      /\ \A part \in Parts : live[part] \in DOMAIN applied
  BY AppliedGrows DEF CoreOK, PipelineOK
<1>1. ASSUME NEW w \in Workers, SetsPart(w)
      PROVE  RunInv'
  <2>1. PICK part, stamp : SetPart(w, part, stamp) /\ UNCHANGED <<runPc, used>>
    BY <1>1 DEF SetsPart, SetConfig, SetIngestion, SetEngines
  <2>2. mixed' = (mixed \/ runPc # "idle")
    BY <2>1 DEF SetPart
  <2>3. QED
    BY <1>0, <2>1, <2>2 DEF RunInv, RunOK
<1>2. CASE Restart
  BY <1>2 DEF Restart, RunInv, RunOK
<1>3. CASE RunSteps
  <2>1. UNCHANGED pipeline
    BY <1>3 DEF RunSteps, RunBegin, RunRefreshed, RunRefreshFails, RunIngest, RunAnalyse
  <2>2. CASE RunBegin
    BY <1>0, <2>1, <2>2 DEF RunBegin, RunInv, RunOK, pipeline, Parts
  <2>3. CASE RunRefreshed \/ RunRefreshFails
    BY <2>1, <2>3 DEF RunRefreshed, RunRefreshFails, RunInv, RunOK, pipeline
  <2>4. CASE RunIngest
    <3>1. /\ runPc # "idle" /\ used' = used \cup {live["ingestion"]} /\ runPc' = "analyse"
          /\ mixed' = mixed /\ live' = live
      BY <2>1, <2>4 DEF RunIngest, pipeline
    <3>2. live["ingestion"] \in DOMAIN applied /\ "ingestion" \in Parts
      BY <1>0 DEF Parts
    <3>3. ~mixed => /\ \A m \in used : m = live["ingestion"]
                    /\ \A part \in Parts : \A m \in used : live[part] = m
      BY <3>1, <3>2 DEF RunInv
    <3>4. ~mixed => used = {live["ingestion"]} /\ \A part \in Parts : live[part] = live["ingestion"]
      BY <3>1, <3>3 DEF RunInv
    <3>5. QED
      BY <1>0, <3>1, <3>2, <3>4 DEF RunInv, RunOK
  <2>5. CASE RunAnalyse
    BY <1>0, <2>1, <2>5 DEF RunAnalyse, RunInv, RunOK, pipeline, Parts
  <2>6. QED
    BY <1>3, <2>2, <2>3, <2>4, <2>5 DEF RunSteps
<1>4. ASSUME UNCHANGED <<runVars, pipeline>>
      PROVE  RunInv'
  BY <1>4 DEF runVars, pipeline, RunInv, RunOK
<1>5. ASSUME NEW w \in Workers, Asks(w) \/ Works(w) \/ Panel(w) \/ SaveState(w) \/ SaveHistory(w)
                                \/ WriteFile(w)
      PROVE  UNCHANGED <<runVars, pipeline>>
  <2>1. CASE Asks(w)
    BY <2>1 DEF Asks, AskToGenerate, AskForAdvice, AskToPatch, AskToDeploy, Build, OpenForm, CallFrame
  <2>2. CASE Works(w)
    BY <2>2 DEF Works, AdviceTaken, LinksResolved, LoadState, LoadHistory, RefuseToOverwrite, WriteElsewhere, Reload, CallFails
  <2>3. CASE Panel(w) \/ SaveState(w) \/ SaveHistory(w) \/ WriteFile(w)
    BY <2>3 DEF Panel, SaveSections, SaveRoot, SaveState, SaveHistory, WriteFile
  <2>4. QED
    BY <1>5, <2>1, <2>2, <2>3
<1>6. CASE TimePasses \/ UNCHANGED vars
  BY <1>4, <1>6 DEF TimePasses, vars
<1>7. QED
  BY <1>1, <1>2, <1>3, <1>4, <1>5, <1>6, ControlSteps

\* The parts of the pipeline a run uses come from one update, unless an update
\* came in between or had been broken off (pipeline.py:94).
THEOREM RunKeepsItsUpdate == Spec => []RunUsesOneUpdate
<1>1. Init => RunInv
  BY DEF Init, RunInv, RunOK
<1>2. RunInv => RunUsesOneUpdate
  BY DEF RunInv, RunUsesOneUpdate
<1>3. QED
  BY <1>1, <1>2, RunNext, CoreAlways, PTL DEF Spec
-----------------------------------------------------------------------------
(* The analyses of the source links.                                       *)

\* The cache file and every up-to-date copy of it hold the analyses that were
\* handed out, until a call loses some.
KeptInv ==
    /\ CacheTypeOK
    /\ ~cacheUndone =>
          /\ \A u \in analysed : cache[u] = "fresh"
          /\ \A p \in Asking \ outdated : \A u \in analysed : copy[p][u] = "fresh"

\* Who analyses has links to analyse.
AskingInv ==
    /\ \A w \in Workers : pc[w] = "diagnose" => asked[w] # {}
    /\ runPc = "refresh" => asked[Run] # {}

CacheInv == KeptInv /\ AskingInv

\* A suggestion takes up what the cache holds.
LEMMA SuggestKeeps ==
    ASSUME KeptInv, NEW p \in Askers, NEW urls \in SUBSET Addresses, NEW force, Suggest(p, urls, force)
    PROVE  KeptInv' /\ asked' = [asked EXCEPT ![p] = urls]
<1>1. PICK torn \in BOOLEAN :
        LET seen == IF torn THEN NoCache ELSE cache
        IN  /\ asked' = [asked EXCEPT ![p] = urls]
            /\ copy' = [copy EXCEPT ![p] =
                          [u \in Addresses |-> IF u \in Due(seen, urls, force) THEN "fresh"
                                               ELSE seen[u]]]
            /\ outdated' = IF torn THEN outdated \cup {p} ELSE outdated \ {p}
            /\ UNCHANGED <<cache, analysed, cacheUndone>>
  BY DEF Suggest
<1> DEFINE seen == IF torn THEN NoCache ELSE cache
           took == [u \in Addresses |-> IF u \in Due(seen, urls, force) THEN "fresh" ELSE seen[u]]
<1>2. seen \in Caches /\ took \in Caches
  BY DEF NoCache, Caches, Ages, KeptInv, CacheTypeOK
<1>3. ~torn => \A u \in Addresses : cache[u] = "fresh" => took[u] = "fresh"
  OBVIOUS
<1>4. /\ asked' = [asked EXCEPT ![p] = urls] /\ copy' = [copy EXCEPT ![p] = took]
      /\ outdated' = (IF torn THEN outdated \cup {p} ELSE outdated \ {p})
      /\ UNCHANGED <<cache, analysed, cacheUndone>>
  BY <1>1
<1> HIDE DEF took, seen
<1>5. CacheTypeOK'
  BY <1>2, <1>4 DEF KeptInv, CacheTypeOK
<1>6. ASSUME ~cacheUndone, NEW q \in Askers, asked'[q] # {}, q \notin outdated', NEW u \in analysed
      PROVE  copy'[q][u] = "fresh"
  <2>1. analysed \subseteq Addresses /\ cache[u] = "fresh"
    BY <1>6 DEF KeptInv, CacheTypeOK
  <2>2. CASE q = p
    BY <1>3, <1>4, <1>6, <2>1, <2>2 DEF KeptInv, CacheTypeOK
  <2>3. CASE q # p
    BY <1>4, <1>6, <2>3 DEF KeptInv, CacheTypeOK, Asking
  <2>4. QED
    BY <2>2, <2>3
<1>7. QED
  BY <1>4, <1>5, <1>6 DEF KeptInv, Asking

\* A call that saves an up-to-date cache loses nothing.
LEMMA SaveKeeps ==
    ASSUME KeptInv, NEW p \in Askers, asked[p] # {}, SaveCache(p)
    PROVE  KeptInv' /\ asked' = [asked EXCEPT ![p] = {}]
<1>1. /\ cache' = copy[p] /\ asked' = [asked EXCEPT ![p] = {}] /\ copy' = [copy EXCEPT ![p] = NoCache]
      /\ analysed' = analysed \cup {u \in asked[p] : copy[p][u] = "fresh"}
      /\ outdated' = Asking \ {p} /\ cacheUndone' = (cacheUndone \/ p \in outdated)
  BY DEF SaveCache, Drop
<1>2. NoCache \in Caches
  BY DEF NoCache, Caches, Ages
<1>3. CacheTypeOK'
  <2>1. /\ cache' \in Caches /\ asked' \in [Askers -> SUBSET Addresses] /\ copy' \in [Askers -> Caches]
        /\ analysed' \subseteq Addresses /\ outdated' \subseteq Askers
    BY <1>1, <1>2 DEF KeptInv, CacheTypeOK, Asking
  <2>2. cacheUndone' \in BOOLEAN
    BY <1>1
  <2>3. QED
    BY <2>1, <2>2 DEF CacheTypeOK
<1>4. ~cacheUndone' => \A u \in analysed' : cache'[u] = "fresh"
  BY <1>1 DEF KeptInv, Asking
<1>5. \A q \in Askers : asked'[q] # {} => q \in outdated'
  BY <1>1 DEF KeptInv, CacheTypeOK, Asking
<1>6. QED
  BY <1>1, <1>3, <1>4, <1>5 DEF KeptInv, Asking

\* A call that breaks off, a restart and time lose nothing that is claimed.
LEMMA BreakKeeps ==
    ASSUME KeptInv, (\E p \in Askers : Forget(p)) \/ CrashCache \/ Age
    PROVE  KeptInv'
<1>1. NoCache \in Caches
  BY DEF NoCache, Caches, Ages
<1>2. ASSUME NEW p \in Askers, Forget(p)
      PROVE  KeptInv'
  BY <1>1, <1>2 DEF Forget, Drop, KeptInv, CacheTypeOK, Asking
<1>3. CASE CrashCache
  <2>1. asked' = [p \in Askers |-> {}] /\ copy' = [p \in Askers |-> NoCache] /\ outdated' = {}
        /\ analysed' = analysed
    BY <1>3 DEF CrashCache
  <2>2. UNCHANGED <<cache, cacheUndone>> \/ (cache' = NoCache /\ cacheUndone' = TRUE)
    BY <1>3 DEF CrashCache
  <2>3. CASE UNCHANGED <<cache, cacheUndone>>
    BY <1>1, <2>1, <2>3 DEF KeptInv, CacheTypeOK, Asking
  <2>4. CASE cache' = NoCache /\ cacheUndone' = TRUE
    BY <1>1, <2>1, <2>4 DEF KeptInv, CacheTypeOK, Asking
  <2>5. QED
    BY <2>2, <2>3, <2>4
<1>4. CASE Age
  <2>1. \A seen \in Caches : Aged(seen) \in Caches
    BY DEF Aged, Caches, Ages
  <2>2. QED
    BY <1>4, <2>1 DEF Age, KeptInv, CacheTypeOK, Asking
<1>5. QED
  BY <1>2, <1>3, <1>4

\* The links a call or a run asks about are places.
LEMMA AskedPlaces ==
    ASSUME CoreOK
    PROVE  /\ KnownLinks(StoredUiLinks, Base) \subseteq Places
           /\ SourceUrls(Base) \subseteq Places
           /\ \A request \in AskFor : \A known :
                 /\ UrlsOf(NewLinks(request, known)) \subseteq Places
                 /\ NewLinks(request, known) # {} => UrlsOf(NewLinks(request, known)) # {}
<1>1. Base \in Configs
  BY BaseTypes DEF CoreOK
<1>2. UrlsOf(Base.links) \subseteq Places /\ {s.url : s \in Base.sources} \subseteq Places
  BY <1>1 DEF Configs, UrlsOf, Links, Sources
<1>3. StoredUiLinks \subseteq Places
  BY DEF StoredUiLinks, CoreOK, DiskOK, States, Generations
<1>4. \A request \in AskFor : request.links \subseteq Links
  BY ControlAssumption DEF Requests
<1>5. QED
  BY <1>2, <1>3, <1>4 DEF KnownLinks, SourceUrls, NewLinks, UrlsOf, Links

\* A step leaves the cache alone, or is a suggestion, its end or a break.
LEMMA CacheNext == CoreOK /\ CacheInv /\ [Next]_vars => CacheInv'
<1> SUFFICES ASSUME CoreOK, CacheInv, [Next]_vars
             PROVE  CacheInv'
  OBVIOUS
<1>0. /\ Askers = Workers \cup {Run} /\ Addresses = Places /\ Run \notin Workers
      /\ pc \in [Workers -> Stages] /\ asked \in [Askers -> SUBSET Addresses] /\ KeptInv /\ AskingInv
  BY ControlAssumption DEF CoreOK, CallsOK, CacheInv, KeptInv, CacheTypeOK
<1>1. ASSUME UNCHANGED <<cacheVars, runPc>>,
             \A w \in Workers : pc'[w] = "diagnose" => pc[w] = "diagnose"
      PROVE  CacheInv'
  BY <1>0, <1>1 DEF cacheVars, CacheInv, KeptInv, AskingInv, CacheTypeOK, Asking
<1>2. ASSUME NEW w \in Workers, Asks(w)
      PROVE  CacheInv'
  <2>1. /\ runPc' = runPc
        /\ \A v \in Workers : v # w => pc'[v] = pc[v]
    BY <1>0, <1>2 DEF Asks, AskToGenerate, AskForAdvice, AskToPatch, AskToDeploy, Build, OpenForm, Begin, Go,
                      CallFrame, runVars
  <2>2. \/ UNCHANGED cacheVars /\ pc'[w] # "diagnose"
        \/ \E urls \in SUBSET Addresses, force \in BOOLEAN : urls # {} /\ Suggest(w, urls, force)
    <3>1. ASSUME NEW kind, Build(w, kind)
          PROVE  \/ UNCHANGED cacheVars /\ pc'[w] # "diagnose"
                 \/ \E urls \in SUBSET Addresses, force \in BOOLEAN :
                        urls # {} /\ Suggest(w, urls, force)
      <4>1. PICK request \in AskFor :
              LET new == NewLinks(request, KnownLinks(StoredUiLinks, Base))
              IN  \/ pc' = [pc EXCEPT ![w] = "built"] /\ UNCHANGED cacheVars
                  \/ new # {} /\ Suggest(w, UrlsOf(new), TRUE)
        BY <3>1 DEF Build, Begin, Go
      <4> DEFINE new == NewLinks(request, KnownLinks(StoredUiLinks, Base))
      <4>2. new # {} => UrlsOf(new) \in SUBSET Addresses /\ UrlsOf(new) # {}
        BY <1>0, AskedPlaces
      <4> HIDE DEF new
      <4>3. \/ pc' = [pc EXCEPT ![w] = "built"] /\ UNCHANGED cacheVars
            \/ new # {} /\ Suggest(w, UrlsOf(new), TRUE)
        BY <4>1 DEF new
      <4>4. QED
        BY <1>0, <4>2, <4>3
    <3>2. CASE AskForAdvice(w)
      BY <1>0, <3>2, AskedPlaces DEF AskForAdvice
    <3>3. CASE AskToPatch(w) \/ (AskToDeploy(w) /\ ~Build(w, "replace")) \/ OpenForm(w)
      BY <1>0, <3>3 DEF AskToPatch, AskToDeploy, OpenForm, Begin, Go
    <3>4. QED
      BY <1>2, <3>1, <3>2, <3>3 DEF Asks, AskToGenerate
  <2>3. CASE UNCHANGED cacheVars /\ pc'[w] # "diagnose"
    BY <1>1, <2>1, <2>3
  <2>4. ASSUME NEW urls \in SUBSET Addresses, NEW force, urls # {}, Suggest(w, urls, force)
        PROVE  CacheInv'
    BY <1>0, <2>1, <2>4, SuggestKeeps DEF CacheInv, AskingInv
  <2>5. QED
    BY <2>2, <2>3, <2>4
<1>3. ASSUME NEW w \in Workers, Works(w)
      PROVE  CacheInv'
  <2>1. /\ runPc' = runPc /\ pc'[w] # "diagnose"
        /\ \A v \in Workers : v # w => pc'[v] = pc[v]
    <3>1. \E stage \in {"idle", "built", "computed", "rows", "set_config"} : pc' = [pc EXCEPT ![w] = stage]
      BY <1>3 DEF Works, AdviceTaken, LinksResolved, LoadState, LoadHistory, RefuseToOverwrite, WriteElsewhere,
                  Reload, CallFails, EndCall, Go
    <3>2. runPc' = runPc
      BY <1>3 DEF Works, AdviceTaken, LinksResolved, LoadState, LoadHistory, RefuseToOverwrite, WriteElsewhere,
                  Reload, CallFails, runVars
    <3>3. QED
      BY <1>0, <3>1, <3>2
  <2>2. CASE AdviceTaken(w) \/ LinksResolved(w)
    <3>1. SaveCache(w) /\ asked[w] # {}
      BY <1>0, <2>2 DEF AdviceTaken, LinksResolved, AskingInv
    <3>2. QED
      BY <1>0, <2>1, <3>1, SaveKeeps DEF CacheInv, AskingInv
  <2>3. CASE CallFails(w)
    <3>1. Forget(w) /\ asked' = [asked EXCEPT ![w] = {}]
      BY <2>3 DEF CallFails, Forget, Drop
    <3>2. QED
      BY <1>0, <2>1, <3>1, BreakKeeps DEF CacheInv, AskingInv
  <2>4. CASE LoadState(w) \/ LoadHistory(w) \/ RefuseToOverwrite(w) \/ WriteElsewhere(w) \/ Reload(w)
    BY <1>1, <2>1, <2>4 DEF LoadState, LoadHistory, RefuseToOverwrite, WriteElsewhere, Reload
  <2>5. QED
    BY <1>3, <2>2, <2>3, <2>4 DEF Works
<1>4. ASSUME NEW w \in Workers, SaveState(w) \/ SaveHistory(w) \/ WriteFile(w) \/ Panel(w) \/ SetsPart(w)
      PROVE  CacheInv'
  <2>1. UNCHANGED <<cacheVars, runPc>>
    BY <1>4 DEF SaveState, SaveHistory, WriteFile, Panel, SaveSections, SaveRoot, SetsPart, SetConfig,
                SetIngestion, SetEngines, runVars
  <2>2. PICK stage \in Stages \ {"diagnose"} : pc' = [pc EXCEPT ![w] = stage]
    BY <1>4 DEF SaveState, SaveHistory, WriteFile, Panel, SaveSections, SaveRoot, SetsPart, SetConfig,
                SetIngestion, SetEngines, EndCall, Go, AfterState, Stages
  <2>3. QED
    BY <1>0, <1>1, <2>1, <2>2
<1>5. CASE RunSteps
  <2>1. pc' = pc
    BY <1>5 DEF RunSteps, RunBegin, RunRefreshed, RunRefreshFails, RunIngest, RunAnalyse, callVars
  <2>2. CASE RunBegin
    <3>1. CASE UNCHANGED cacheVars /\ runPc' = "ingest"
      BY <1>0, <2>1, <3>1 DEF cacheVars, CacheInv, KeptInv, AskingInv, CacheTypeOK, Asking
    <3>2. CASE SourceUrls(Base) # {} /\ Suggest(Run, SourceUrls(Base), FALSE)
      <4>1. SourceUrls(Base) \in SUBSET Addresses /\ Run \in Askers
        BY <1>0, AskedPlaces
      <4>2. KeptInv' /\ asked' = [asked EXCEPT ![Run] = SourceUrls(Base)]
        BY <1>0, <3>2, <4>1, SuggestKeeps
      <4>3. QED
        BY <1>0, <2>1, <3>2, <4>1, <4>2 DEF CacheInv, AskingInv
    <3>3. QED
      BY <2>2, <3>1, <3>2 DEF RunBegin
  <2>3. CASE RunRefreshed
    <3>1. SaveCache(Run) /\ asked[Run] # {} /\ runPc' = "ingest"
      BY <1>0, <2>3 DEF RunRefreshed, AskingInv
    <3>2. KeptInv' /\ asked' = [asked EXCEPT ![Run] = {}]
      BY <1>0, <3>1, SaveKeeps
    <3>3. QED
      BY <1>0, <2>1, <3>1, <3>2 DEF CacheInv, AskingInv
  <2>4. CASE RunRefreshFails
    <3>1. Forget(Run) /\ asked' = [asked EXCEPT ![Run] = {}] /\ runPc' = "ingest"
      BY <2>4 DEF RunRefreshFails, Forget, Drop
    <3>2. KeptInv'
      BY <1>0, <3>1, BreakKeeps
    <3>3. QED
      BY <1>0, <2>1, <3>1, <3>2 DEF CacheInv, AskingInv
  <2>5. CASE RunIngest \/ RunAnalyse
    BY <1>0, <2>1, <2>5 DEF RunIngest, RunAnalyse, cacheVars, CacheInv, KeptInv, AskingInv, CacheTypeOK,
                            Asking
  <2>6. QED
    BY <1>5, <2>2, <2>3, <2>4, <2>5 DEF RunSteps
<1>6. CASE Restart
  <2>1. CrashCache /\ pc' = [w \in Workers |-> "idle"] /\ runPc' = "idle"
    BY <1>6 DEF Restart
  <2>2. QED
    BY <1>0, <2>1, BreakKeeps DEF CacheInv, AskingInv
<1>7. CASE TimePasses
  <2>1. Age /\ UNCHANGED <<pc, runPc, asked>>
    BY <1>7 DEF TimePasses, callVars, runVars, Age
  <2>2. QED
    BY <1>0, <2>1, BreakKeeps DEF CacheInv, AskingInv
<1>8. CASE UNCHANGED vars
  BY <1>1, <1>8 DEF vars, callVars, runVars
<1>9. QED
  BY <1>2, <1>3, <1>4, <1>5, <1>6, <1>7, <1>8, ControlSteps

\* Initially nothing is analysed.
LEMMA CacheStart == Init => CacheInv
<1> SUFFICES ASSUME Init
             PROVE  CacheInv
  OBVIOUS
<1>1. NoCache \in Caches
  BY DEF NoCache, Caches, Ages
<1>2. CacheTypeOK
  BY <1>1 DEF Init, CacheInit, CacheTypeOK
<1>3. analysed = {} /\ Asking = {} /\ AskingInv
  BY DEF Init, CacheInit, Asking, AskingInv
<1>4. QED
  BY <1>2, <1>3 DEF CacheInv, KeptInv

\* The cache holds what was handed out always.
LEMMA CacheAlways == Spec => []CacheInv
BY CacheStart, CacheNext, CoreAlways, PTL DEF Spec

\* An analysis that was handed out is in the cache until it is too old, unless a
\* call saved over another or a write was torn (source_strategy_engine.py:83).
THEOREM AnalysesStay == Spec => []AnalysesAreKept
<1>1. CacheInv => AnalysesAreKept
  BY DEF CacheInv, KeptInv, AnalysesAreKept
<1>2. QED
  BY <1>1, CacheAlways, PTL
-----------------------------------------------------------------------------
(* The pipeline follows the file.                                          *)

Follows(c, f) ==
    /\ Effective(c) = Effective(Expand(f))
    /\ c.sources \subseteq Expand(f).sources
    /\ c.carried = f.carried /\ c.styled = f.styled

Setting == {"set_config", "set_ingestion", "set_engines"}
Undisturbed(w) == behind[w] \cap {"file", "live"} = {} /\ ~job[w].away

\* An update from the file that was not replaced since brings what the file says;
\* one that no other has disturbed has replaced the parts before its stage.
FollowInv ==
    /\ \A w \in Workers :
          /\ (pc[w] = "set_config" /\ "file" \notin behind[w] /\ ~job[w].away) =>
                Follows(job[w].config, file)
          /\ (pc[w] \in {"set_ingestion", "set_engines"} /\ Undisturbed(w)) =>
                live["config"] = job[w].stamp /\ Follows(Base, file)
          /\ (pc[w] = "set_engines" /\ Undisturbed(w)) => live["ingestion"] = job[w].stamp
    /\ ~unsettled => FollowsFile

\* A configuration follows itself, and so does what loading makes of it.
LEMMA FollowsItself ==
    ASSUME NEW c \in Configs
    PROVE  Follows(c, c) /\ Follows(Expand(c), c)
BY ExpandTypes DEF Follows, Expand, Configs

\* Steps that leave the updates in progress alone.
LEMMA FollowFrame ==
    ASSUME FollowInv, UNCHANGED <<file, applied, live, unsettled>>,
           \A v \in Workers : pc'[v] \in Setting =>
              /\ pc'[v] = pc[v] /\ job'[v] = job[v]
              /\ behind'[v] \cap {"file", "live"} = behind[v] \cap {"file", "live"}
    PROVE  FollowInv'
<1>1. Base' = Base /\ (FollowsFile => FollowsFile')
  BY DEF Base, FollowsFile
<1>2. QED
  BY <1>1 DEF FollowInv, Undisturbed, Setting

\* A part of the pipeline is replaced: the other updates are disturbed.
LEMMA FollowSet ==
    ASSUME CoreOK, GhostsOK, FollowInv, NEW w \in Workers, SetsPart(w), DOMAIN applied \subseteq DOMAIN applied'
    PROVE  FollowInv'
<1>0. /\ pc \in [Workers -> Stages] /\ job \in [Workers -> Jobs] /\ file' = file
      /\ behind \in [Workers -> SUBSET Files] /\ live \in [Parts -> DOMAIN applied]
      /\ applied \in Seq(Configs) /\ job[w].config \in Configs
  BY DEF CoreOK, CallsOK, PipelineOK, GhostsOK, SetsPart, SetConfig, SetIngestion, SetEngines, disk, Jobs
<1>1. ASSUME NEW v \in Workers, v # w
      PROVE  pc'[v] = pc[v] /\ job'[v] = job[v] /\ "live" \in behind'[v] /\ behind'[v] = behind[v] \cup {"live"}
  BY <1>0, <1>1 DEF SetsPart, SetConfig, SetIngestion, SetEngines, SetPart, EndCall, Go
<1>2. \A v \in Workers : v # w =>
        /\ (pc'[v] = "set_config" /\ "file" \notin behind'[v] /\ ~job'[v].away) =>
              Follows(job'[v].config, file')
        /\ ~Undisturbed(v)'
  BY <1>0, <1>1 DEF FollowInv, Undisturbed
<1>3. CASE SetConfig(w)
  <2>1. /\ applied' = Append(applied, job[w].config) /\ live' = [live EXCEPT !["config"] = Len(applied) + 1]
        /\ pc'[w] = "set_ingestion" /\ job'[w].stamp = Len(applied) + 1 /\ job'[w].away = job[w].away
        /\ behind'[w] = behind[w] \ {"live"} /\ pc[w] = "set_config"
    BY <1>0, <1>3 DEF SetConfig, SetPart, Go, NoJob
  <2>2. unsettled' = TRUE
    BY <1>3 DEF SetConfig, SetPart
  <2>3. live'["config"] = Len(applied) + 1 /\ applied'[Len(applied) + 1] = job[w].config
    BY <1>0, <2>1, AppendProperties DEF Parts
  <2>4. Base' = job[w].config
    BY <2>3 DEF Base
  <2>5. Undisturbed(w)' => "file" \notin behind[w] /\ ~job[w].away
    BY <2>1 DEF Undisturbed
  <2>6. QED
    BY <1>0, <1>2, <2>1, <2>2, <2>3, <2>4, <2>5 DEF FollowInv
<1>4. CASE SetIngestion(w)
  <2>1. /\ applied' = applied /\ live' = [live EXCEPT !["ingestion"] = job[w].stamp] /\ job' = job
        /\ pc'[w] = "set_engines" /\ pc[w] = "set_ingestion" /\ behind'[w] = behind[w]
    BY <1>0, <1>4 DEF SetIngestion, SetPart, Go
  <2>2. unsettled' = TRUE
    BY <1>4 DEF SetIngestion, SetPart
  <2>3. Base' = Base /\ live'["config"] = live["config"] /\ live'["ingestion"] = job[w].stamp
    BY <1>0, <2>1 DEF Base, Parts
  <2>4. QED
    BY <1>0, <1>2, <2>1, <2>2, <2>3 DEF FollowInv, Undisturbed
<1>5. CASE SetEngines(w)
  <2>1. /\ applied' = applied /\ live' = [live EXCEPT !["engines"] = job[w].stamp]
        /\ pc'[w] = "idle" /\ pc[w] = "set_engines"
        /\ ~unsettled' => Undisturbed(w)
    BY <1>0, <1>5 DEF SetEngines, SetPart, EndCall, Go, Undisturbed
  <2>2. /\ Base' = Base /\ live'["config"] = live["config"] /\ live'["ingestion"] = live["ingestion"]
        /\ live'["engines"] = job[w].stamp
    BY <1>0, <2>1 DEF Base, Parts
  <2>3. ~unsettled' => FollowsFile'
    BY <1>0, <2>1, <2>2 DEF FollowInv, FollowsFile, Follows, Undisturbed, Parts
  <2>4. QED
    BY <1>2, <2>1, <2>3 DEF FollowInv
<1>6. QED
  BY <1>3, <1>4, <1>5 DEF SetsPart

\* Every step keeps the updates behind their file.
LEMMA FollowNext == CoreOK /\ GhostsOK /\ FollowInv /\ [Next]_vars => FollowInv'
<1> SUFFICES ASSUME CoreOK, GhostsOK, FollowInv, [Next]_vars
             PROVE  FollowInv'
  OBVIOUS
<1>0. /\ pc \in [Workers -> Stages] /\ job \in [Workers -> Jobs] /\ behind \in [Workers -> SUBSET Files]
      /\ file \in Configs
  BY DEF CoreOK, CallsOK, DiskOK, GhostsOK
<1>1. ASSUME NEW w \in Workers, Asks(w)
      PROVE  FollowInv'
  <2>1. /\ UNCHANGED <<file, applied, live, unsettled>>
        /\ \A v \in Workers : v # w => pc'[v] = pc[v] /\ job'[v] = job[v] /\ behind'[v] = behind[v]
        /\ pc'[w] \notin Setting
    BY <1>0, <1>1 DEF Asks, AskToGenerate, AskForAdvice, AskToPatch, AskToDeploy, Build, OpenForm, Begin, Go,
                      CallFrame, disk, pipeline, Setting
  <2>2. QED
    BY <2>1, FollowFrame
<1>2. ASSUME NEW w \in Workers, Works(w)
      PROVE  FollowInv'
  <2>1. UNCHANGED <<file, applied, live>> /\ (~WriteElsewhere(w) => unsettled' = unsettled)
    BY <1>2 DEF Works, AdviceTaken, LinksResolved, LoadState, LoadHistory, RefuseToOverwrite,
                WriteElsewhere, Reload, CallFails, disk, pipeline, ghosts
  <2>2. \A v \in Workers : v # w => pc'[v] = pc[v] /\ job'[v] = job[v] /\ behind'[v] = behind[v]
    <3>1. (\E stage : pc' = [pc EXCEPT ![w] = stage])
      BY <1>2 DEF Works, AdviceTaken, LinksResolved, LoadState, LoadHistory, RefuseToOverwrite, WriteElsewhere,
                  Reload, CallFails, EndCall, Go
    <3>2. \E call : job' = [job EXCEPT ![w] = call]
      <4>1. CASE AdviceTaken(w) \/ RefuseToOverwrite(w) \/ CallFails(w)
        BY <4>1 DEF AdviceTaken, RefuseToOverwrite, WriteElsewhere, CallFails, EndCall
      <4>2. CASE LinksResolved(w)
        BY <1>0, <4>2 DEF LinksResolved
      <4>3. CASE LoadState(w)
        BY <4>3 DEF LoadState, EndCall
      <4>4. CASE LoadHistory(w)
        BY <1>0, <4>4 DEF LoadHistory
      <4>5. CASE Reload(w)
        BY <1>0, <4>5 DEF Reload
      <4>6. CASE WriteElsewhere(w)
        BY <1>0, <4>6 DEF WriteElsewhere
      <4>7. QED
        BY <1>2, <4>1, <4>2, <4>3, <4>4, <4>5, <4>6 DEF Works
    <3>3. behind' = behind \/ \E read : behind' = [behind EXCEPT ![w] = read]
      BY <1>2 DEF Works, AdviceTaken, LinksResolved, LoadState, LoadHistory, RefuseToOverwrite, WriteElsewhere,
                  Reload, CallFails, Reads, ghosts
    <3>4. QED
      BY <1>0, <3>1, <3>2, <3>3
  <2>3. CASE Reload(w)
    <3>1. pc'[w] = "set_config" /\ job'[w].config = Expand(file)
      BY <1>0, <2>3 DEF Reload, Go, Jobs
    <3>2. Follows(job'[w].config, file')
      BY <1>0, <2>1, <3>1, FollowsItself
    <3>3. Base' = Base /\ (FollowsFile => FollowsFile')
      BY <2>1 DEF Base, FollowsFile
    <3>4. ~WriteElsewhere(w)
      BY <2>3 DEF Reload, WriteElsewhere
    <3>5. QED
      BY <2>1, <2>2, <3>1, <3>2, <3>3, <3>4 DEF FollowInv, Undisturbed
  <2>4. CASE WriteElsewhere(w)
    <3>1. pc'[w] = "set_config" /\ job'[w].away /\ unsettled' = TRUE
      BY <1>0, <2>4 DEF WriteElsewhere, Go, Jobs
    <3>2. Base' = Base
      BY <2>1 DEF Base
    <3>3. QED
      BY <2>1, <2>2, <3>1, <3>2 DEF FollowInv, Undisturbed
  <2>5. CASE ~Reload(w) /\ ~WriteElsewhere(w)
    <3>1. pc'[w] \notin Setting
      BY <1>0, <1>2, <2>5 DEF Works, AdviceTaken, LinksResolved, LoadState, LoadHistory,
                RefuseToOverwrite, WriteElsewhere, CallFails, EndCall, Go, Setting
    <3>2. QED
      BY <2>1, <2>2, <2>5, <3>1, FollowFrame
  <2>6. QED
    BY <2>3, <2>4, <2>5
<1>3. ASSUME NEW w \in Workers, SaveState(w) \/ SaveHistory(w)
      PROVE  FollowInv'
  <2>1. /\ UNCHANGED <<file, applied, live, unsettled>>
        /\ \E f \in {"state", "history"} : Writes(w, f)
    BY <1>3 DEF SaveState, SaveHistory, pipeline
  <2>2. \A v \in Workers : v # w => pc'[v] = pc[v] /\ job'[v] = job[v]
    BY <1>0, <1>3 DEF SaveState, SaveHistory, EndCall, Go
  <2>3. \A v \in Workers : behind'[v] \cap {"file", "live"} = behind[v] \cap {"file", "live"}
    BY <1>0, <2>1 DEF Writes
  <2>4. pc'[w] \notin Setting
    BY <1>0, <1>3 DEF SaveState, SaveHistory, EndCall, Go, AfterState, Setting
  <2>5. QED
    BY <2>1, <2>2, <2>3, <2>4, FollowFrame
<1>4. ASSUME NEW w \in Workers, WriteFile(w) \/ Panel(w)
      PROVE  FollowInv'
  <2>1. /\ UNCHANGED <<applied, live, job>> /\ unsettled' = TRUE /\ Writes(w, "file")
        /\ \A v \in Workers : v # w => pc'[v] = pc[v]
        /\ pc'[w] \in {"set_config", "sections", "reload"}
        /\ pc'[w] = "set_config" => file' = job[w].config
    BY <1>0, <1>4 DEF WriteFile, Panel, SaveSections, SaveRoot, Go, pipeline
  <2>2. \A v \in Workers : v # w => "file" \in behind'[v]
    BY <1>0, <2>1 DEF Writes
  <2>3. pc'[w] = "set_config" => Follows(job'[w].config, file')
    <3>1. job[w].config \in Configs
      BY <1>0 DEF Jobs
    <3>2. QED
      BY <2>1, <3>1, FollowsItself
  <2>4. QED
    BY <2>1, <2>2, <2>3 DEF FollowInv, Undisturbed
<1>5. ASSUME NEW w \in Workers, SetsPart(w)
      PROVE  FollowInv'
  BY <1>5, AppliedGrows, FollowSet
<1>6. CASE RunSteps \/ TimePasses \/ UNCHANGED vars
  <2>1. UNCHANGED <<file, applied, live, unsettled, pc, job, behind>>
    BY <1>6 DEF RunSteps, RunBegin, RunRefreshed, RunRefreshFails, RunIngest, RunAnalyse, TimePasses, vars,
                disk, pipeline, callVars, ghosts
  <2>2. QED
    BY <2>1, FollowFrame
<1>7. CASE Restart
  <2>1. /\ applied' = Append(applied, Expand(file)) /\ live' = [part \in Parts |-> Len(applied) + 1]
        /\ pc' = [v \in Workers |-> "idle"] /\ file' = file
    BY <1>7 DEF Restart
  <2>2. applied \in Seq(Configs) /\ Expand(file) \in Configs
    BY <1>0, ExpandTypes DEF CoreOK, PipelineOK
  <2>3. Base' = Expand(file)
    BY <2>1, <2>2, AppendProperties DEF Base, Parts
  <2>4. FollowsFile'
    BY <1>0, <2>1, <2>3, FollowsItself DEF FollowsFile, Follows, Parts
  <2>5. QED
    BY <2>1, <2>4 DEF FollowInv
<1>8. QED
  BY <1>1, <1>2, <1>3, <1>4, <1>5, <1>6, <1>7, ControlSteps

\* Initially the pipeline has loaded the file.
LEMMA FollowInit == Init => FollowInv
<1> SUFFICES ASSUME Init
             PROVE  FollowInv
  OBVIOUS
<1>1. Base = Expand(file) /\ file \in Configs
  BY ControlAssumption DEF Init, Base, Parts
<1>2. FollowsFile
  BY <1>1, FollowsItself DEF Init, FollowsFile, Follows, Parts
<1>3. QED
  BY <1>2 DEF Init, FollowInv

\* When no update is pending or was disturbed and the last one came from the file
\* that is loaded, the pipeline does what it would do after a restart
\* (pipeline.py:94), however saves and updates interleave.
THEOREM PipelineFollows == Spec => []LiveFollowsFile
<1>1. FollowInv => LiveFollowsFile
  BY DEF FollowInv, LiveFollowsFile
<1>2. QED
  BY <1>1, FollowInit, FollowNext, CoreAlways, GhostsAlways, PTL DEF Spec

-----------------------------------------------------------------------------
(* The types.                                                              *)

Bounds == [calls : Nat, width : Nat, runs : Nat, ages : Nat, faults : Nat]

BoundsOK == left \in Bounds /\ failed \in BOOLEAN

\* What a behaviour has spent of its bounds.
LEMMA Spent ==
    ASSUME NEW b \in Bounds
    PROVE  /\ b.calls > 0 => [b EXCEPT !.calls = @ - 1] \in Bounds
           /\ b.runs > 0 => [b EXCEPT !.runs = @ - 1] \in Bounds
           /\ b.ages > 0 => [b EXCEPT !.ages = @ - 1] \in Bounds
           /\ b.faults > 0 => [b EXCEPT !.faults = @ - 1] \in Bounds
BY DEF Bounds

\* The bounds keep their types.
LEMMA BoundsNext == BoundsOK /\ [Next]_vars => BoundsOK'
<1> SUFFICES ASSUME BoundsOK, [Next]_vars
             PROVE  BoundsOK'
  OBVIOUS
<1> USE DEF BoundsOK
<1>1. ASSUME NEW w \in Workers, Asks(w)
      PROVE  BoundsOK'
  <2>1. left.calls > 0 /\ left' = [left EXCEPT !.calls = @ - 1] /\ failed' = failed
    BY <1>1 DEF Asks, AskToGenerate, AskForAdvice, AskToPatch, AskToDeploy, Build, OpenForm, Begin, CallFrame
  <2>2. QED
    BY <2>1, Spent
<1>2. ASSUME NEW w \in Workers, CallFails(w)
      PROVE  BoundsOK'
  BY <1>2, Spent DEF CallFails, Fault
<1>3. CASE RunRefreshFails \/ Restart
  BY <1>3, Spent DEF RunRefreshFails, Restart, Fault
<1>4. CASE RunBegin
  <2>1. left.runs > 0 /\ left' = [left EXCEPT !.runs = @ - 1] /\ failed' = failed
    BY <1>4 DEF RunBegin
  <2>2. QED
    BY <2>1, Spent
<1>5. CASE TimePasses
  BY <1>5, Spent DEF TimePasses
<1>6. ASSUME NEW w \in Workers,
             \/ AdviceTaken(w) \/ LinksResolved(w) \/ LoadState(w) \/ LoadHistory(w)
             \/ RefuseToOverwrite(w) \/ WriteElsewhere(w) \/ Reload(w)
      PROVE  BoundsOK'
  BY <1>6 DEF AdviceTaken, LinksResolved, LoadState, LoadHistory, RefuseToOverwrite, WriteElsewhere, Reload
<1>7. ASSUME NEW w \in Workers, SaveState(w) \/ SaveHistory(w) \/ WriteFile(w) \/ Panel(w) \/ SetsPart(w)
      PROVE  BoundsOK'
  BY <1>7 DEF SaveState, SaveHistory, WriteFile, Panel, SaveSections, SaveRoot, SetsPart, SetConfig,
              SetIngestion, SetEngines
<1>8. CASE RunRefreshed \/ RunIngest \/ RunAnalyse \/ UNCHANGED vars
  BY <1>8 DEF RunRefreshed, RunIngest, RunAnalyse, vars
<1>9. QED
  BY <1>1, <1>2, <1>3, <1>4, <1>5, <1>6, <1>7, <1>8, ControlSteps DEF Works, RunSteps

\* The files, the pipeline, the calls, the run, the cache and the bookkeeping
\* have their types.
THEOREM ControlTypes == Spec => []TypeOK
<1>1. Init => BoundsOK
  BY ControlAssumption DEF Init, BoundsOK, Bounds
<1>2. Spec => []BoundsOK
  BY <1>1, BoundsNext, PTL DEF Spec
<1>3. Spec => []RunInv
  <2>1. Init => RunInv
    BY DEF Init, RunInv, RunOK
  <2>2. QED
    BY <2>1, RunNext, CoreAlways, PTL DEF Spec
<1>4. CoreOK /\ GhostsOK /\ RunInv /\ CacheInv /\ BoundsOK => TypeOK
  BY DEF CoreOK, DiskOK, PipelineOK, CallsOK, GhostsOK, RunInv, RunOK, CacheInv, KeptInv, BoundsOK, Bounds, TypeOK
<1>5. QED
  BY <1>2, <1>3, <1>4, CoreAlways, GhostsAlways, CacheAlways, PTL
=============================================================================
