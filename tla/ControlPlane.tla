---------------------------- MODULE ControlPlane ---------------------------
(***************************************************************************)
(* How a strategy becomes the configuration of the running pipeline.  API  *)
(* workers serve /strategy/generate, /patch, /deploy, /source/suggest and  *)
(* the configuration panel; each call loads and saves state.json,          *)
(* history.json and config.yaml without a lock and then replaces the       *)
(* parts of the pipeline one by one, while a run reads them one by one.    *)
(*                                                                         *)
(* The panel and the deployment write the same file (MONITOR_CONFIG is     *)
(* set, or there is no config.local.yaml).  A strategy is pending if its   *)
(* version is not the deployed one, as it is in every state the code       *)
(* saves.                                                                  *)
(***************************************************************************)
EXTENDS StrategyRules, SourceStrategy

CONSTANTS
    Workers,        \* API threads
    Run,            \* the thread of a run
    NoState,        \* state.json does not exist or is malformed
    NoGen, NoPatch, \* a call without a generated strategy, without a patch
    AskFor,         \* bound: the generation requests
    PatchWith,      \* bound: the patches
    Advice,         \* the links a suggestion may answer, by url
    Initial,        \* config.yaml at first
    Budgets         \* bound: the calls, runs, passing intervals and faults of a
                    \* behaviour, and how many calls are served at a time

ASSUME ControlAssumption ==
    /\ Run \notin Workers
    /\ Askers = Workers \cup {Run}
    /\ Addresses = Places
    /\ AskFor \subseteq Requests
    /\ \A request \in AskFor : UrlsOf(request.links) \subseteq Urls
    /\ PatchWith \subseteq Patches
    /\ Advice \in [Urls -> SUBSET Links]
    /\ Initial \in Configs
    /\ Budgets \subseteq [calls : Nat, width : Nat, runs : Nat, ages : Nat, faults : Nat]

VARIABLES
    state,      \* strategy_state.json
    history,    \* strategy_history.json
    file,       \* config.yaml
    applied,    \* ghost: the configurations given to update_config, in order
    live,       \* the parts of the pipeline: the update each comes from
    pc, job,    \* the stage and the data of each call
    runPc,      \* the stage of the run
    used,       \* ghost: the updates the run has used parts of
    behind,     \* ghost: the files each call read that were saved since
    undone,     \* ghost: the files a call saved on top of such a reading
    astray,     \* ghost: may config.yaml differ from the deployed version?
    unsettled,  \* ghost: may the pipeline differ from config.yaml?
    mixed,      \* ghost: may the run meet parts of different updates?
    edits,      \* forms opened
    failed,     \* ghost: has a call failed or the process restarted?
    left        \* bound: what is left of the behaviour's budget

disk == <<state, history, file>>
pipeline == <<applied, live>>
callVars == <<pc, job>>
runVars == <<runPc, used, mixed>>
ghosts == <<behind, undone, astray, unsettled>>
vars == <<cacheVars, disk, pipeline, callVars, runVars, ghosts, edits, failed, left>>

Parts == {"config", "ingestion", "engines"}
\* What a call may find changed since it read it: the files, and the pipeline.
Files == {"state", "history", "file", "live"}
Kinds3 == {"draft", "patch", "replace", "amend", "current", "panel", "suggest"}

States == [version : Nat, deployed : Nat, gen : Generations]
Rows == [version : Nat, config : Configs]
Jobs == [kind : Kinds3 \cup {"none"}, gen : Generations \cup {NoGen},
         patch : Patches \cup {NoPatch},
         state : States \cup {NoState}, rows : Seq(Rows),
         config : Configs, stamp : Nat, away : BOOLEAN]

ASSUME NoStateAssumption == NoState \notin States

NoJob == [kind |-> "none", gen |-> NoGen, patch |-> NoPatch,
          state |-> NoState, rows |-> <<>>, config |-> Initial, stamp |-> 0, away |-> FALSE]

Stages == {"idle", "diagnose", "built", "computed", "saved", "rows", "write", "form",
           "sections", "reload", "set_config", "set_ingestion", "set_engines"}

Init ==
    /\ CacheInit
    /\ state = NoState /\ history = <<>> /\ file = Initial
    /\ applied = <<Expand(Initial)>>
    /\ live = [part \in Parts |-> 1]
    /\ pc = [w \in Workers |-> "idle"]
    /\ job = [w \in Workers |-> NoJob]
    /\ runPc = "idle" /\ used = {} /\ mixed = FALSE
    /\ behind = [w \in Workers |-> {}] /\ undone = {}
    /\ astray = FALSE /\ unsettled = FALSE
    /\ edits = 0 /\ failed = FALSE
    /\ left \in Budgets

-----------------------------------------------------------------------------
(* The life of a call.                                                     *)

Go(w, stage) == pc' = [pc EXCEPT ![w] = stage]
EndCall(w) == Go(w, "idle") /\ job' = [job EXCEPT ![w] = NoJob]

Base == applied[live["config"]]

\* A call begins; the engine it makes holds the configuration of this moment.
Begin(w, call, stage) ==
    /\ pc[w] = "idle"
    /\ left.calls > 0
    /\ Cardinality({v \in Workers : pc[v] # "idle"}) < left.width
    /\ left' = [left EXCEPT !.calls = @ - 1]
    /\ job' = [job EXCEPT ![w] = call]
    /\ behind' = [behind EXCEPT ![w] = {}]
    /\ Go(w, stage)

CallFrame == UNCHANGED <<disk, pipeline, runVars, undone, astray, unsettled, edits, failed>>

\* Reading a file: its reader is up to date again.
Reads(w, f) == behind' = [behind EXCEPT ![w] = @ \ {f}]

\* Replacing a file: the other calls' reading of it is out of date; if the
\* writer's was, what was saved in between is undone.
Writes(w, f) ==
    /\ behind' = [v \in Workers |-> IF v = w THEN behind[v] \ {f} ELSE behind[v] \cup {f}]
    /\ undone' = IF f \in behind[w] THEN undone \cup {f} ELSE undone

\* A load that meets another call's write finds no JSON.
MayBeTorn(w, stage) == \E v \in Workers \ {w} : pc[v] = stage

-----------------------------------------------------------------------------
(* Generating a strategy and asking for suggestions.                       *)

StoredUiLinks == IF state = NoState THEN {} ELSE state.gen.uiLinks

\* _build_generation for a call: its settings may ask for a diagnosis of the
\* links of a form that nobody knows.
Build(w, kind) ==
    \E request \in AskFor :
        LET new == NewLinks(request, KnownLinks(StoredUiLinks, Base))
            call == [NoJob EXCEPT !.kind = kind, !.gen = Generate(request, Base)]
        IN  \/ Begin(w, call, "built") /\ UNCHANGED cacheVars
            \/ /\ request.form /\ new # {}
               /\ Begin(w, call, "diagnose")
               /\ Suggest(w, UrlsOf(new), TRUE)

\* POST /strategy/generate.
AskToGenerate(w) == Build(w, "draft") /\ CallFrame

\* POST /strategy/source/suggest without urls: the known links.
AskForAdvice(w) ==
    LET known == KnownLinks(StoredUiLinks, Base)
    IN  /\ known # {}
        /\ Begin(w, [NoJob EXCEPT !.kind = "suggest"], "diagnose")
        /\ \E force \in BOOLEAN : Suggest(w, known, force)
        /\ CallFrame

AdviceTaken(w) ==
    /\ pc[w] = "diagnose" /\ job[w].kind = "suggest"
    /\ SaveCache(w)
    /\ EndCall(w)
    /\ UNCHANGED <<disk, pipeline, runVars, ghosts, edits, failed, left>>

\* What the analyses of links may come to: a feed, a page, another link.
Advised(urls) == {advised \in [urls -> Links] : \A u \in urls : advised[u] \in Advice[u]}

Resolved(g, advised) ==
    LET links == {IF l.url \in DOMAIN advised THEN Resolve(l, advised[l.url]) ELSE l : l \in g.config.links}
    IN  [g EXCEPT !.config.links = links, !.uiLinks = UrlsOf(links)]

\* The suggestions replace the new links of the form.
LinksResolved(w) ==
    /\ pc[w] = "diagnose" /\ job[w].kind \in {"draft", "replace"}
    /\ SaveCache(w)
    /\ \E advised \in Advised(asked[w]) :
          job' = [job EXCEPT ![w].gen = Resolved(job[w].gen, advised)]
    /\ Go(w, "built")
    /\ UNCHANGED <<disk, pipeline, runVars, ghosts, edits, failed, left>>

-----------------------------------------------------------------------------
(* Patching and deploying.                                                 *)

\* POST /strategy/patch.
AskToPatch(w) ==
    /\ \E p \in PatchWith : Begin(w, [NoJob EXCEPT !.kind = "patch", !.patch = p], "built")
    /\ UNCHANGED cacheVars /\ CallFrame

\* POST /strategy/deploy: of a request, of a modification, of the current draft.
AskToDeploy(w) ==
    /\ \/ Build(w, "replace")
       \/ /\ \/ \E p \in PatchWith : Begin(w, [NoJob EXCEPT !.kind = "amend", !.patch = p], "built")
             \/ Begin(w, [NoJob EXCEPT !.kind = "current"], "built")
          /\ UNCHANGED cacheVars
    /\ CallFrame

NextVersion(seen) == IF seen = NoState THEN 1 ELSE seen.version + 1
DeployedOf(seen) == IF seen = NoState THEN 0 ELSE seen.deployed

SameConfig(seen, gen) == seen # NoState /\ seen.gen.config = gen.config

\* Can the call go on with the state it loaded?
Accepted(call, seen) ==
    /\ call.kind \in {"patch", "amend", "current"} => seen # NoState
    /\ call.kind \in {"patch", "amend"} => ~Refused(seen.gen, call.patch)
    /\ call.kind = "patch" => Changed(seen.gen, call.patch)

\* Does the call make a version, or only touch the one there is?
MakesVersion(call, seen) ==
    CASE call.kind \in {"draft", "replace"} -> ~SameConfig(seen, call.gen)
      [] call.kind = "patch" -> TRUE
      [] call.kind = "amend" -> Changed(seen.gen, call.patch)
      [] call.kind = "current" -> FALSE

Deploys(call) == call.kind \in {"replace", "amend", "current"}

\* The generated strategy of the version the call makes or touches.  A draft
\* with the configuration of the current version replaces its strategy, a
\* deployment does not.
NewGen(call, seen) ==
    CASE call.kind = "draft" -> call.gen
      [] call.kind = "replace" -> IF SameConfig(seen, call.gen) THEN seen.gen ELSE call.gen
      [] call.kind \in {"patch", "amend"} ->
            IF MakesVersion(call, seen) THEN ApplyPatch(seen.gen, call.patch) ELSE seen.gen
      [] call.kind = "current" -> seen.gen

\* Mutant of NewState: the version is the length of the change log.
NewStateSameVersion(call, seen) ==
    LET version == IF seen = NoState THEN 1 ELSE seen.version
    IN  [version |-> version,
         deployed |-> IF Deploys(call) THEN version ELSE DeployedOf(seen),
         gen |-> NewGen(call, seen)]

\* Mutant of NewState: a draft counts as deployed.
NewStateDeployed(call, seen) ==
    LET version == IF MakesVersion(call, seen) THEN NextVersion(seen) ELSE seen.version
    IN  [version |-> version, deployed |-> version, gen |-> NewGen(call, seen)]

NewState(call, seen) ==
    LET version == IF MakesVersion(call, seen) THEN NextVersion(seen) ELSE seen.version
    IN  [version |-> version,
         deployed |-> IF Deploys(call) THEN version ELSE DeployedOf(seen),
         gen |-> NewGen(call, seen)]

\* The configuration a deployment writes: that of its request, or of the state.
Target(call, next) == IF call.kind = "replace" THEN call.gen.config ELSE next.gen.config

\* _load_state, and what the call makes of it.
LoadState(w) ==
    /\ pc[w] = "built"
    /\ \E torn \in {FALSE, MayBeTorn(w, "computed") /\ state # NoState} :
          LET seen == IF torn THEN NoState ELSE state
              next == NewState(job[w], seen)
          IN  /\ behind' = [behind EXCEPT ![w] = IF torn THEN @ \cup {"state"} ELSE @ \ {"state"}]
              /\ IF Accepted(job[w], seen)
                 THEN /\ Go(w, "computed")
                      /\ job' = [job EXCEPT ![w] =
                           [NoJob EXCEPT !.kind = job[w].kind, !.state = next,
                                         !.config = IF Deploys(job[w]) THEN Target(job[w], next) ELSE Initial,
                                         !.rows = IF MakesVersion(job[w], seen)
                                                  THEN <<[version |-> next.version, config |-> next.gen.config]>>
                                                  ELSE <<>>]]
                 ELSE EndCall(w)
    /\ UNCHANGED <<cacheVars, disk, pipeline, runVars, undone, astray, unsettled, edits, failed, left>>

AfterState(call) ==
    IF call.rows # <<>> THEN "saved" ELSE IF Deploys(call) THEN "write" ELSE "idle"

\* _save_state.
SaveState(w) ==
    /\ pc[w] = "computed"
    /\ state' = job[w].state
    /\ Writes(w, "state")
    /\ astray' = (astray \/ Deploys(job[w]))
    /\ IF AfterState(job[w]) = "idle" THEN EndCall(w)
       ELSE Go(w, AfterState(job[w])) /\ UNCHANGED job
    /\ UNCHANGED <<cacheVars, history, file, pipeline, runVars, unsettled, edits, failed, left>>

\* append_strategy_history loads the rows and saves them with its own.
LoadHistory(w) ==
    /\ pc[w] = "saved"
    /\ \E torn \in {FALSE, MayBeTorn(w, "rows") /\ history # <<>>} :
          /\ job' = [job EXCEPT ![w].rows = (IF torn THEN <<>> ELSE history) \o @]
          /\ behind' = [behind EXCEPT ![w] = IF torn THEN @ \cup {"history"} ELSE @ \ {"history"}]
    /\ Go(w, "rows")
    /\ UNCHANGED <<cacheVars, disk, pipeline, runVars, undone, astray, unsettled, edits, failed, left>>

SaveHistory(w) ==
    /\ pc[w] = "rows"
    /\ history' = job[w].rows
    /\ Writes(w, "history")
    /\ IF Deploys(job[w]) THEN Go(w, "write") /\ job' = [job EXCEPT ![w].rows = <<>>]
       ELSE EndCall(w)
    /\ UNCHANGED <<cacheVars, state, file, pipeline, runVars, astray, unsettled, edits, failed, left>>

-----------------------------------------------------------------------------
(* The configuration file.                                                 *)

\* overwrite = false and the file exists: the deployment ends, after the state
\* was saved.
RefuseToOverwrite(w) ==
    /\ pc[w] = "write"
    /\ EndCall(w)
    /\ UNCHANGED <<cacheVars, disk, pipeline, runVars, ghosts, edits, failed, left>>

\* The file is written aside and renamed.
WriteFile(w) ==
    /\ pc[w] = "write"
    /\ file' = job[w].config
    /\ Writes(w, "file")
    /\ astray' = ("state" \in behind[w])
    /\ unsettled' = TRUE
    /\ Go(w, "set_config")
    /\ UNCHANGED <<cacheVars, state, history, pipeline, job, runVars, edits, failed, left>>

\* The deployment's target_config_path names another file, which nobody loads;
\* the configuration is given to the pipeline all the same.
WriteElsewhere(w) ==
    /\ pc[w] = "write"
    /\ job' = [job EXCEPT ![w].away = TRUE]
    /\ unsettled' = TRUE
    /\ Go(w, "set_config")
    /\ UNCHANGED <<cacheVars, disk, pipeline, runVars, behind, undone, astray, edits, failed, left>>

\* The panel shows the configuration in a form that the operator saves later.
OpenForm(w) ==
    /\ edits' = edits + 1
    /\ Begin(w, [NoJob EXCEPT !.kind = "panel", !.config = file, !.stamp = edits'], "form")
    /\ UNCHANGED <<cacheVars, disk, pipeline, runVars, undone, astray, unsettled, failed>>

\* save_state with imported section files: they are written before the root.
SaveSections(w) ==
    /\ pc[w] = "form"
    /\ file' = SectionsSaved(file, job[w].stamp)
    /\ Writes(w, "file")
    /\ astray' = TRUE /\ unsettled' = TRUE
    /\ Go(w, "sections")
    /\ UNCHANGED <<cacheVars, state, history, pipeline, job, runVars, edits, failed, left>>

\* save_state: the root file.
SaveRoot(w) ==
    /\ pc[w] \in {"form", "sections"}
    /\ file' = PanelConfig(job[w].config, job[w].stamp)
    /\ Writes(w, "file")
    /\ astray' = TRUE /\ unsettled' = TRUE
    /\ Go(w, "reload")
    /\ UNCHANGED <<cacheVars, state, history, pipeline, job, runVars, edits, failed, left>>

\* config_editor_save loads the file it has saved.
Reload(w) ==
    /\ pc[w] = "reload"
    /\ job' = [job EXCEPT ![w].config = Expand(file), ![w].stamp = 0]
    /\ Reads(w, "file")
    /\ Go(w, "set_config")
    /\ UNCHANGED <<cacheVars, disk, pipeline, runVars, undone, astray, unsettled, edits, failed, left>>

-----------------------------------------------------------------------------
(* update_config: the configuration first, then the ingestion manager, then *)
(* the other engines.                                                      *)

\* A part is replaced: other updates in progress lose it, and a run notices.
SetPart(w, part, stamp) ==
    /\ live' = [live EXCEPT ![part] = stamp]
    /\ mixed' = (mixed \/ runPc # "idle")
    /\ LET mine == IF part = "config" THEN behind[w] \ {"live"} ELSE behind[w]
       IN  /\ behind' = [v \in Workers |-> IF v = w THEN mine ELSE behind[v] \cup {"live"}]
           /\ undone' = IF mine \cap {"file", "live"} = {} THEN undone ELSE undone \cup {"live"}
           /\ unsettled' = (part # "engines" \/ mine \cap {"file", "live"} # {} \/ job[w].away)

SetConfig(w) ==
    /\ pc[w] = "set_config"
    /\ applied' = Append(applied, job[w].config)
    /\ SetPart(w, "config", Len(applied) + 1)
    /\ job' = [job EXCEPT ![w] = [NoJob EXCEPT !.kind = job[w].kind, !.stamp = Len(applied) + 1,
                                              !.away = job[w].away]]
    /\ Go(w, "set_ingestion")
    /\ UNCHANGED <<cacheVars, disk, runPc, used, astray, edits, failed, left>>

\* Mutant of SetIngestion: the ingestion manager is not replaced.
SetIngestionForgotten(w) ==
    /\ pc[w] = "set_ingestion"
    /\ SetPart(w, "engines", job[w].stamp)
    /\ Go(w, "set_engines")
    /\ UNCHANGED <<cacheVars, disk, applied, job, runPc, used, astray, edits, failed, left>>

SetIngestion(w) ==
    /\ pc[w] = "set_ingestion"
    /\ SetPart(w, "ingestion", job[w].stamp)
    /\ Go(w, "set_engines")
    /\ UNCHANGED <<cacheVars, disk, applied, job, runPc, used, astray, edits, failed, left>>

SetEngines(w) ==
    /\ pc[w] = "set_engines"
    /\ SetPart(w, "engines", job[w].stamp)
    /\ EndCall(w)
    /\ UNCHANGED <<cacheVars, disk, applied, runPc, used, astray, edits, failed, left>>

-----------------------------------------------------------------------------
(* Failures.                                                               *)

Fault ==
    /\ left.faults > 0
    /\ left' = [left EXCEPT !.faults = @ - 1]
    /\ failed' = TRUE

-----------------------------------------------------------------------------
(* A run.                                                                  *)

SourceUrls(c) == IF c.links # {} THEN UrlsOf(c.links) ELSE {s.url : s \in c.sources}

\* run_once up to _maybe_refresh_source_strategies.
RunBegin ==
    /\ runPc = "idle"
    /\ left.runs > 0
    /\ left' = [left EXCEPT !.runs = @ - 1]
    /\ used' = {live["config"]}
    /\ mixed' = (\E part \in Parts : live[part] # live["config"])
    /\ IF SourceUrls(Base) = {}
       THEN runPc' = "ingest" /\ UNCHANGED cacheVars
       ELSE runPc' = "refresh" /\ Suggest(Run, SourceUrls(Base), FALSE)
    /\ UNCHANGED <<disk, pipeline, callVars, ghosts, edits, failed>>

RunRefreshed ==
    /\ runPc = "refresh"
    /\ SaveCache(Run)
    /\ runPc' = "ingest"
    /\ UNCHANGED <<disk, pipeline, callVars, used, mixed, ghosts, edits, failed, left>>

\* The refresh raises; the run goes on.
RunRefreshFails ==
    /\ runPc = "refresh"
    /\ Fault
    /\ Forget(Run)
    /\ runPc' = "ingest"
    /\ UNCHANGED <<disk, pipeline, callVars, used, mixed, ghosts, edits>>

\* Mutant of RunIngest: the run has kept the first ingestion manager.
RunIngestFirst ==
    /\ runPc = "ingest"
    /\ used' = used \cup {1}
    /\ runPc' = "analyse"
    /\ UNCHANGED <<cacheVars, disk, pipeline, callVars, mixed, ghosts, edits, failed, left>>

RunIngest ==
    /\ runPc = "ingest"
    /\ used' = used \cup {live["ingestion"]}
    /\ runPc' = "analyse"
    /\ UNCHANGED <<cacheVars, disk, pipeline, callVars, mixed, ghosts, edits, failed, left>>

RunAnalyse ==
    /\ runPc = "analyse"
    /\ used' = used \cup {live["engines"]}
    /\ runPc' = "idle"
    /\ UNCHANGED <<cacheVars, disk, pipeline, callVars, mixed, ghosts, edits, failed, left>>

-----------------------------------------------------------------------------
(* Broken calls, restarts and time.                                        *)

\* A call ends with an exception before its next effect: 400 or 500.
CallFails(w) ==
    /\ pc[w] # "idle"
    /\ Fault
    /\ EndCall(w)
    /\ Forget(w)
    /\ UNCHANGED <<disk, pipeline, runVars, ghosts, edits>>

\* What a crash in a write leaves of a file.
CrashFile(stage, f, now, next, empty) ==
    \/ next = now /\ UNCHANGED undone
    \/ /\ \E w \in Workers : pc[w] = stage
       /\ next = empty
       /\ undone' = undone \cup {f}

\* The process dies and starts again with the configuration file.
Restart ==
    /\ Fault
    /\ CrashCache
    /\ \/ CrashFile("computed", "state", state, state', NoState) /\ UNCHANGED history
       \/ CrashFile("rows", "history", history, history', <<>>) /\ UNCHANGED state
    /\ applied' = Append(applied, Expand(file))
    /\ live' = [part \in Parts |-> Len(applied) + 1]
    /\ unsettled' = FALSE
    /\ pc' = [w \in Workers |-> "idle"]
    /\ job' = [w \in Workers |-> NoJob]
    /\ behind' = [w \in Workers |-> {}]
    /\ runPc' = "idle" /\ used' = {} /\ mixed' = FALSE
    /\ UNCHANGED <<file, astray, edits>>

TimePasses ==
    /\ left.ages > 0
    /\ left' = [left EXCEPT !.ages = @ - 1]
    /\ Age
    /\ UNCHANGED <<disk, pipeline, callVars, runVars, ghosts, edits, failed>>

-----------------------------------------------------------------------------
(* The specification.                                                      *)

Request(w) ==
    AskToGenerate(w) \/ AskForAdvice(w) \/ AskToPatch(w) \/ AskToDeploy(w) \/ OpenForm(w)

\* What the operator does with an open form is up to the operator.
Submit(w) == SaveSections(w) \/ (pc[w] = "form" /\ SaveRoot(w))

Step(w) ==
    \/ AdviceTaken(w) \/ LinksResolved(w)
    \/ LoadState(w) \/ SaveState(w) \/ LoadHistory(w) \/ SaveHistory(w)
    \/ RefuseToOverwrite(w) \/ WriteFile(w) \/ WriteElsewhere(w)
    \/ (pc[w] = "sections" /\ SaveRoot(w)) \/ Reload(w)
    \/ SetConfig(w) \/ SetIngestion(w) \/ SetEngines(w)

RunStep == RunRefreshed \/ RunIngest \/ RunAnalyse

Next ==
    \/ \E w \in Workers : Request(w) \/ Submit(w) \/ Step(w) \/ CallFails(w)
    \/ RunBegin \/ RunStep \/ RunRefreshFails
    \/ Restart \/ TimePasses

Spec == Init /\ [][Next]_vars

\* The server's threads and the run go on; nobody has to ask for anything.
Fairness == WF_vars(RunStep) /\ \A w \in Workers : WF_vars(Step(w))

FairSpec == Spec /\ Fairness

-----------------------------------------------------------------------------
(* Properties.                                                             *)

TypeOK ==
    /\ CacheTypeOK
    /\ state \in States \cup {NoState}
    /\ history \in Seq(Rows)
    /\ file \in Configs
    /\ applied \in Seq(Configs)
    /\ live \in [Parts -> DOMAIN applied]
    /\ pc \in [Workers -> Stages]
    /\ job \in [Workers -> Jobs]
    /\ runPc \in {"idle", "refresh", "ingest", "analyse"}
    /\ used \subseteq DOMAIN applied
    /\ mixed \in BOOLEAN
    /\ behind \in [Workers -> SUBSET Files]
    /\ undone \subseteq Files
    /\ astray \in BOOLEAN /\ unsettled \in BOOLEAN
    /\ edits \in Nat /\ failed \in BOOLEAN
    /\ left \in [calls : Nat, width : Nat, runs : Nat, ages : Nat, faults : Nat]

\* A version number names one configuration: the history has one row of it, and
\* the row of the current version holds the current configuration, unless
\* a call saved the state or the history on top of another one's save
\* (service.py:690 and storage.py:482 have no lock) or a write was torn.
VersionsNameOneStrategy ==
    undone \cap {"state", "history"} = {} =>
        /\ \A i, j \in DOMAIN history : i # j => history[i].version # history[j].version
        /\ state # NoState =>
              \A i \in DOMAIN history :
                  /\ history[i].version <= state.version
                  /\ history[i].version = state.version => history[i].config = state.gen.config

\* The version that state.json calls deployed is the one in config.yaml, over
\* drafts, patches and restarts, unless the last deployment ended between saving
\* the state and writing the file (service.py:566) or wrote a file of its own
\* choice (service.py:565), the panel wrote since, or an update was lost.
DeployedIsOnDisk ==
    (~astray /\ undone \cap {"state", "history"} = {} /\ state # NoState) =>
        /\ state.deployed = state.version => file = state.gen.config
        /\ \A i \in DOMAIN history :
              history[i].version = state.deployed => file = history[i].config

\* The pipeline does what it would do after a restart, except that a deployed
\* configuration may lack sources the next loading adds.
FollowsFile ==
    /\ \A part \in Parts : live[part] = live["config"]
    /\ Effective(Base) = Effective(Expand(file))
    /\ Base.sources \subseteq Expand(file).sources
    /\ Base.carried = file.carried /\ Base.styled = file.styled

\* When no update is pending or was disturbed, the pipeline follows the file
\* (pipeline.py:94, config_panel.py:104, service.py:568), unless the last update
\* came with a deployment to another file, until an update from the file or a
\* restart.
LiveFollowsFile == ~unsettled => FollowsFile

\* The parts of the pipeline a run used come from one update, unless an update
\* happened during the run or had been broken off before.
RunUsesOneUpdate == ~mixed => \A m, n \in used : m = n

\* A patch takes only its own token away from what the pipeline looks for, and
\* brings only its own and those the strategy's lists have, although it rebuilds
\* the profile from other lists than the generation did: a form's own keywords
\* make room there for the mapper's tags (service.py:623) and stay in the domain
\* profile.
PatchIsLocal ==
    [][\A w \in Workers :
          (SaveState(w) /\ job[w].kind \in {"patch", "amend"} /\ "state" \notin behind[w]) =>
              LET old == Effective(state.gen.config)
                  new == Effective(state'.gen.config)
              IN  \E p \in PatchWith :
                      /\ old \ new \subseteq p.out
                      /\ new \ old \subseteq p.in \cup state.gen.listed]_vars

\* What a deployment or the panel wrote to the file that is loaded comes to rule
\* the pipeline, unless something failed or two updates overlapped.
WrittenBecomesLive ==
    \A w \in Workers :
        (pc[w] \in {"reload", "set_config"} /\ ~job[w].away)
            ~> (FollowsFile \/ failed \/ "live" \in undone)
=============================================================================
