# A TLA+ model of the signal monitoring agent

This directory models the control of the monitoring agent in `src/monitor_agent/`: which thread does
what in which order, which file each step reads and replaces, and what happens when steps of
different threads interleave, a step fails, or the process dies. Texts, prompts and page contents are
abstracted; what the LLM answers is a nondeterministic choice.

## 1. The system

One Python process, several threads, and a directory of JSON files.

| Part | State it keeps | Operations |
|---|---|---|
| Inbox engine (`inbox_engine.py`) | `inbox_signals.json`: tracked user signals by tracking id, with `briefed_once_at` | submit or follow up, refresh against the run's signals, mark as briefed |
| Run pipeline (`core/pipeline.py`) | `_lock`, the manifest in memory, its engines | `run_once` (fourteen stages), `ingest_only`, `update_config`, `brief_user_signal` |
| Ingestion (`ingestion_layer/`) | `source_cursors.json` by source key | fetch all sources, filter against the cursor, advance, save the map |
| Extractor, time engine, retrieval, dedup (`signal_engine/`, `time_engine.py`, `candidate_retrieval.py`, `llm_dedup_engine.py`) | LLM verdict cache | first `max_input_items` items to signals; each new, update or duplicate |
| Event store and canonical signals (`event_store.py`, `core/storage.py`) | `events.json`, canonical signals | upsert, replace the file |
| Priority and filter (`priority_engine.py`, `filter_engine/`) | nothing | best signal per event, thresholds, news test, ranks and caps |
| Briefing (`briefing/`) | `_compose_cache` in memory | blocks for the signals, text, script and cards made of them |
| Notification (`notifier/`) | nothing | send the cards to Telegram, then to DingTalk |
| Output files (`storage_engine.py`) | `outputs/`, `history.json` | write idempotently under a free name, append a row |
| Reports (`core/storage.py`) | `runs/<id>/manifest.json`, `runs/latest.json`, `summaries/<day>.jsonl` | written at the end of a run, served by the API |
| Webhooks (`core/webhooks.py`) | subscriptions, with a lock | subscribe, unsubscribe, deliver |
| Telegram and DingTalk inbound (`inbound/`) | update offset; nothing | poll or receive, submit, brief at once, acknowledge |
| Strategy engine (`strategy_engine/service.py` and its helpers) | `strategy_state.json`, `strategy_history.json` | preview, generate, patch, deploy |
| Source strategies (`strategy_engine/source_strategy_engine.py`) | the cache of link analyses | suggest |
| Configuration and its panel (`core/config.py`, `api/config_panel.py`) | `config.yaml` and section files | load and expand, show a form, save it, reload |
| API and scheduler (`api/server.py`, `core/scheduler.py`) | nothing | start runs, submit, deploy, serve reports |

Who runs concurrently: the run thread (a scheduler job, a `POST /run_now` worker or the boot run; one
at a time, because `run_once` takes `_lock` without waiting), the Telegram poller, the DingTalk
stream thread, and the API's worker threads. Only three locks exist: `MonitoringPipeline._lock`
(around `run_once` only), `WebhookManager._lock` and the Telegram `_state_lock`. Every JSON file is
loaded, changed and saved as a whole with `write_text`; a malformed file reads as empty. Only
`config.yaml` is written aside and renamed.

What is hard: load-modify-save from several threads without a lock; a file replaced by what was read
several LLM calls earlier; a run that fails at any stage, also while it reports the failure; a crash
between two files or between a notification and its bookkeeping; limits (cards, input items, caps of
the filter) applied after the state says the work was done; engines replaced one by one under a run
in progress; caches that stand in for state. `PROJECT.json` lists each hazard at its line.

What makes the parts correct:

- inbox: an acknowledged submission is kept; what is marked briefed was shown; nothing is shown twice
  without a fault; every submission reaches a brief;
- pipeline: no item of a feed disappears between its cursor and a brief; the files of one run agree;
  the dedup history is rolled back by a torn write of it only; every run ends and gives the lock back;
- ingestion: a source's failure leaves the others alone; an item is emitted until it was seen; a
  source is not fetched before its interval;
- stories: an update finds the record of its event; a report is called new once; a pair is judged once;
- selection and delivery: a stored signal is left out for a reason; text and notification present the
  same signals; a mark means a channel has received the cards;
- strategy: a version names one strategy; configuration, state and pipeline agree after every
  deploy; a patch takes away what it names and brings nothing its strategy does not list;
- inbound services: every message is handled, and again only after a restart;
- outputs and webhooks: a history row leads to what its run wrote; subscriptions are kept and called.

## 2. Modules

| Module | What it is |
|---|---|
| `InboxStore` | The abstract inbox: a table, atomic `Submit`, `Show` and `MarkShown`. Also the operators on the table that the detailed module uses. |
| `Inbox`, `MCInbox`, `InboxProofs` | The inbox of the code: file, threads, load and save as separate steps, the run's refresh, notification and marking, faults. |
| `Pipeline`, `PipelineProofs` | The life of a run over one feed, with `ingest_only` beside it. |
| `FeedReader` | What incremental ingestion promises of a source: a reader with an unbounded memory. |
| `Ingestion`, `IngestionProofs` | `ingest_all` over several feeds and web sources, with the cursor map shared by a run and `ingest_only`. |
| `StrategyRules` | The pure part of strategy engine and configuration: generate, patch, expand, panel. |
| `SourceStrategy` | The cache of link analyses and its callers. |
| `ControlPlane`, `MCControlPlane`, `ControlProofs`, `VersionProofs` | The strategy endpoints and the panel as sequences of loads and saves, `update_config`, and a run that reads the parts it replaces. |
| `Selection` | Pure: freshness, candidates, the relation that counts, priority, filter, ranks and caps. |
| `Stories` | Canonical signals, event timelines, verdict cache, and how a run resolves its signals against them. |
| `Outputs`, `Webhooks`, `Inbound`, `Delivery` | One component each: output files, subscriptions, messages, blocks and notification. |
| `Digest`, `MCDigest`, `DigestProofs`, `StoryProofs` | The composition of the five before with the run that drives them. |

`Inbox` implements `InboxStore` (`ImplementsStore`) and `Ingestion` implements `FeedReader` (`ImplementsReader`),
both refinements. `Pipeline`, `Ingestion`, `Digest` and
`ControlPlane` look at a run from four sides: `Pipeline` has its lock, its reports and one feed; `Ingestion`
has every kind of source and stops where the items are returned; `Digest` begins with the items and has
every stage from their resolution to the webhooks; `ControlPlane` has the parts of the pipeline it reads.

### Inbox

`disk` is `inbox_signals.json`; `disk.rows` is its table of tracking ids to rows. A row keeps its
identity (`gen`, the number of the call that created it, in place of the uuid), its urls and whether
`briefed_once_at` is set. `buf[p]` is the list a thread loaded and changed; `brief` is the list
`run_once` selected. `shown`, `selected` and `acked` are ghosts: what reached the user, what the sent
briefs held, and which calls returned.

| Action | Code |
|---|---|
| `IngestLoad(c, b)` | `ingest_user_signals` up to `_save_signals`, with the upsert applied in memory |
| `RefreshLoad` | `refresh_with_system_signals` up to its save; an empty inbox returns early |
| `Save`, or `Truncate` and `Flush` | `save_inbox_signals`; with `TornWrites` the truncation of `write_text` is a step of its own |
| `NotifySent`, `NotifyFails` | `NotificationManager.notify`: some channel sent all its messages, or none did |
| `MarkLoad` | `mark_briefed` up to its save, in a fresh load, skipping ids that are gone or marked |
| `Abort`, `Crash` | an exception in an operation; the death of the process |

Two constants separate what the code guarantees from what it does not. `Overlap = FALSE` restricts
the model to executions in which load-save sequences do not overlap; the code does not enforce this,
and `inbox_lost` shows what follows. `TemplateFallback` is `BRIEFING_ALLOW_TEMPLATE_FALLBACK` (or no
localizer): every selected signal gets a composed block.

Abstracted: match texts and the caps of `latest_updates`; one call names a tracking id at most once;
tracking ids are not blank; the resolver runs before the load and changes no shared state.

### Pipeline

One feed stands for all sources. Item `i` is older than `i + 1`; `cursor`, `canonical` and `events`
are the items each file holds. `items[p]` is what a thread carries from stage to stage; `loaded[p]` is
what it read before (the cursor before fetching, the events before resolving), because the code writes
these files back whole. `manifests`, `summary` and `latest` are the three reports of a run. `handed`,
`leftOut`, `wasted` and `erased` are ghosts: items that went into a brief, items that an extraction or a
brief had before it and left out, items taken by `ingest_only` or by a run that ended early, and items
whose event a write that broke off erased.

| Action | Code |
|---|---|
| `StartRun` | `_lock.acquire(blocking=False)`, the run id |
| `RunFetch`, `RunSaveCursor` | `ingest_all`: load the cursors, fetch and filter; save the advanced map, which two saves at once may garble |
| `Resolve` | `extract` (any of the first `MaxInput` items) and `_resolve_events` (dedup verdicts) |
| `SaveCanonical`, `SaveEvents` | `upsert_canonical_signals`, then `EventStore.save` |
| `SaveBrief` | inbox refresh, filter, brief, outputs, notification (whose inbox side is `Inbox`); any of the signals get into the brief |
| `Summarise`, `PublishOutputs`, `SaveManifest`, `SaveLatest` | the reports, in this order |
| `IngestOnlyFetch`, `IngestOnlySaveCursor`, `IngestOnlyFails` | `POST /ingest` with system ingestion, without the lock |
| `RunFails`, `ReportFails`, `Crash` | the `except` and `finally` of `run_once`; the death of the process |
| `BreakOff` (part of the four faults) | a `write_text` that ends after it truncated: the cursors, the canonical signals, the events then read as empty, the manifest and `latest.json` cannot be read |

The extractor may leave items out, merge them or write malformed rows, the filter ranks signals out, and
the generator drops signals without a block, with a warning or none: which items get into a brief is a
choice, and those that were before an extraction or a brief and did not are recorded in `leftOut`, apart
from those in `handed`. `NothingVanishes` therefore says that an item the cursors know has at least been
read; that a reader is told of what was left out, the code does not promise. Who left out what, and why,
is the matter of `Digest`.

Abstracted: LLM verdicts are choices; each item is a story of its own; a summary row that cannot be
appended leaves the file as it was, since its rows are read one by one.

### Ingestion

`cursors` is `source_cursors.json`, keyed by the kind of source and the source. A cursor is the sequence of
remembered ids and the time since `last_success_at`. `book[p]` is the map that a call loaded and advances,
`todo[p]` the sources it has not finished, `out[p]` what it has collected. Three ghosts say what became of the
items: `recorded` has those of the calls whose map was saved whole, since the file was last left empty;
`delivered` those that calls returned; `lost` those of calls that ended between their save and their return.

| Action | Code |
|---|---|
| `Start` | load the map, empty if another call is saving it; submit the feeds that are due to the thread pool |
| `FeedDelivers`, `FeedFails` | a future of the pool, in any order: `filter_rss_rows`, `advance_rss_cursor`; or its exception |
| `PageSkipped` | `_record_skip_if_needed` for a web source; these come one by one after the feeds |
| `PageParsed` | `HtmlIngestor`: reads the cursor under the browser's key, stores it under its own |
| `PageBrowsed` | `PlaywrightIngestor`, forced or as the fallback; some links may fail to open |
| `PageFails` | both ways failed |
| `SaveCursors` | the save of the whole map (`manager.py:214`); two saves at once may leave no JSON |
| `Return` | the health and advisories of the sources, and the return of the items |
| `Abort` | an exception outside the sources, or a crash: before the save, inside the write (the file reads as no cursors), or after it |
| `Publish`, `Tick` | the publishers and the clock |

Abstracted: items are published in order and a listing shows the newest `MaxPerSource`, so that the test of
publication times adds nothing to the test of ids; ids and urls are limited alike and are one list; the root page of a web source is an item of every call
and is left out, and so are web sources without followed links, which have no incremental state; a link
that redirects is remembered under its own address; cached analysis hints only lengthen the interval;
the RSS second hop changes texts only. When nothing is kept the code leaves `last_success_at` alone, and so
does `Advance`.

### ControlPlane, StrategyRules, SourceStrategy

`state`, `history` and `file` are the three files of the strategy; `applied` is the sequence of
configurations that `update_config` received and `live[part]` the one each part of the pipeline comes from.
`job[w]` is what a call holds between a load and a save: the next state, the rows of the history, the
configuration to write; `job[w].away` says that it wrote it to another file. The focus areas, entities and keywords of a configuration are one set of tokens;
`profile` and `links` stand for its domain profiles, `named` for its strategy profile, `carried` and `styled`
for the sections that a panel edit sets. `behind`, `undone`, `astray`, `unsettled` and `mixed` are ghosts:
what a call has read that was replaced since, what was saved on top of such a reading, and whether file or
pipeline are being changed.

| Action | Code |
|---|---|
| `AskToGenerate`, `LinksResolved` | `POST /strategy/generate`: `_build_generation` (`Build`), with `auto_source_diagnosis` the suggestions for new links of a form |
| `AskForAdvice`, `AdviceTaken` | `POST /strategy/source/suggest` |
| `AskToPatch`, `AskToDeploy` | `POST /strategy/patch`, `/strategy/deploy` of a request (with the same `Build`), of a modification, of the current draft |
| `LoadState`, `SaveState` | `_load_state`, what the call makes of it, `_save_state` |
| `LoadHistory`, `SaveHistory` | the two halves of `append_strategy_history` |
| `RefuseToOverwrite`, `WriteFile`, `WriteElsewhere` | the end of `deploy`, after the state was saved: refused, the file the server loads, or a `target_config_path` of the request that it does not load |
| `OpenForm`, `SaveSections`, `SaveRoot`, `Reload` | the panel: what a form shows, the section files, the root file, `load_config` |
| `SetConfig`, `SetIngestion`, `SetEngines` | `update_config`, part by part |
| `RunBegin`, `RunRefreshed`, `RunRefreshFails`, `RunIngest`, `RunAnalyse` | the run where it reads a part of the pipeline |
| `Suggest`, `SaveCache`, `Forget`, `Age` | `SourceStrategyEngine.suggest` and the refresh interval |
| `CallFails`, `Restart`, `TimePasses` | an exception of a call; the death of the process, a torn file included; an interval |

Facts of the code that the model follows and a reader may not expect:

- `deploy` gives the generated configuration to `update_config` as it is, without the expansion of
  `load_config`. The pipeline then lacks the sources that the links of the profiles add, until a
  restart or a save of the panel; `FollowsFile` asks for inclusion of the sources for this reason.
- A patch changes the strategy profile and leaves the domain profiles, so a removed token stays
  effective: the filter joins both.
- A patch also replaces the keywords of a form by the tags the mapper recommended (`service.py:623`, never
  empty, `domain_mapper.py:136`), which the form did not have (`Listed` against `Named`). Patching a form may so
  make tokens effective that the patch does not name; `PatchIsLocal` admits those its strategy lists, and no others.
- A deployment to another `target_config_path` counts as deployed, and the pipeline gets the configuration;
  a restart takes it back.
- A generated configuration has no briefing and browser sections, so a deployment resets them.
- State and history are saved as deployed before `overwrite` is checked (`service.py:565-573`).
- An update of a value to itself removes it.
- A page link that looks like a feed is added as a feed beside the page it is.

Abstracted: what parsers and mappers make of a text (the tokens of a request); preview (saves nothing);
the caps on feeds and pages, which the requests respect; validation of values; the panel writes the file
a deployment writes without a `target_config_path` (`MONITOR_CONFIG` or no `config.local.yaml`); what a
deployment writes to another file is not looked at.

### Digest, Selection, Stories, Delivery, Outputs, Inbound, Webhooks

An item is what a source published. A report is what the extractor makes of it, identified by its fingerprint:
the title, the links and the beginning of the summary, which the model writes (`extractor.py:155`). `Readings`
are the rows the model may write of an item; an extraction is any sequence of at most `MaxRows` rows of the first
`MaxInput` items, so that items are left out, merged, split or repeated, and one item may be another report in the
next run. Without a model it is one row for each item (`Plain`). A signal has the run that extracted it, its place in
it and its report, with its event, kind, freshness and time. `history`, `events` and `verdicts` are the story files,
`known` and `records` what the run loaded of them, at `taken`; `todo` is what it has not resolved. `engine` is the
cache of the installed `LLMDedupEngine`, `asking` the comparison that waits for the model, with the cache of the
engine that asked, and the ghost `overtaken` says that the installed engine was made during such a comparison.
`chosen` and `shown` are the system signals and the user topics of its brief; `blocks` is `_compose_cache`.
Importances are tenths and scores ten-thousandths of the code's floats.

| Action | Code |
|---|---|
| `StartRun` | `run_once`: time engine, extraction, the one load of the stories; two runs may share a second |
| `Resolve` (`Turn`, `Answered`) | one turn of `_resolve_events`: candidates, cached verdicts, the best relation, the event; with a question to the model, the two sides of its answer are steps of their own, and the second saves the cache |
| `StoreCanonical`, `StoreEvents` | the two saves |
| `Select` | inbox, `PriorityEngine.compute`, `FilterEngine.apply` |
| `WriteBrief`, `Speak` | `generate`; `generate_audio_script` and the TTS |
| `WriteOne`, `WriteRow`, `OutputsFail` | `save_outputs`, file by file, and its row in `history.json` |
| `PrepareCards`, `TellOne`, `Notified` | `build_signal_cards`, one channel after another, `mark_briefed` |
| `Publish`, `CallOne`, `EndRun` | `publish_run_outputs` and the end of the run |
| `RunFails` | an exception the run does not survive, the save of a story file or of the verdicts (`FailToSave`) included |
| `Telegram` (`Poll`, `Handle`, `SaveOffset`), `SendsUpdate`, `Pushed`, `OffsetNotSaved` | the bot, its users, the channels that push |
| `BeginHooking`, `EndHooking` | `subscribe` and `unsubscribe`, under the lock |
| `Reconfigure` | `update_config`, as far as it replaces the generator and the dedup engine (`InstallEngine`) |
| `TimePasses`, `Crash` | half a day; the death of the process, a torn file included |

Facts of the code that the model follows and a reader may not expect:

- A signal is stored when it is accepted and selected later. What the caps cut is known from then on and
  is in no later brief; `LeftOutForAReason` states what may be cut.
- Priority keeps the best signal per event before the thresholds apply, so that an update that passes may be
  suppressed by a signal that does not. Novelty is scored after the threshold and has no effect.
- A row that the model leaves out of its answer is cached as DIFFERENT for good.
- An engine that `update_config` makes during a comparison loads the verdicts before they are saved; its next save
  erases them. `VerdictsAreKept` excuses this, by `overtaken`, and nothing else but a torn file.
- A record that is missing is made of the update and the update is entered once more.
- The compose cache remembers failures, is cleared beyond its limit and replaced with the generator, so the
  notification may present other signals than the brief in these cases. The English path does not cache; it
  cannot fail either (`Template`).
- A request for an immediate brief is answered and not stored, in `telegram_service.py` and in
  `dingtalk_service.py`; a message whose handling raises is not handled again.
- A subscriber that unsubscribes during a publication is still called.

Abstracted: message texts and card layouts; the commands of the bot are four kinds of message; the inbox is
the set of its topics (its own races are in `Inbox`), and since the priority engine and the filter tell user
signals apart by the tracking id of their row, they keep all of them and no property is stated of that;
similarity is a table on fingerprints; a run ends with its webhooks (its
reports are in `Pipeline`); signatures and payloads of the calls.

## 3. Runs

| Run | Shows | Bounds |
|---|---|---|
| `inbox_serial` | Without overlap: type, no lost submission, no mark without a showing, refinement of `InboxStore`, and that every submission is shown | 2 threads, 2 ids, 2 urls, 2 calls, 2 faults |
| `inbox_threads` | With overlap, torn writes and dropped cards: a mark stands for a brief that was sent; repetitions stay bounded | 2 threads, 2 ids, 3 calls, 1 fault, symmetry |
| `inbox_lost` | Violation: overlap loses an acknowledged submission | 1 thread, 2 calls |
| `inbox_unshown` | Violation: the fourth of four signals is marked and was never shown | 4 ids, 3 cards |
| `inbox_followup` | Violation: a follow-up to a briefed signal is never briefed | 1 id, 2 calls |
| `pipeline` | Items, reports, history and lock under two triggers, `ingest_only`, failures, crashes and torn files; every run ends | 2 items, 2 runs, 2 faults; items and faults at most 3 together |
| `pipeline_cap` | Violation: items beyond the extractor's limit are skipped for good | 3 items fetched, 2 read |
| `ingestion_serial` | One call at a time: cursors claim only what was delivered, is still to be returned or was lost after the save; refinement of `FeedReader`: a listed item is emitted until it was recorded, and again in the overlap window only | 1 feed with 4 items, 2 web sources with 1 link, 1 abort |
| `ingestion_threads` | A run and an `ingest_only` call interleave: what a reliable feed lists is delivered, unless a call is cut off between save and return | a feed with 2 items, one that fails, 1 abort |
| `ingestion_html` | Violation: a source read as HTML repeats what it delivered | 1 web source, 2 links |
| `control` | Versions, files, cache and pipeline under every kind of call, around a run, with failures and restarts | 4 tokens, 2 links, 2 workers; budgets below |
| `digest` | From extraction to webhooks: stories, selection, brief, files, notification, messages, subscriptions | 3 items, 3 reports, 2 rows of an extraction, 3 topics, 2 workers, 2 subscriptions; budgets below |

Bounds. A lost update needs two load-save sequences and one row; a wrong mark needs a row that
changes between the selection and the marking, which two calls give; a repetition needs one fault.
Two items separate the overlap window from the rest of a fetch, two runs from two triggers give every
ordering of locks and reports, and two faults give a failure while a failure is being reported. `MaxEvents` bounds items and faults together:
two items meet one fault, and one item meets two.
`ingestion_serial` lists two of four items, so that items leave the listing, and remembers three ids:
with two, an id that is still listed is pushed out by the ids of the overlap window and `ImplementsReader`
fails. In general `RecentLimit` must be at least `2 * MaxPerSource - 1`; the code has 200 against defaults of
20 and 35, and accepts any `max_items`. `ingestion_threads` needs two items, one old and one that pushes it
out, and one failing feed beside the reliable one.

`control` and `digest` start with one of several budgets, each a bound on how often an environment action
is taken; together they take the pairs of kinds of event that a property relates.
`control`: three calls one after another (generate, patch, deploy); two calls at a time with a fault; a call
around a run with an interval and a fault; two calls and a run. The tokens are two focus areas and two keywords, of
which a form has one and the mapper recommends the other; the patches stop the first area or replace it by the
second; the links are a feed and a page that announces it.
`digest`: two runs, with half a day between them, with a reconfiguration, in one second, or with a fault; around one
run, a message and two faults, two messages, a message and a reconfiguration, three calls, or two calls and a fault;
three messages with two faults.
Of the three items one can be read as two reports about one thing with different importance; one has no date, and the
model may call it stale or read the first one's story in it; one is old, and so not among the items that `MaxInput = 1`
lets the extractor read. A brief has room for two signals and one system signal, a notification for one card, a
timeline for two entries, the cache for one composition, so that each limit is reached.

`pipeline`, `control` and `digest` have `CHECK_DEADLOCK FALSE`: their bounds let the instance stop.

Fairness. `Inbox`: the scheduler starts a run every day and a run that started goes on, so the run's
steps are weakly fair; a caller that loaded goes on to save. No fairness for submitting, aborting or
crashing. `Pipeline`: weak fairness of a run's own steps, as every network call in a stage has a
timeout; nothing makes a run start, and `ingest_only` may stop anywhere. `Ingestion`: weak fairness of the
run thread, which the scheduler starts again every day and whose fetches have timeouts, of the clock, and of the
return of a call that has saved its map, which waits for nothing; none for publishing, for the rest of
`ingest_only` or for aborts. `ControlPlane`: weak fairness of a served call and of a
run, whose network calls have timeouts; none for asking, for saving an open form, or for faults. `Digest`: weak
fairness of the polling thread, whose requests have a timeout and which survives every exception; none for
runs, users or faults.

## 4. Proofs

`InboxProofs` holds, for every value of the constants that satisfies `InboxAssumption`:

| Theorem | States | Assumes |
|---|---|---|
| `TypeCorrect` | `Spec => []TypeOK` | nothing more |
| `MarkedOnlySelected` | `Spec => []MarkedWasSelected` | nothing more: overlap, torn writes and crashes included |
| `SerialNoLoss` | `Spec => []NoLostSubmission` | no overlap, atomic writes |
| `MarkedOnlyShown` | `Spec => []MarkedWasShown` | every selected signal gets a card |
| `InboxImplementsStore` | `Spec => ImplementsStore` | the three together |
| `RepeatsArePaid` | `Spec => []RepeatsAreExplained` | nothing more |

The argument for the marks. "A marked row was selected" is not inductive: a mark is made in a buffer
and written later, and a stale buffer may be written back at any time. `MarksHave(E)` therefore says
of every place where a row can be (the file, every buffer, the brief) that a mark in it has evidence
`E`, and that the signals of a notified brief already have it. One lemma (`NextMarks`) proves it
inductive for any evidence that only grows; "was selected" and "was shown" are its two instances.

The argument for the store. `SerialInv` adds to the types that at most one thread is between load and
save, that the buffer of that thread is the file with its own change applied, that acknowledged
submissions are in the file, and that the rows of a brief are still in the file with their identity.
From it each save is one abstract step (`Submit` with the caller's batch, or `MarkShown`), and each
other step is `Show` or a stutter.

The argument for the repetitions is a count, `AccountInv`. With `Overlap`, add to the times a signal was shown
one if the run in progress may show it once more (`Pending`), and the number of calls that hold an unbriefed copy
of its row (`Holders`): the sum is at most one, the faults so far, and the calls begun after the one that created
the signal. A mark takes from the sum what the brief put in; a new call that copies the unmarked row pays for
the copy. Without `Overlap` no call holds a copy while the run marks, a copy counts as something the run may still
show, and faults alone pay.

`PipelineProofs` holds, for every value of the constants that satisfies `PipelineAssumption`:

| Theorem | States | Assumes |
|---|---|---|
| `PipelineTypeCorrect` | `Spec => []TypeOK` | nothing more |
| `OneRunAtATime` | `Spec => []Locked`: a run in progress holds the lock | nothing more |
| `HistoryNeverShrinks` | `Spec => HistoryGrows` | nothing more |
| `DanglingExplained` | `Spec => []DanglingIsExplained` | nothing more |
| `NoItemVanishes` | `Spec => []NothingVanishes` | `MaxPerFetch <= MaxInput` |
| `LatestRunAgrees` | `Spec => []LatestAgrees` | `DistinctIds` |
| `LatestRunIsNewer` | `Spec => LatestMovesForward` | `DistinctIds` |

The two assumptions are the limits of the code: `pipeline_cap` shows what happens without the first, and
two runs of one trigger within a second break the second.

The argument. `Locked` makes every other run idle while one steps, so that a step changes the records of
one run (`RunFrame`), and what `BreakOff` may leave of the files is one lemma per property. `HistoryInv` (the
records a run is about to write hold what the file holds) gives `HistoryGrows`, which has no exception but a fault
in the stage that writes the file (`Hit`); `DanglingInv` says at which stages an item may be in the canonical file
alone. For `NothingVanishes` the property is not inductive, because a cursor is written from what a thread loaded
earlier: `VanishInv` adds that what was loaded is accounted for, by the stage of the run which items are
still in hand, and that a fetch is an interval the extractor reads as a whole (`ReadsAll`, by the
cardinality of an interval). `AccountedGrows` then shows that what is accounted for stays so, which is what
lets `ingest_only` write an old cursor map back. For the reports, `IdInv` orders run ids by the clock and
`ReportInv` says what the two reports of the run in progress can be, stage by stage.

`DigestProofs` and `StoryProofs` hold for every value of the constants of `Digest`, with no condition
but its assumptions:

| Theorem | States | Inductive invariant |
|---|---|---|
| `SubscriptionsKept`, `ListedCalled` | `[]SubscriptionsAreKept`, `[]ListedAreCalled` | `HookInv`: only the holder of the lock has loaded the list, and what it loaded is the list |
| `NoneIsSkipped`, `OnceBetweenRestarts` | `[]NoUpdateIsSkipped`, `[]RepeatsNeedRestarts` | `BotInv`: the updates of a batch are consecutive; behind the frontier all are handled, ahead of it none since the last restart |
| `LeftOutReasoned` | `[]LeftOutForAReason` | the property itself with `PickInv` (what a brief, its cards and the cache present was selected), from lemmas on `Prioritised` and `Selections` |
| `NoticeMatchesBrief` | `[]NoticeIsTheBrief` | `NoticeInv`: until it is cleared, the cache has the blocks of the brief under its composition |
| `MarkedReached` | `[]MarkedReachedAChannel` | `TellInv`: a channel is tried once, one that took all has the cards, nothing is marked before |
| `VerdictsKept` | `VerdictsAreKept` | `EngineInv`: unless it was overtaken, the installed engine has every verdict of the file, and a comparison in progress is its own |
| `OnceAnnounced` | `[]AnnouncedOnce` | `AnnounceInv`, per fingerprint: what was announced is in the history with its time, and in what a run loaded unless it is older than every window |
| `TimelinesComplete` | `[]SignalsAreInTimelines` | `TimelineInv`: the records of a run have its accepted and all stored signals |
| `RowsWhole` | `[]HistoryRowsAreWhole` | `OutputsInv`: the names of a run lead to what it wrote, and it has all of the stages before |
| `TypesCorrect` | `[]TypeOK` | `StoryTypes` and `RestInv` with the types in the invariants above |

`Digest` has many variables and most steps touch few of them, so the proofs begin with lemmas that sort the
steps by component (`HookSteps`, `BotSteps`, `StorySteps`, `EndSteps`, `MessageSteps`); each invariant is then
proved against the steps of its component and a frame. `BlankInv` (a run that is idle holds nothing, and the
fields of later stages are empty) is what makes the others hold when a run starts.

`ControlProofs` and `VersionProofs` hold for every value of the constants of `ControlPlane`:

| Theorem | States | Inductive invariant |
|---|---|---|
| `ControlTypes` | `[]TypeOK` | `CoreOK` (what a call of a stage holds), `GhostsOK`, `BoundsOK`, with the types in the invariants below |
| `RunKeepsItsUpdate` | `[]RunUsesOneUpdate` | `RunInv`: without an update in between, the parts are those the run began with |
| `AnalysesStay` | `[]AnalysesAreKept` | `CacheInv`: the file and every up-to-date copy of it hold the analyses that were handed out |
| `PipelineFollows` | `[]LiveFollowsFile` | `FollowInv`: an undisturbed update that is not `away` brings what the file says, and has replaced the parts before its stage |
| `PatchesAreLocal` | `PatchIsLocal` | `DerivedInv`: what a call has made of a state that is still the one on disk |
| `VersionsAreDistinct` | `[]VersionsNameOneStrategy` | `VersionInv`: a version is in one row, of the history or of a call that will append it, and is not later than the state |
| `DeployedVersionIsInTheFile` | `[]DeployedIsOnDisk` | `DeployInv`: the file holds the deployed version unless `astray`, whether its row is in the history yet or held by a call |

The types of `ControlPlane` need an argument of their own (`CoreOK`): a generated strategy is `Sound`, that is, its
listed tokens and its profiles are together what its configuration looks for, and every call of a stage holds
what the stage needs (`Fits`). Soundness is what makes a chain of patches keep it (`PatchTypes`).

`VersionProofs` sorts the steps into those that load or save a version and the quiet rest (`VersionSteps`), and
`behind` decides which knowledge a call may use: who is not behind a file has derived what it holds from that
file as it is. A property that excuses a lost update excuses nothing else: where nothing was undone
(`Orderly`), every invariant above holds without conditions on the number of calls.

The proofs use the named assumptions of the modules, which TLC evaluates in the runs, and nothing else; one of them,
`NoStateAssumption`, says that a missing `strategy_state.json` can be told from a state.

`IngestionProofs` holds for every value of the constants that satisfies `IngestionAssumption`:

| Theorem | States | Assumes | Inductive invariant |
|---|---|---|---|
| `IngestionTypeCorrect` | `[]TypeOK` | nothing more | the property itself, from `DedupeTailList` and `DedupeTailOrder` |
| `SeenOnlyDelivered` | `[]SeenWasDelivered` | nothing more | `SeenInv`: a saved map claims what was delivered, lost or is still to be returned, a call's own map also what is in its hands |
| `IngestionImplementsReader` | `ImplementsReader` | no overlapping calls, `RecentLimit >= 2 * MaxPerSource - 1` | `MemoryInv`: what was recorded and is still listed is remembered |
| `NoRepeats` | `FeedsDoNotRepeat`, which no run checks apart: it follows from the refinement | the same | the same |

The first part of the module is about `_dedupe_tail` for any list and any limit: it appends its m-th id at the
place from which on there are m ids, so it keeps the list's order, keeps no more than the limit, and keeps every
id behind whose last place there are few enough others. The refinement needs to know that the limit never pushes
out an id that is still listed. `MemoryInv` has the reason (`Near`): ids enter in the order of the fetches, so an
id that stands behind another is less than one listing older; the ids behind a listed one are within one listing
of it on either side, which are at most `2 * MaxPerSource - 1` with itself (`ListedSurvives`). The limits of the
code are 200, the default listings 20 and 35; `ingestion_serial` runs at exactly this bound, and one id less
breaks the property. With the bound from above (a list has only what was recorded), this makes the test of
the cursor equal to a test of what was recorded (`KeptIsUnread`), each answer one `Fetch` of the reader, and a save
that breaks off the `CutOff` in which the reader forgets all. Sources
that are read as HTML are outside of it (`ingestion_html`), and so are overlapping calls: they write cursor maps
over each other, after which an item may be emitted again.

Only model-checked: the five liveness properties (`AckedIsShown`, `EveryRunEnds`, `ListedIsDelivered`,
`WrittenBecomesLive`, `MessagesAreHandled`), as fairness is out of the prover's reach. Every safety invariant and
action property of the runs is proved.

## 5. What the violations say

1. Two unlocked load-save sequences on the inbox lose an acknowledged submission (`inbox_lost`).
2. The renderers' limit of three cards and the marking of every signal disagree (`inbox_unshown`).
   The signal is in the Markdown brief on disk, but in no notification.
3. A follow-up to a briefed signal never comes back (`inbox_followup`).
4. Cursors move past items the extractor never read (`pipeline_cap`).
5. The cursor of a source read as HTML is saved under a key that is never looked up (`ingestion_html`), so
   such a source is neither incremental nor ever skipped.

## 6. Plan

Done: the modules of section 2. Left, in this order:

1. An abstract strategy register (one version, one deployed version, atomic deploy) that `ControlPlane`
   implements while calls do not overlap, and its proof.
2. The product of `Inbox` and the notification of `Digest`.
3. A submission with a blank tracking id (listed as a hazard without a property).

## 7. Not modelled

The static pages of the panels and the tool schema; HTML parsing and the resolver of user links, which read
pages and keep no state; source advisories and the trend engine, whose answers are only shown; TTS synthesis;
preflight, local runner and logging; prompts and texts of briefs and messages; validation and defaults of the
configuration (the limits are CONSTANTS). `Inbox` and `Digest` both have the notification: the first with the
races of the inbox, the second with channels, blocks and cards; their product is not explored. The lock
of the browser profile that a run and `ingest_only` share belongs to the browser.
