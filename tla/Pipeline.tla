------------------------------ MODULE Pipeline ------------------------------
(***************************************************************************)
(* The life of a monitoring run: MonitoringPipeline.run_once and           *)
(* ingest_only over one feed, the files they keep (source cursors,         *)
(* canonical signals, events, briefs, daily summary, manifests) and the    *)
(* lock that admits one run_once at a time but does not cover ingest_only. *)
(*                                                                         *)
(* One feed stands for all sources.  It is numbered by age: item i is      *)
(* older than item i + 1, and items 1..published exist.  Each item is a    *)
(* story of its own, found again in the history if it was stored there.    *)
(***************************************************************************)
EXTENDS Naturals, FiniteSets

CONSTANTS
    Triggers,       \* what starts a run: the scheduler, POST /run_now, the boot run
    Ingesters,      \* API workers that call ingest_only
    NoOne, NoRun,   \* the free lock, and latest.json before the first run
    MaxPerFetch,    \* max_items of the sources, taken together
    OverlapCount,   \* incremental_overlap_count of the sources
    MaxInput,       \* max_input_items of the extractor
    DistinctIds,    \* do two runs of one trigger start in different seconds?
    MaxItems,       \* bound: items published
    MaxRuns,        \* bound: runs started
    MaxFaults,      \* bound: exceptions and crashes
    MaxEvents       \* bound: items published, exceptions and crashes, taken together

ASSUME PipelineAssumption ==
    /\ Triggers \cap Ingesters = {}
    /\ NoOne \notin Triggers
    /\ NoRun \notin (0..MaxRuns) \X Triggers
    /\ MaxPerFetch \in Nat \ {0}
    /\ OverlapCount \in Nat
    /\ MaxInput \in Nat \ {0}
    /\ DistinctIds \in BOOLEAN
    /\ MaxItems \in Nat
    /\ MaxRuns \in Nat
    /\ MaxFaults \in Nat
    /\ MaxEvents \in Nat

VARIABLES
    published,   \* items 1..published are in the feed
    cursor,      \* source_cursors.json: the items the source's cursor has seen
    canonical,   \* canonical signals: the items that have one
    events,      \* events.json: the items whose event is recorded
    manifests,   \* runs/<id>/manifest.json: status by run id, a partial function
    summary,     \* summaries/<day>.jsonl: status by run id, a partial function
    latest,      \* runs/latest.json: a run id
    lock,        \* MonitoringPipeline._lock
    pc,          \* the stage each thread is in
    run,         \* the run id of each trigger's run, NoRun without one
    status,      \* manifest.status in memory
    items,       \* what each thread fetched, later what its extractor and dedup kept
    loaded,      \* what each thread read: the cursor before fetching, later the events
    handed,      \* ghost: items whose signals went into a saved brief
    wasted,      \* ghost: items taken by ingest_only or by a run that ended early
    leftOut,     \* ghost: items an extraction or a brief had before it and left out
    erased,      \* ghost: items whose event a write that broke off erased
    clock,       \* the second run ids are made from
    runs, faults

disk == <<cursor, canonical, events, manifests, summary, latest>>
local == <<run, status, items, loaded>>
vars == <<published, disk, lock, pc, local, handed, wasted, leftOut, erased, clock, runs, faults>>

Items == 1..MaxItems
Threads == Triggers \cup Ingesters
RunIds == (0..MaxRuns) \X Triggers
Statuses == {"completed", "failed"}
Reports == UNION {[S -> Statuses] : S \in SUBSET RunIds}
EmptyReport == [id \in {} |-> "failed"]

Stages == {"ingest", "fetched", "extract", "resolved", "stored", "brief",
           "report", "publish", "manifest", "latest"}

Init ==
    /\ published = 0
    /\ cursor = {} /\ canonical = {} /\ events = {}
    /\ manifests = EmptyReport /\ summary = EmptyReport /\ latest = NoRun
    /\ lock = NoOne
    /\ pc = [p \in Threads |-> "idle"]
    /\ run = [w \in Triggers |-> NoRun]
    /\ status = [w \in Triggers |-> "completed"]
    /\ items = [p \in Threads |-> {}]
    /\ loaded = [p \in Threads |-> {}]
    /\ handed = {} /\ wasted = {} /\ leftOut = {} /\ erased = {}
    /\ clock = 0 /\ runs = 0 /\ faults = 0

Go(p, stage) == pc' = [pc EXCEPT ![p] = stage]

\* The bounds on exceptions and crashes.
MayFail == faults < MaxFaults /\ published + faults < MaxEvents

\* write_text truncates a file before it writes: a write that breaks off (the
\* process dies, the disk is full) leaves a file that is read as empty; a manifest
\* and latest.json cannot be read.  Of the threads ps, each may break off the
\* write of its stage.  Without signals the canonical file is not written.
BreakOff(ps) ==
    /\ \/ UNCHANGED cursor
       \/ cursor' = {} /\ \E p \in ps : pc[p] = "fetched"
    /\ \/ UNCHANGED canonical
       \/ canonical' = {} /\ \E p \in ps : pc[p] = "resolved" /\ items[p] # {}
    /\ \/ UNCHANGED <<events, erased>>
       \/ events' = {} /\ erased' = erased \cup events /\ \E p \in ps : pc[p] = "stored"
    /\ \/ UNCHANGED manifests
       \/ \E w \in ps \cap Triggers :
            /\ pc[w] = "manifest"
            /\ manifests' = [id \in DOMAIN manifests \ {run[w]} |-> manifests[id]]
    /\ \/ UNCHANGED latest
       \/ latest' = NoRun /\ \E p \in ps : pc[p] = "latest"
    /\ UNCHANGED summary

-----------------------------------------------------------------------------
(* The feed.                                                               *)

Publish ==
    /\ published < MaxItems /\ published + faults < MaxEvents
    /\ published' = published + 1
    /\ UNCHANGED <<disk, lock, pc, local, handed, wasted, leftOut, erased, clock, runs, faults>>

\* Mutant of Newest: one past the end of the feed.
NewestPastEnd(n) == {i \in 1..(published + 1) : i + n > published}

Newest(n) == {i \in 1..published : i + n > published}

\* filter_rss_rows: of the entries the feed returns, those in the overlap
\* window and those the cursor has not seen; a fresh cursor keeps them all.
Emitted(seen) ==
    IF seen = {} THEN Newest(MaxPerFetch)
    ELSE Newest(MaxPerFetch) \cap (Newest(OverlapCount) \cup {i \in Items : i \notin seen})

\* Another thread has the cursor file open for writing.
CursorBusy(p) == \E q \in Threads \ {p} : pc[q] = "fetched"

\* ingest_all: load the cursors, fetch and filter the feed.  A file that another
\* thread has truncated and not yet written reads as no cursors.
Fetch(p) ==
    /\ \E seen \in {cursor} \cup (IF CursorBusy(p) THEN {{}} ELSE {}) :
        /\ loaded' = [loaded EXCEPT ![p] = seen]
        /\ items' = [items EXCEPT ![p] = Emitted(seen)]
    /\ Go(p, "fetched")

\* Mutant of SaveCursor: the cursor moves to the head of the feed, not to the
\* items that were fetched.
SaveCursorToHead(p) == cursor' = loaded[p] \cup (1..published)

\* ingest_all, the end: the advanced cursors replace the file.  Two writes at
\* once may leave a text that is no JSON, and reads as no cursors.
SaveCursor(p) == cursor' = loaded[p] \cup items[p] \/ (cursor' = {} /\ CursorBusy(p))

-----------------------------------------------------------------------------
(* run_once.                                                               *)

\* Mutant of StartRun: no lock.
StartRunUnlocked(w) ==
    /\ pc[w] = "idle"
    /\ runs < MaxRuns
    /\ runs' = runs + 1
    /\ lock' = w
    /\ clock' = clock + 1
    /\ run' = [run EXCEPT ![w] = <<clock', w>>]
    /\ Go(w, "ingest")
    /\ UNCHANGED <<published, disk, status, items, loaded, handed, wasted, leftOut, erased, faults>>

\* The lock is taken without waiting; a caller that finds it taken gets
\* RuntimeError.  The run id is the second and the trigger.
StartRun(w) ==
    /\ lock = NoOne
    /\ runs < MaxRuns
    /\ runs' = runs + 1
    /\ lock' = w
    /\ \E tick \in (IF DistinctIds THEN {1} ELSE {0, 1}) : clock' = clock + tick
    /\ run' = [run EXCEPT ![w] = <<clock', w>>]
    /\ Go(w, "ingest")
    /\ UNCHANGED <<published, disk, status, items, loaded, handed, wasted, leftOut, erased, faults>>

RunFetch(w) ==
    /\ pc[w] = "ingest"
    /\ Fetch(w)
    /\ UNCHANGED <<published, disk, lock, run, status, handed, wasted, leftOut, erased, clock, runs, faults>>

RunSaveCursor(w) ==
    /\ pc[w] = "fetched"
    /\ SaveCursor(w)
    /\ loaded' = [loaded EXCEPT ![w] = {}]
    /\ Go(w, "extract")
    /\ UNCHANGED <<published, canonical, events, manifests, summary, latest, lock, run, status, items,
                   handed, wasted, leftOut, erased, clock, runs, faults>>

\* The extractor reads the first MaxInput items; a source lists its newest items
\* first, and which sources answer first is not told apart.
Read(s) == {i \in s : Cardinality({j \in s : j > i}) < MaxInput}

\* A story that the history does not hold is new; one it holds is discarded as a
\* duplicate or kept as an update, as the dedup model says.
Resolutions(s) == {s \ dup : dup \in SUBSET (s \cap canonical)}

\* Extraction, candidate retrieval and dedup; the event records are loaded before
\* any signal is resolved.  Some items get no signal of their own: they are stale,
\* the LLM leaves them out or merges them into another one's, or the row it made
\* of them is malformed.
Resolve(w) ==
    /\ pc[w] = "extract"
    /\ \E got \in SUBSET Read(items[w]) :
        /\ \E kept \in Resolutions(got) : items' = [items EXCEPT ![w] = kept]
        /\ leftOut' = leftOut \cup (Read(items[w]) \ got)
    /\ loaded' = [loaded EXCEPT ![w] = events]
    /\ Go(w, "resolved")
    /\ UNCHANGED <<published, disk, lock, run, status, handed, wasted, erased, clock, runs, faults>>

SaveCanonical(w) ==
    /\ pc[w] = "resolved"
    /\ canonical' = canonical \cup items[w]
    /\ Go(w, "stored")
    /\ UNCHANGED <<published, cursor, events, manifests, summary, latest, lock, local,
                   handed, wasted, leftOut, erased, clock, runs, faults>>

\* Mutant of SaveEvents: records only the stories that the canonical file, which
\* was saved one stage before, does not hold.
SaveEventsOfNew(w) ==
    /\ pc[w] = "stored"
    /\ events' = loaded[w] \cup (items[w] \ canonical)
    /\ loaded' = [loaded EXCEPT ![w] = {}]
    /\ Go(w, "brief")
    /\ UNCHANGED <<published, cursor, canonical, manifests, summary, latest, lock, run, status, items,
                   handed, wasted, leftOut, erased, clock, runs, faults>>

\* The events file is replaced by the records loaded before resolving.
SaveEvents(w) ==
    /\ pc[w] = "stored"
    /\ events' = loaded[w] \cup items[w]
    /\ loaded' = [loaded EXCEPT ![w] = {}]
    /\ Go(w, "brief")
    /\ UNCHANGED <<published, cursor, canonical, manifests, summary, latest, lock, run, status, items,
                   handed, wasted, leftOut, erased, clock, runs, faults>>

\* Inbox refresh, filter, brief text; then outputs and notification, whose
\* errors the run survives.  Inbox.tla models what they do to the inbox.  The
\* filter drops signals, and the generator those it could not compose.
SaveBrief(w) ==
    /\ pc[w] = "brief"
    /\ \E told \in SUBSET items[w] :
        /\ handed' = handed \cup told
        /\ leftOut' = leftOut \cup (items[w] \ told)
    /\ items' = [items EXCEPT ![w] = {}]
    /\ Go(w, "report")
    /\ UNCHANGED <<published, disk, lock, run, status, loaded, wasted, erased, clock, runs, faults>>

\* append_daily_summary keeps the row that a run id already has.
AppendSummary(id, st) ==
    summary' = [i \in DOMAIN summary \cup {id} |-> IF i \in DOMAIN summary THEN summary[i] ELSE st]

\* An append that fails is only logged.  A failed run goes straight to its manifest.
Summarise(w) ==
    /\ pc[w] = "report"
    /\ \/ AppendSummary(run[w], status[w]) /\ UNCHANGED faults
       \/ MayFail /\ faults' = faults + 1 /\ UNCHANGED summary
    /\ Go(w, IF status[w] = "completed" THEN "publish" ELSE "manifest")
    /\ UNCHANGED <<published, cursor, canonical, events, manifests, latest, lock, local,
                   handed, wasted, leftOut, erased, clock, runs>>

\* publish_run_outputs; a delivery that fails is only recorded.
PublishOutputs(w) ==
    /\ pc[w] = "publish"
    /\ Go(w, "manifest")
    /\ UNCHANGED <<published, disk, lock, local, handed, wasted, leftOut, erased, clock, runs, faults>>

\* Mutant of SaveManifest: the status of a failed run is not set.
SaveManifestCompleted(w) ==
    /\ pc[w] = "manifest"
    /\ manifests' = [id \in DOMAIN manifests \cup {run[w]} |->
                        IF id = run[w] THEN "completed" ELSE manifests[id]]
    /\ Go(w, "latest")
    /\ UNCHANGED <<published, cursor, canonical, events, summary, latest, lock, local,
                   handed, wasted, leftOut, erased, clock, runs, faults>>

\* save_manifest writes the run's own file and then latest.json.
SaveManifest(w) ==
    /\ pc[w] = "manifest"
    /\ manifests' = [id \in DOMAIN manifests \cup {run[w]} |->
                        IF id = run[w] THEN status[w] ELSE manifests[id]]
    /\ Go(w, "latest")
    /\ UNCHANGED <<published, cursor, canonical, events, summary, latest, lock, local,
                   handed, wasted, leftOut, erased, clock, runs, faults>>

Release(w) ==
    /\ lock' = NoOne
    /\ Go(w, "idle")
    /\ items' = [items EXCEPT ![w] = {}]
    /\ loaded' = [loaded EXCEPT ![w] = {}]
    /\ run' = [run EXCEPT ![w] = NoRun]
    /\ status' = [status EXCEPT ![w] = "completed"]

SaveLatest(w) ==
    /\ pc[w] = "latest"
    /\ latest' = run[w]
    /\ Release(w)
    /\ UNCHANGED <<published, cursor, canonical, events, manifests, summary,
                   handed, wasted, leftOut, erased, clock, runs, faults>>

-----------------------------------------------------------------------------
(* ingest_only: the same ingestion, no lock, and nobody extracts the items. *)

IngestOnlyFetch(g) ==
    /\ pc[g] = "idle"
    /\ Fetch(g)
    /\ UNCHANGED <<published, disk, lock, run, status, handed, wasted, leftOut, erased, clock, runs, faults>>

IngestOnlySaveCursor(g) ==
    /\ pc[g] = "fetched"
    /\ SaveCursor(g)
    /\ wasted' = wasted \cup items[g]
    /\ Go(g, "idle")
    /\ items' = [items EXCEPT ![g] = {}]
    /\ loaded' = [loaded EXCEPT ![g] = {}]
    /\ UNCHANGED <<published, canonical, events, manifests, summary, latest, lock, run, status,
                   handed, leftOut, erased, clock, runs, faults>>

\* The request fails before the cursors are saved, or while they are.
IngestOnlyFails(g) ==
    /\ pc[g] = "fetched"
    /\ MayFail
    /\ faults' = faults + 1
    /\ BreakOff({g})
    /\ Go(g, "idle")
    /\ items' = [items EXCEPT ![g] = {}]
    /\ loaded' = [loaded EXCEPT ![g] = {}]
    /\ UNCHANGED <<published, lock, run, status, handed, wasted, leftOut, clock, runs>>

-----------------------------------------------------------------------------
(* Faults.                                                                 *)

\* An exception in a stage: the run is failed, and reports that.
RunFails(w) ==
    /\ pc[w] \in Stages \ {"report"}
    /\ status[w] = "completed"
    /\ MayFail
    /\ faults' = faults + 1
    /\ status' = [status EXCEPT ![w] = "failed"]
    /\ wasted' = wasted \cup items[w]
    /\ BreakOff({w})
    /\ items' = [items EXCEPT ![w] = {}]
    /\ loaded' = [loaded EXCEPT ![w] = {}]
    /\ Go(w, "report")
    /\ UNCHANGED <<published, lock, run, handed, leftOut, clock, runs>>

\* Mutant of ReportFails: the lock is released at the end of run_once, not in a
\* finally clause.
ReportFailsLocked(w) ==
    /\ pc[w] \in {"manifest", "latest"}
    /\ status[w] = "failed"
    /\ MayFail
    /\ faults' = faults + 1
    /\ Go(w, "idle")
    /\ UNCHANGED <<published, disk, lock, local, handed, wasted, leftOut, erased, clock, runs>>

\* An exception while the failure is being reported leaves run_once, through
\* its finally clause.
ReportFails(w) ==
    /\ pc[w] \in {"manifest", "latest"}
    /\ status[w] = "failed"
    /\ MayFail
    /\ faults' = faults + 1
    /\ BreakOff({w})
    /\ Release(w)
    /\ UNCHANGED <<published, handed, wasted, leftOut, clock, runs>>

\* The process dies and restarts.
Crash ==
    /\ \E p \in Threads : pc[p] # "idle"
    /\ MayFail
    /\ faults' = faults + 1
    /\ lock' = NoOne
    /\ pc' = [p \in Threads |-> "idle"]
    /\ items' = [p \in Threads |-> {}]
    /\ loaded' = [p \in Threads |-> {}]
    /\ run' = [w \in Triggers |-> NoRun]
    /\ status' = [w \in Triggers |-> "completed"]
    /\ wasted' = wasted \cup UNION {items[w] : w \in Triggers}
    /\ BreakOff(Threads)
    /\ UNCHANGED <<published, handed, leftOut, clock, runs>>

-----------------------------------------------------------------------------

RunStep(w) ==
    \/ RunFetch(w) \/ RunSaveCursor(w) \/ Resolve(w) \/ SaveCanonical(w) \/ SaveEvents(w)
    \/ SaveBrief(w) \/ Summarise(w) \/ PublishOutputs(w) \/ SaveManifest(w) \/ SaveLatest(w)

Next ==
    \/ Publish
    \/ \E w \in Triggers : StartRun(w) \/ RunStep(w) \/ RunFails(w) \/ ReportFails(w)
    \/ \E g \in Ingesters : IngestOnlyFetch(g) \/ IngestOnlySaveCursor(g) \/ IngestOnlyFails(g)
    \/ Crash

\* A run that has started goes on: every call it waits for has a timeout.
Fairness == \A w \in Triggers : WF_vars(RunStep(w))

Spec == Init /\ [][Next]_vars
FairSpec == Spec /\ Fairness

-----------------------------------------------------------------------------
(* Properties.                                                             *)

\* Type invariant.
TypeOK ==
    /\ published \in 0..MaxItems
    /\ cursor \subseteq Items /\ canonical \subseteq Items /\ events \subseteq Items
    /\ manifests \in Reports /\ summary \in Reports
    /\ latest \in RunIds \cup {NoRun}
    /\ lock \in Triggers \cup {NoOne}
    /\ pc \in [Threads -> Stages \cup {"idle"}]
    /\ \A g \in Ingesters : pc[g] \in {"idle", "fetched"}
    /\ run \in [Triggers -> RunIds \cup {NoRun}]
    /\ \A w \in Triggers : pc[w] = "idle" <=> run[w] = NoRun
    /\ status \in [Triggers -> Statuses]
    /\ items \in [Threads -> SUBSET Items]
    /\ loaded \in [Threads -> SUBSET Items]
    /\ handed \subseteq Items /\ wasted \subseteq Items
    /\ leftOut \subseteq Items /\ erased \subseteq Items
    /\ clock \in 0..MaxRuns /\ runs \in 0..MaxRuns /\ faults \in 0..MaxFaults
    /\ clock <= runs

\* Items the run in progress holds and has not put into its brief.
InHand == UNION {items[w] : w \in Triggers}

\* No item vanishes unseen: what the cursor has seen, and so will not be emitted
\* again once it leaves the overlap window, went into a brief, is held by the run
\* in progress, was left out by an extraction or a brief that had it before it, or
\* was taken by ingest_only or by a run that ended early.  Cursor files written
\* over each other or broken off, discarded duplicates and a lost history lose none.
NothingVanishes == cursor \cup canonical \subseteq handed \cup InHand \cup leftOut \cup wasted

\* A canonical signal names an event that the event store does not hold only
\* between the two saves of the run in progress, after a run ended there, or if a
\* write that broke off erased the record.
DanglingIsExplained == canonical \ events \subseteq wasted \cup InHand \cup erased

\* The two reports of the run that latest.json names, which the API serves, do
\* not contradict each other: if its manifest says "completed", its summary row,
\* unless it could not be appended, does not say "failed".
LatestAgrees ==
    latest # NoRun =>
        /\ latest \in DOMAIN manifests
        /\ latest \in DOMAIN summary /\ manifests[latest] = "completed" =>
              summary[latest] = "completed"

\* A fault hits a run in the stage st.
Hit(st) == faults' = faults + 1 /\ \E w \in Triggers : pc[w] = st

\* The dedup history shrinks only by a fault in the very write of the file, which
\* empties that file and leaves the other one alone, although the events file is
\* replaced by records that were loaded several stages before.
HistoryGrows ==
    [][/\ canonical \subseteq canonical' \/ (canonical' = {} /\ Hit("resolved") /\ events' = events)
       /\ events \subseteq events' \/ (events' = {} /\ Hit("stored") /\ canonical' = canonical)]_vars

\* latest.json moves to a run later than the one it names and no earlier than any
\* that has a manifest.  Only a write that breaks off leaves it naming none.
LatestMovesForward ==
    [][latest' # latest =>
          \/ latest' = NoRun /\ Hit("latest")
          \/ /\ latest # NoRun => latest'[1] > latest[1]
             /\ \A id \in DOMAIN manifests : latest'[1] >= id[1]]_vars

\* A run ends, whatever fails, and gives the lock back.
EveryRunEnds == (lock # NoOne) ~> (lock = NoOne)
=============================================================================
