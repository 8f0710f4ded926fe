------------------------------ MODULE Stories ------------------------------
(***************************************************************************)
(* What the program remembers of the stories it has seen: the canonical    *)
(* signals, the timelines of the events (EventStore) and the relations     *)
(* that were judged (LLMDedupEngine), and how a run resolves the signals   *)
(* it extracted against them, one after another.                           *)
(***************************************************************************)
EXTENDS Selection

CONSTANTS
    HistoryWindow,  \* the longest of the windows of the filtering settings
    MaxTimeline     \* entries kept of an event's timeline

ASSUME StoriesAssumption ==
    /\ HistoryWindow \in Nat
    /\ DedupWindow <= HistoryWindow /\ Lookback <= HistoryWindow
    /\ MaxTimeline \in Nat \ {0}

VARIABLES
    history,    \* canonical_signals.json
    events,     \* events.json: the timelines, by event
    verdicts,   \* llm_dedup_cache.json
    known,      \* the history a run loaded
    records,    \* the events it loaded, with its own entries
    taken,      \* when it extracted its signals and loaded the history
    todo,       \* the extracted rows it has not resolved
    accepted,   \* the signals it accepted
    patchy,     \* ghost: events whose record a broken save may have lost
    engine,     \* the verdicts of the installed LLMDedupEngine
    asking,     \* the comparison that waits for the model
    overtaken   \* ghost: was the engine installed during a comparison?

storyFiles == <<history, events, verdicts>>
resolving == <<known, records, taken, todo, accepted>>
storyVars == <<storyFiles, resolving, patchy>>
memory == <<engine, asking, overtaken>>

NoFile == [k \in {} |-> 0]

\* A comparison has its candidates and the verdicts of the engine that asks,
\* which need not be the installed one any more.
NotAsking == [near |-> {}, cache |-> NoFile, own |-> TRUE]

StoriesInit ==
    /\ history = {} /\ events = NoFile /\ verdicts = NoFile
    /\ known = {} /\ records = NoFile /\ taken = 0 /\ todo = <<>> /\ accepted = {}
    /\ patchy = {}
    /\ engine = NoFile /\ asking = NotAsking /\ overtaken = FALSE

\* run_once loads the stored stories once, after the extraction.
BeginResolving(items, now) ==
    /\ todo' \in Extractions(items)
    /\ known' = Within(history, now, HistoryWindow)
    /\ records' = events
    /\ taken' = now
    /\ accepted' = {}
    /\ UNCHANGED <<storyFiles, patchy, memory>>

StopResolving ==
    /\ known' = {} /\ records' = NoFile /\ taken' = 0 /\ todo' = <<>> /\ accepted' = {}
    /\ asking' = NotAsking

-----------------------------------------------------------------------------
(* The relations of a new signal to its candidates.                        *)

\* The cache is keyed by the two fingerprints.
Pair(r, s) == <<r, ReportOf(s)>>
Unjudged(cache, r, near) == {s \in near : Pair(r, s) \notin DOMAIN cache}

\* The model, or the heuristic in its place, may answer anything about what the
\* cache does not know; a row the model leaves out counts as DIFFERENT.
Judged(cache, r, near, answer) ==
    [s \in near |-> IF s \in DOMAIN answer THEN answer[s] ELSE cache[Pair(r, s)]]

\* Mutant of Remembered: the cache holds the last comparison only.
RememberedLast(cache, r, answer) ==
    {f \in [{Pair(r, s) : s \in DOMAIN answer} -> Relations] :
        \A k \in DOMAIN f : \E s \in DOMAIN answer : Pair(r, s) = k /\ f[k] = answer[s]}

\* The cache after a comparison; of candidates with one fingerprint one counts.
Remembered(cache, r, answer) ==
    {f \in [DOMAIN cache \cup {Pair(r, s) : s \in DOMAIN answer} -> Relations] :
        \A k \in DOMAIN f :
            IF k \in DOMAIN cache THEN f[k] = cache[k]
            ELSE \E s \in DOMAIN answer : Pair(r, s) = k /\ f[k] = answer[s]}

\* What may be answered to the comparison in progress, and its cache then.
Answers == [Unjudged(asking.cache, Head(todo).report, asking.near) -> Relations]
Learned(answer) == Remembered(asking.cache, Head(todo).report, answer)

\* Only the installed engine goes on with what a comparison has learned.
Learn(cache) == engine' = IF asking.own THEN cache ELSE engine

\* update_config installs an engine with the verdicts of the file, or without
\* any if a comparison is being saved; a comparison in progress stays with the
\* engine that asked.
InstallEngine ==
    /\ engine' \in IF asking = NotAsking THEN {verdicts} ELSE {verdicts, NoFile}
    /\ asking' = IF asking = NotAsking THEN asking ELSE [asking EXCEPT !.own = FALSE]
    /\ overtaken' = (asking # NotAsking)

-----------------------------------------------------------------------------
(* Events.                                                                 *)

\* Mutant of Entered: an update replaces the record of its event.
EnteredAnew(book, s) ==
    [e \in DOMAIN book \cup {s.event} |-> IF e = s.event THEN <<s.id>> ELSE book[e]]

\* Mutant of Entered: the timeline grows without limit.
EnteredUncapped(book, s) ==
    LET before == IF s.event \in DOMAIN book THEN book[s.event] ELSE <<>> IN
    [e \in DOMAIN book \cup {s.event} |-> IF e = s.event THEN Append(before, s.id) ELSE book[e]]

\* upsert_signal: a new signal opens a record; an update is appended to the
\* record of its event.  A record that is missing is made of the update, which
\* is appended all the same.
Entered(book, s) ==
    LET before == IF s.event \in DOMAIN book THEN book[s.event]
                  ELSE IF s.kind = "new" THEN <<>> ELSE <<s.id>>
        after == Append(before, s.id)
        kept == IF Len(after) > MaxTimeline THEN Tail(after) ELSE after
    IN  [e \in DOMAIN book \cup {s.event} |-> IF e = s.event THEN kept ELSE book[e]]

Accept(s) ==
    /\ accepted' = accepted \cup {s}
    /\ records' = Entered(records, s)

\* The index is made once, of the recent history; the run adds what it accepts.
Index == Within(known, taken, Lookback) \cup accepted

Here(run) == <<run, Len(todo), Head(todo).report>>

Signal(run, event, kind) ==
    [id |-> Here(run), event |-> event, kind |-> kind, importance |-> Head(todo).importance,
     fresh |-> Head(todo).fresh, at |-> taken]

\* The signal is a duplicate, an update of the best match's event, or opens an
\* event of its own.
Settle(run, near, relation) ==
    /\ todo' = Tail(todo)
    /\ IF near = {} THEN Accept(Signal(run, Here(run), "new"))
       ELSE \E best \in BestMatches(Head(todo).report, relation) :
          \/ /\ relation[best] = "SAME_EVENT"
             /\ UNCHANGED <<records, accepted>>
          \/ /\ relation[best] = "UPDATE"
             /\ Accept(Signal(run, best.event, "update"))
          \/ /\ relation[best] = "DIFFERENT"
             /\ Accept(Signal(run, Here(run), "new"))

\* One turn of _resolve_events, as far as it goes without the model: a stale
\* signal is dropped, and if no candidate is similar enough all are different.
Turn(run) ==
    LET r == Head(todo).report IN
    /\ asking = NotAsking
    /\ \/ /\ Head(todo).fresh = "stale"
          /\ todo' = Tail(todo)
          /\ UNCHANGED <<records, accepted, asking>>
       \/ /\ Head(todo).fresh # "stale"
          /\ \E near \in Candidates(r, Index) :
              \/ /\ ~WorthAsking(r, near)
                 /\ Settle(run, near, [s \in near |-> "DIFFERENT"])
                 /\ UNCHANGED asking
              \/ /\ WorthAsking(r, near) /\ Unjudged(engine, r, near) = {}
                 /\ Settle(run, near, Judged(engine, r, near, NoFile))
                 /\ UNCHANGED asking
              \/ /\ WorthAsking(r, near) /\ Unjudged(engine, r, near) # {}
                 /\ asking' = [near |-> near, cache |-> engine, own |-> TRUE]
                 /\ UNCHANGED <<todo, records, accepted>>
    /\ UNCHANGED <<verdicts, engine>>

\* The model has answered: the engine that asked saves all its verdicts.
Answered(run) ==
    /\ asking # NotAsking
    /\ \E answer \in Answers : \E cache \in Learned(answer) :
          /\ verdicts' = cache
          /\ Learn(cache)
          /\ Settle(run, asking.near, Judged(asking.cache, Head(todo).report, asking.near, answer))
    /\ asking' = NotAsking

ResolveOne(run) ==
    /\ todo # <<>>
    /\ Turn(run) \/ Answered(run)
    /\ UNCHANGED <<history, events, known, taken, patchy, overtaken>>

-----------------------------------------------------------------------------
(* The two saves, and what may come between them.                          *)

SaveCanonical ==
    /\ history' = history \cup accepted
    /\ UNCHANGED <<events, verdicts, resolving, patchy, memory>>

SaveEvents ==
    /\ events' = records
    /\ UNCHANGED <<history, verdicts, resolving, patchy, memory>>

\* The run ends between the two saves.
LeaveUnrecorded == patchy' = patchy \cup {s.event : s \in accepted}

\* A write that dies leaves malformed JSON, which is loaded as an empty file.
TearHistory == history' = {} /\ UNCHANGED <<events, verdicts, patchy>>
TearEvents ==
    /\ events' = NoFile
    /\ patchy' = patchy \cup {s.event : s \in history}
    /\ UNCHANGED <<history, verdicts>>
TearVerdicts ==
    /\ asking # NotAsking
    /\ verdicts' = NoFile
    /\ UNCHANGED <<history, events, patchy>>

\* A save of verdicts that raises leaves them in the engine that asked.
FailToSave ==
    /\ asking # NotAsking
    /\ \E answer \in Answers : \E cache \in Learned(answer) : Learn(cache)
    /\ verdicts' \in {verdicts, NoFile}
    /\ UNCHANGED <<history, events, patchy>>

\* A new process has the verdicts of the file.
RestartEngine == engine' = verdicts' /\ overtaken' = FALSE

-----------------------------------------------------------------------------
(* Properties.                                                             *)

Timelines(book) ==
    \A e \in DOMAIN book : /\ e \in Ids
                           /\ book[e] \in Seq(Ids)
                           /\ Len(book[e]) \in 1..MaxTimeline

Verdicts(cache) == DOMAIN cache \subseteq Reports \X Reports /\ \A k \in DOMAIN cache : cache[k] \in Relations

StoriesTypeOK ==
    /\ history \subseteq Signals /\ known \subseteq Signals /\ accepted \subseteq Signals
    /\ Timelines(events) /\ Timelines(records)
    /\ taken \in Nat
    /\ Verdicts(verdicts) /\ Verdicts(engine) /\ Verdicts(asking.cache)
    /\ DOMAIN asking = {"near", "cache", "own"}
    /\ asking.near \subseteq Signals /\ asking.own \in BOOLEAN /\ overtaken \in BOOLEAN
    /\ todo \in Seq(Extracts)
    /\ patchy \subseteq Ids
=============================================================================
