----------------------------- MODULE Ingestion ------------------------------
(***************************************************************************)
(* IngestionManager.ingest_all over several sources: feeds, and web pages  *)
(* that are parsed as HTML first and opened in a browser if that fails.    *)
(* A run and an ingest_only request may execute it at the same time.       *)
(*                                                                         *)
(* source_cursors.json maps source keys to cursors.  A call loads the      *)
(* whole map, advances the cursors of the sources that delivered, and      *)
(* saves the whole map before it returns its items.  A cursor decides      *)
(* which listed items are new and whether the source is due at all.        *)
(*                                                                         *)
(* The save truncates the file and then writes it.  A map that a crash     *)
(* broke off, or that two saves left garbled, reads as empty.              *)
(***************************************************************************)
EXTENDS Naturals, Sequences, FiniteSets, SequencesExt

CONSTANTS
    Feeds,          \* RSS sources
    Web,            \* web sources whose links are followed
    Forced,         \* web sources with force_playwright
    Flaky,          \* sources that may fail
    Run, Requests,  \* the run thread, and the API workers that call ingest_only
    MaxPerSource,   \* max_items, max_links_per_source
    OverlapCount,   \* incremental_overlap_count
    RecentLimit,    \* _RECENT_ID_LIMIT, _RECENT_URL_LIMIT
    Interval,       \* the refresh interval, in ticks
    MaxItems,       \* bound: items a source publishes
    MaxFlaky,       \* bound: items a source publishes that may fail
    MaxFaults       \* bound: calls that end before they return

ASSUME IngestionAssumption ==
    /\ Feeds \cap Web = {} /\ Forced \subseteq Web /\ Flaky \subseteq Feeds \cup Web
    /\ Run \notin Requests
    /\ MaxPerSource \in Nat \ {0} /\ OverlapCount \in Nat
    /\ RecentLimit \in Nat \ {0} /\ Interval \in Nat \ {0}
    /\ MaxItems \in Nat /\ MaxFlaky \in 0..MaxItems /\ MaxFaults \in Nat

VARIABLES
    published,   \* items 1..published[s] were published by s; a greater one is newer
    cursors,     \* source_cursors.json
    pc,          \* is the thread in ingest_all?
    book,        \* cursor_states: the map each thread loaded and advances
    todo,        \* the sources each thread has not finished
    out,         \* all_items: what each thread's call emitted, by source
    recorded,    \* ghost: the items of the calls whose map was saved whole, since
                 \* the file was last left empty, by source
    delivered,   \* ghost: the items that completed calls returned, by source
    lost,        \* ghost: those of calls that ended after their save, by source
    faults

vars == <<published, cursors, pc, book, todo, out, recorded, delivered, lost, faults>>

Sources == Feeds \cup Web
Threads == {Run} \cup Requests
Items == 1..MaxItems

\* make_source_key.
Keys == ({"rss"} \X Feeds) \cup ({"html", "playwright"} \X Web)

\* last_seen_ids (the urls say the same), oldest first, and the time since
\* last_success_at, Interval if it is that long ago or was never set.  The
\* newest publication time seen adds nothing: an item beyond it is not in seen.
Cursor == [seen: Seq(Items), age: 0..Interval]
NoCursor == [seen |-> <<>>, age |-> Interval]
NoCursors == [k \in Keys |-> NoCursor]
Nothing == [s \in Sources |-> {}]

Init ==
    /\ published = [s \in Sources |-> 0]
    /\ cursors = NoCursors
    /\ pc = [p \in Threads |-> "idle"]
    /\ book = [p \in Threads |-> NoCursors]
    /\ todo = [p \in Threads |-> {}]
    /\ out = [p \in Threads |-> Nothing]
    /\ recorded = Nothing
    /\ delivered = Nothing
    /\ lost = Nothing
    /\ faults = 0

-----------------------------------------------------------------------------
(* Sources and time.                                                       *)

Publish(s) ==
    /\ published[s] < IF s \in Flaky THEN MaxFlaky ELSE MaxItems
    /\ published' = [published EXCEPT ![s] = @ + 1]
    /\ UNCHANGED <<cursors, pc, book, todo, out, recorded, delivered, lost, faults>>

Older(c) == [c EXCEPT !.age = IF @ < Interval THEN @ + 1 ELSE @]

Tick ==
    /\ cursors' = [k \in Keys |-> Older(cursors[k])]
    /\ book' = [p \in Threads |-> [k \in Keys |-> Older(book[p][k])]]
    /\ UNCHANGED <<published, pc, todo, out, recorded, delivered, lost, faults>>

\* The items of a source that a fetch sees, and those in the overlap window.
Newest(s, n) == {i \in 1..published[s] : i + n > published[s]}
Listing(s) == Newest(s, MaxPerSource)
Overlap(s) == Newest(s, OverlapCount) \cap Listing(s)

-----------------------------------------------------------------------------
(* Cursors.                                                                *)

\* _record_skip_if_needed, negated.
Due(map, key) == map[key].age >= Interval

\* filter_rss_rows and filter_follow_candidates: a fresh cursor keeps every
\* row; otherwise the overlap window and the rows that were not seen are kept.
Kept(s, cursor) ==
    IF cursor.seen = <<>> THEN Listing(s)
    ELSE Overlap(s) \cup (Listing(s) \ ToSet(cursor.seen))

\* A listing's rows come newest first.
Rows(got) ==
    [n \in 1..Cardinality(got) |-> CHOOSE i \in got : Cardinality({j \in got : j >= i}) = n]

\* The ids at place i of a list and after it.
IdsFrom(items, i) == {items[j] : j \in i..Len(items)}

\* Mutant of Capped: the limit is tested before the id is appended.
CappedOffByOne(n, limit) == IF n <= limit + 1 THEN n ELSE limit + 1

\* How many of n ids are kept.
Capped(n, limit) == IF n <= limit THEN n ELSE limit

\* _dedupe_tail reads the list from its end and appends each id it has not met:
\* the m-th is at the place from which on there are m ids.  It stops at the
\* limit and reverses what it has.
DedupeTail(items, limit) ==
    LET k == Capped(Cardinality(IdsFrom(items, 1)), limit)
        Place(m) == CHOOSE i \in DOMAIN items : /\ items[i] \notin IdsFrom(items, i + 1)
                                                /\ Cardinality(IdsFrom(items, i)) = m
    IN [n \in 1..k |-> items[Place(k + 1 - n)]]

\* Mutant of Advance: the ids of this fetch replace those of earlier fetches.
AdvanceReplaces(cursor, got) ==
    IF got = {} THEN cursor ELSE [seen |-> DedupeTail(Rows(got), RecentLimit), age |-> 0]

\* advance_rss_cursor and advance_url_cursor append the rows in listing order.
\* Without rows the cursor is left alone.
Advance(cursor, got) ==
    IF got = {} THEN cursor
    ELSE [seen |-> DedupeTail(cursor.seen \o Rows(got), RecentLimit), age |-> 0]

-----------------------------------------------------------------------------
(* ingest_all.                                                             *)

\* Is the thread at its save?
Saving(p) == pc[p] = "ingesting" /\ todo[p] = {}

\* What a load may read: the file, or nothing if a save has it truncated.
Readable(p) ==
    {cursors} \cup {NoCursors : q \in {q \in Threads \ {p} : Saving(q)}}

\* Load the cursors and submit the feeds that are due to the thread pool.
Start(p) ==
    /\ pc[p] = "idle"
    /\ pc' = [pc EXCEPT ![p] = "ingesting"]
    /\ \E map \in Readable(p) :
          /\ book' = [book EXCEPT ![p] = map]
          /\ todo' = [todo EXCEPT ![p] = {f \in Feeds : Due(map, <<"rss", f>>)} \cup Web]
    /\ UNCHANGED <<published, cursors, out, recorded, delivered, lost, faults>>

Finish(p, s) == todo' = [todo EXCEPT ![p] = @ \ {s}]

\* A source answered: its items join all_items and its cursor, which was read
\* under the key "from", is stored under the key "to".
Deliver(p, s, from, to, got) ==
    /\ out' = [out EXCEPT ![p][s] = got]
    /\ book' = [book EXCEPT ![p][to] = Advance(book[p][from], got)]
    /\ Finish(p, s)
    /\ UNCHANGED <<published, cursors, pc, recorded, delivered, lost, faults>>

\* A source raised: the error is recorded and the other sources go on.
Skip(p, s) ==
    /\ Finish(p, s)
    /\ UNCHANGED <<published, cursors, pc, book, out, recorded, delivered, lost, faults>>

\* The feeds answer in any order.
FeedDelivers(p, f) ==
    /\ f \in todo[p] \cap Feeds
    /\ LET key == <<"rss", f>> IN
          \E got \in {Kept(f, book[p][key])} : Deliver(p, f, key, key, got)

\* Mutant of FeedFails: the exception ends the round of feeds.
FeedFailsAll(p, f) ==
    /\ f \in todo[p] \cap Feeds \cap Flaky
    /\ todo' = [todo EXCEPT ![p] = @ \ Feeds]
    /\ UNCHANGED <<published, cursors, pc, book, out, recorded, delivered, lost, faults>>

FeedFails(p, f) ==
    /\ f \in todo[p] \cap Feeds \cap Flaky
    /\ Skip(p, f)

\* The web sources come one by one when all feeds are done.
WebTurn(p, w) == w \in todo[p] \cap Web /\ todo[p] \cap Feeds = {}

PageSkipped(p, w) ==
    /\ WebTurn(p, w)
    /\ ~Due(book[p], <<"playwright", w>>)
    /\ Skip(p, w)

\* Which of the kept links could be opened.
Opened(w, kept) == IF w \in Flaky THEN SUBSET kept ELSE {kept}

\* HtmlIngestor, given the cursor of the browser's key.
PageParsed(p, w) ==
    /\ WebTurn(p, w)
    /\ w \notin Forced
    /\ LET from == <<"playwright", w>> IN
        /\ Due(book[p], from)
        /\ \E got \in Opened(w, Kept(w, book[p][from])) :
              Deliver(p, w, from, <<"html", w>>, got)

\* Mutant of PageBrowsed: the listed links count as seen, opened or not.
PageBrowsedAll(p, w) ==
    /\ WebTurn(p, w)
    /\ w \in Forced \cup Flaky
    /\ LET key == <<"playwright", w>> IN
        /\ Due(book[p], key)
        /\ \E got \in Opened(w, Kept(w, book[p][key])) :
              /\ out' = [out EXCEPT ![p][w] = got]
              /\ book' = [book EXCEPT ![p][key] = Advance(@, Kept(w, @))]
    /\ Finish(p, w)
    /\ UNCHANGED <<published, cursors, pc, recorded, delivered, lost, faults>>

\* PlaywrightIngestor, forced or because the HTML parser raised or found no text.
PageBrowsed(p, w) ==
    /\ WebTurn(p, w)
    /\ w \in Forced \cup Flaky
    /\ LET key == <<"playwright", w>> IN
        /\ Due(book[p], key)
        /\ \E got \in Opened(w, Kept(w, book[p][key])) : Deliver(p, w, key, key, got)

PageFails(p, w) ==
    /\ WebTurn(p, w)
    /\ w \in Flaky
    /\ Due(book[p], <<"playwright", w>>)
    /\ Skip(p, w)

End(p) ==
    /\ pc' = [pc EXCEPT ![p] = "idle"]
    /\ book' = [book EXCEPT ![p] = NoCursors]
    /\ todo' = [todo EXCEPT ![p] = {}]
    /\ out' = [out EXCEPT ![p] = Nothing]

\* A ghost with the items a call holds.
With(ghost, items) == [s \in Sources |-> ghost[s] \cup items[s]]

\* The file holds no map.
Emptied == cursors' = NoCursors /\ recorded' = Nothing

\* save_source_cursors.  Two saves at a time may garble the file.
SaveCursors(p) ==
    /\ Saving(p)
    /\ pc' = [pc EXCEPT ![p] = "saved"]
    /\ \/ cursors' = book[p] /\ recorded' = With(recorded, out[p])
       \/ (\E q \in Threads \ {p} : Saving(q) \/ pc[q] = "saved") /\ Emptied
    /\ UNCHANGED <<published, book, todo, out, delivered, lost, faults>>

\* The health and the advisories of the sources are noted, and the items returned.
Return(p) ==
    /\ pc[p] = "saved"
    /\ delivered' = With(delivered, out[p])
    /\ End(p)
    /\ UNCHANGED <<published, cursors, recorded, lost, faults>>

\* The call ends before it returns: an exception outside the sources, or a crash.
\* At the save it may leave an empty file, and after it the items are lost.
Abort(p) ==
    /\ pc[p] # "idle"
    /\ faults < MaxFaults
    /\ faults' = faults + 1
    /\ \/ pc[p] = "ingesting" /\ UNCHANGED <<cursors, recorded, lost>>
       \/ Saving(p) /\ Emptied /\ UNCHANGED lost
       \/ pc[p] = "saved" /\ lost' = With(lost, out[p]) /\ UNCHANGED <<cursors, recorded>>
    /\ End(p)
    /\ UNCHANGED <<published, delivered>>

-----------------------------------------------------------------------------

IngestStep(p) ==
    \/ Start(p) \/ SaveCursors(p) \/ Return(p)
    \/ \E f \in Feeds : FeedDelivers(p, f) \/ FeedFails(p, f)
    \/ \E w \in Web : PageSkipped(p, w) \/ PageParsed(p, w) \/ PageBrowsed(p, w) \/ PageFails(p, w)

Next ==
    \/ \E s \in Sources : Publish(s)
    \/ Tick
    \/ \E p \in Threads : IngestStep(p) \/ Abort(p)

Spec == Init /\ [][Next]_vars

\* Time passes, the scheduler keeps starting runs that go on, and a call that has
\* saved its map returns: nothing it does from there waits.  Nobody has to call
\* ingest_only, and no publisher has to publish.
Fairness ==
    /\ WF_vars(IngestStep(Run)) /\ WF_vars(Tick)
    /\ \A p \in Requests : WF_vars(Return(p))

FairSpec == Spec /\ Fairness

-----------------------------------------------------------------------------
(* Properties.                                                             *)

\* Type invariant.
TypeOK ==
    /\ published \in [Sources -> 0..MaxItems]
    /\ pc \in [Threads -> {"idle", "ingesting", "saved"}]
    /\ cursors \in [Keys -> Cursor]
    /\ book \in [Threads -> [Keys -> Cursor]]
    /\ \A map \in {cursors} \cup {book[p] : p \in Threads}, k \in Keys :
          /\ ToSet(map[k].seen) \subseteq 1..published[k[2]]
          /\ Len(map[k].seen) <= RecentLimit
    /\ todo \in [Threads -> SUBSET Sources]
    /\ out \in [Threads -> [Sources -> SUBSET Items]]
    /\ \A ghost \in {recorded, delivered, lost} : ghost \in [Sources -> SUBSET Items]
    /\ faults \in 0..MaxFaults

\* What calls that have saved their map hold and have still to return.
Unreturned(s) == UNION {out[p][s] : p \in {q \in Threads : pc[q] = "saved"}}

\* A cursor claims no more than what was delivered: an id it has seen belongs to
\* an item that a call returned or has still to return after its save, whichever
\* links failed to open, however calls overlap and wherever one is cut off.  Only
\* a call cut off between its save and its return leaves claims to items that
\* nobody gets.
SeenWasDelivered ==
    \A k \in Keys :
        ToSet(cursors[k].seen) \subseteq delivered[k[2]] \cup lost[k[2]] \cup Unreturned(k[2])

\* The sources whose cursor is kept under the key it is looked up by.
Steady == Feeds \cup Forced

\* What a step adds to a call's items outside the overlap window.
Repeated(p, s) == ((out'[p][s] \ out[p][s]) \cap recorded[s]) \ Overlap(s)

NoRepeat(S) == \A p \in Threads, s \in S : Repeated(p, s) = {}

\* When calls do not overlap, an item of a call whose map was saved is not emitted
\* again by a feed or a browsed page, except in the overlap window and unless the
\* file was left empty since.  A consequence of ImplementsReader.
FeedsDoNotRepeat == [][NoRepeat(Steady)]_vars

\* The same for every web source, the pages that the HTML parser reads included.
PagesDoNotRepeat == [][NoRepeat(Web)]_vars

\* What the reader of FeedReader is here.
Reader == INSTANCE FeedReader WITH
    Sources <- Steady,
    Partial <- Forced \cap Flaky,
    published <- [s \in Steady |-> published[s]],
    delivered <- [s \in Steady |-> delivered[s]],
    read <- [s \in Steady |-> recorded[s]],
    phase <- pc[Run],
    held <- [s \in Steady |-> out[Run][s]]

\* Without overlapping calls, the bounded lists of ids do what an unbounded
\* memory would do: a call brings of a feed or a browsed page exactly the listed
\* items that no call has recorded, and the overlap window.  Nothing is skipped
\* for having been fetched by a call that ended before its save, or forgotten
\* unless the save itself was broken off.
ImplementsReader == Reader!ReaderSpec

\* Every item that a reliable feed lists is delivered, unless newer items push it
\* out of the listing first or a call ends between its save and its return: other
\* sources that fail, skipped rounds, calls cut off, torn files and cursor maps
\* written over each other do not lose it.
ListedIsDelivered ==
    \A f \in Feeds \ Flaky, i \in Items :
        (i \in Listing(f)) ~> (i \in delivered[f] \cup lost[f] \/ i \notin Listing(f))
=============================================================================
