----------------------------- MODULE Selection -----------------------------
(***************************************************************************)
(* What a run makes of what it fetched, as functions of values: how old an *)
(* item is (TimeEngine), what may be extracted of it (LLMSignalExtractor), *)
(* which stored signals are compared with a new one                        *)
(* (CandidateRetrievalEngine) and which relation counts, and which signals *)
(* of a run are put into its brief (PriorityEngine, FilterEngine).         *)
(*                                                                         *)
(* An item is what a source publishes; a report is what the extractor      *)
(* makes of it: the title, the links and the beginning of the summary, of  *)
(* which the fingerprint is made.  One item may be read as several         *)
(* reports, now or in a later run, and several items as one.  Importances  *)
(* are in tenths and scores in ten-thousandths.  Where the code breaks a   *)
(* tie by the order of a list, every outcome of the tie is allowed.        *)
(***************************************************************************)
EXTENDS Integers, Sequences, FiniteSets

CONSTANTS
    Items,              \* what sources publish
    Reports,            \* fingerprints
    Ages,               \* the hours since each date found in an item, best first
    Readings,           \* the rows the model may write of each item
    Plain,              \* the row made of each item without the model
    MaxInput,           \* max_input_items
    MaxRows,            \* bound: the rows of an answer of the model
    Trusted,            \* reports from a host of a configured source
    Similarity,         \* of two reports, 0 to 10
    TopK,               \* event_candidate_top_k
    SimilarEnough,      \* event_similarity_threshold
    Lookback,           \* event_candidate_lookback_days
    DedupWindow,        \* dedup_window_days
    Threshold,          \* importance_threshold
    UndatedThreshold,   \* unknown_freshness_importance_threshold
    MaxSignals,         \* max_signals
    MaxSystemSignals    \* max_system_signals

Freshnesses == {"fresh", "recent", "stale", "unknown"}

\* A row of an extraction.
Extracts == [report : Reports, importance : 0..10, fresh : Freshnesses]

ASSUME SelectionAssumption ==
    /\ Ages \in [Items -> Seq(Int)]
    /\ Readings \in [Items -> SUBSET Extracts]
    /\ Plain \in [Items -> [report : Reports, importance : 0..10]]
    /\ MaxInput \in Nat \ {0} /\ MaxRows \in Nat
    /\ Trusted \subseteq Reports
    /\ Similarity \in [Reports \X Reports -> 0..10]
    /\ TopK \in Nat \ {0} /\ SimilarEnough \in 0..10
    /\ Lookback \in Nat /\ DedupWindow \in Nat
    /\ Threshold \in 0..10 /\ UndatedThreshold \in 0..10
    /\ MaxSignals \in Nat /\ MaxSystemSignals \in Nat

\* The id of a signal is a fresh uuid: its run and its place in it, here.
Ids == Nat \X Nat \X Reports
Kinds == {"new", "update"}

\* A stored signal.  An event is named after the signal that opened it.
Signals == [id : Ids, event : Ids, kind : Kinds, importance : 0..10, fresh : Freshnesses, at : Nat]

ReportOf(s) == s.id[3]

-----------------------------------------------------------------------------
(* How old an item is.                                                     *)

\* The first date that is not in the future counts.
Classify(ages) ==
    LET past == SelectSeq(ages, LAMBDA a : a >= 0) IN
    IF past = <<>> THEN "unknown"
    ELSE CASE past[1] <= 24 -> "fresh" [] past[1] \in 25..72 -> "recent" [] OTHER -> "stale"

\* annotate_items: stale items are not given to the extractor.
NotStale(items) == SelectSeq(items, LAMBDA i : Classify(Ages[i]) # "stale")

-----------------------------------------------------------------------------
(* What is extracted.                                                      *)

\* The extractor looks at the first items only.
Given(items) ==
    LET fit == NotStale(items) IN
    SubSeq(fit, 1, IF Len(fit) < MaxInput THEN Len(fit) ELSE MaxInput)

\* _fallback_extract keeps the freshness of the item.
FallbackRow(i) ==
    [report |-> Plain[i].report, importance |-> Plain[i].importance, fresh |-> Classify(Ages[i])]

\* The model answers with any rows: it may leave items out, merge them, split
\* them, repeat itself and claim another freshness; a malformed row is skipped.
\* Without an answer one row is made of each item.
Extractions(items) ==
    LET given == Given(items)
        rows == UNION {Readings[i] : i \in {j \in Items : \E k \in DOMAIN given : given[k] = j}}
    IN  (UNION {[1..n -> rows] : n \in 0..MaxRows})
          \cup {t \in [1..Len(given) -> {FallbackRow(i) : i \in Items}] :
                   \A k \in DOMAIN t : t[k] = FallbackRow(given[k])}

-----------------------------------------------------------------------------
(* What a new signal is compared with.                                     *)

Alike(r, s) == Similarity[<<r, ReportOf(s)>>]

\* The most similar signals of the index: no other is more similar.
Candidates(r, index) ==
    {near \in SUBSET index :
        /\ Cardinality(near) = (IF Cardinality(index) < TopK THEN Cardinality(index) ELSE TopK)
        /\ \A s \in near, t \in index \ near : Alike(r, s) >= Alike(r, t)}

\* The model is asked only if the best candidate is similar enough.
WorthAsking(r, near) == \E s \in near : Alike(r, s) >= SimilarEnough

Relations == {"DIFFERENT", "SAME_EVENT", "UPDATE"}

RelationRank(relation) ==
    CASE relation = "UPDATE" -> 2 [] relation = "SAME_EVENT" -> 1 [] OTHER -> 0

\* Ordered like <<relation, similarity, time>>.
MatchScore(r, s, relation) ==
    RelationRank(relation) * 10000 + Alike(r, s) * 500 + s.at

\* _select_best_relation.
BestMatches(r, relation) ==
    {s \in DOMAIN relation : \A t \in DOMAIN relation :
        MatchScore(r, s, relation[s]) >= MatchScore(r, t, relation[t])}

-----------------------------------------------------------------------------
(* PriorityEngine.compute for system signals: none has a tracking id, so   *)
(* they compete per event; user signals have one each.                     *)

\* final_score: importance, the weights of a system source and the novelty of
\* its default priority; less for an event that was reported twice.
Final(s, crowd) ==
    LET base == (91 * (450 * s.importance + 2750)) \div 100 IN
    IF \E t \in crowd : t # s /\ t.event = s.event THEN (88 * base) \div 100 ELSE base

\* Mutant of Prioritised: the last signal of an event replaces the others.
PrioritisedLast(crowd) ==
    {kept \in SUBSET crowd : \A s \in crowd : \E k \in kept :
        k.event = s.event /\ \A t \in kept : t.event = k.event => t = k}

\* _deduplicate_keep_best: of each event one of its best signals.
Prioritised(crowd) ==
    {kept \in SUBSET crowd : \A s \in crowd : \E k \in kept :
        /\ k.event = s.event
        /\ Final(k, crowd) >= Final(s, crowd)
        /\ \A t \in kept : t.event = k.event => t = k}

-----------------------------------------------------------------------------
(* FilterEngine.apply for system signals.                                  *)

\* A signal without a date needs a trusted source and more importance; an
\* update needs less.  Their novelty has not been scored yet.
Passes(s, crowd) ==
    IF s.fresh = "unknown" THEN ReportOf(s) \in Trusted /\ s.importance >= UndatedThreshold
    ELSE IF s.kind = "update" THEN 4 * s.importance >= 3 * Threshold \/ Final(s, crowd) >= 5500
    ELSE s.importance >= Threshold

\* The history that counts as seen, or as a candidate, at a time.
Within(history, now, window) == {h \in history : h.at + window >= now}

Seen(history, now) == {ReportOf(h) : h \in Within(history, now, DedupWindow)}

\* Mutant of IsNews: the history is searched by event only.
IsNewsByEvent(s, history, now) ==
    s.kind = "update" \/ \A h \in Within(history, now, DedupWindow) : h.event # s.event

\* _deduplicate_system: what the history has is no news, except as an update.
IsNews(s, history, now) == s.kind = "update" \/ ReportOf(s) \notin Seen(history, now)

FreshnessRank(s) ==
    CASE s.fresh = "fresh" -> 10000 [] s.fresh = "recent" -> 6000
      [] s.fresh = "unknown" -> 0 [] OTHER -> 1000

\* _system_rank_key: updates and events of the history come first; freshness
\* decides between equals.
Rank(s, crowd, history) ==
    LET score == Final(s, crowd) + FreshnessRank(s)
                   + (IF s.kind = "update" THEN 2200 ELSE 0)
                   + (IF \E h \in history : h.event = s.event THEN 1600 ELSE 0)
    IN  score * 10001 + FreshnessRank(s)

\* The room that user signals leave.
Room(users) ==
    LET rest == IF users < MaxSignals THEN MaxSignals - users ELSE 0 IN
    IF rest < MaxSystemSignals THEN rest ELSE MaxSystemSignals

Presentable(kept, crowd, history, now) ==
    {s \in kept : Passes(s, crowd) /\ IsNews(s, history, now)}

\* The best ones are kept, as many as there is room for.
Limited(fit, room, crowd, history) ==
    {best \in SUBSET fit :
        /\ Cardinality(best) = (IF Cardinality(fit) < room THEN Cardinality(fit) ELSE room)
        /\ \A s \in best, t \in fit \ best : Rank(s, crowd, history) >= Rank(t, crowd, history)}

\* The selections of system signals a run may end up with.
Selections(crowd, users, history, now) ==
    UNION {Limited(Presentable(kept, crowd, history, now), Room(users), crowd, history) :
              kept \in Prioritised(crowd)}
=============================================================================
